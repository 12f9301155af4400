--------------------------- MODULE WhiteListProofs ---------------------------
(***************************************************************************)
(* What the white list promises, for every length of the list and all       *)
(* identities.                                                             *)
(***************************************************************************)
EXTENDS WhiteList, FiniteSetTheorems, WellFoundedInduction, TLAPS

\* Two bytes of an identity fit into the count, and so does N + 1.
LEMMA Widths ==
  /\ MaxWord \in Nat /\ N < MaxWord
  /\ \A low, high \in Bytes : WordOf(low, high) \in 0 .. MaxWord
<1> DEFINE M == MaxByte
<1>1. N < MaxWord /\ Bytes \subseteq 0 .. M
  BY WhiteListAssumption, Zenon
<1>2. M \in Nat
  BY DEF MaxByte
<1>3. \A low, high \in Bytes : WordOf(low, high) = low + (M + 1) * high
  BY DEF WordOf
<1>4. MaxWord = M + (M + 1) * M
  BY DEF WordOf, MaxWord
<1> HIDE DEF M
<1>5. MaxWord \in Nat
  BY <1>2, <1>4
<1>6. ASSUME NEW low \in Bytes, NEW high \in Bytes PROVE WordOf(low, high) \in 0 .. MaxWord
  <2>1. low \in Nat /\ high \in Nat /\ low <= M /\ high <= M
    BY <1>1, <1>2
  <2>2. (M + 1) * high \in Nat /\ (M + 1) * high <= (M + 1) * M
    BY <1>2, <2>1
  <2>3. low + (M + 1) * high \in Nat /\ low + (M + 1) * high <= M + (M + 1) * M
    BY <1>2, <2>1, <2>2
  <2>4. QED BY <1>3, <1>4, <1>5, <2>3
<1>7. QED BY <1>1, <1>5, <1>6

LEMMA Constants ==
  /\ N \in Nat \ {0} /\ Words \in Nat \ {0} /\ None \notin Nat /\ Bytes \subseteq Nat
  /\ Uids \subseteq [1 .. Words -> Bytes] /\ Stack \subseteq [1 .. Words -> Bytes]
  /\ MaxWord \in Nat /\ N < MaxWord
<1>1. Uids \subseteq [1 .. 4 -> Bytes] /\ Stack \subseteq [1 .. 4 -> Bytes]
  BY WhiteListAssumption, Zenon
<1>2. N \in Nat \ {0} /\ None \notin Nat /\ Bytes \subseteq 0 .. MaxByte
  BY WhiteListAssumption, Zenon
<1>3. Bytes \subseteq Nat
  BY <1>2
<1>4. Words \in Nat \ {0}
  BY DEF Words
<1>5. QED BY <1>1, <1>2, <1>3, <1>4, Widths, Zenon DEF Words

USE Constants

Listed == [1 .. Words -> Bytes]

\* The identity that is being added, its next word and its position.
OpState ==
  /\ pc \in {"word", "use"} => cur \in Uids
  /\ pc = "word" => word \in 1 .. Words
  /\ pc = "use" => word = Words + 1
  /\ pc \in {"word", "use", "len", "first"} \/ at \in Pos

\* The count covers the positions in use all through an operation, unless an identity
\* took its place: in a deletion it is one ahead until it is stored, in an addition one
\* behind.
Covered ==
  /\ pc # "zerouse" /\ N \notin use =>
       Cardinality(use \cap Pos) + (IF pc = "unlen" THEN 1 ELSE 0)
         <= len + (IF pc = "len" THEN 1 ELSE 0)
  /\ pc = "zerofirst" => use = {}
  /\ pc \in {"zerouse", "zerofirst"} => len = 0
  /\ pc \in {"zerolen", "zerouse", "zerofirst"} => flash.use = {}

\* Nothing is written past the table before the power fails inside an operation.
InTable ==
  ~spoilt => /\ use \subseteq Pos /\ flash.use \subseteq Pos /\ first \in Pos
             /\ \A p \in use : uids[p] \in Listed
             /\ pc \notin {"clear", "zerolen", "zerouse", "zerofirst"} => flash.first \in Pos

\* The identity being added is not yet in the list.
NewIsNew == pc \in {"word", "use"} => \A p \in use \cap Pos : uids[p] # cur

\* The copies in the store follow the tables, the words written of a new identity too.
Copied ==
  /\ ~spoilt /\ pc \in {"idle", "word", "use", "len", "first", "unlen"} =>
       /\ flash.use = use
       /\ \A p \in use : (pc \in {"word", "use"} /\ p = at) \/ flash.uids[p] = uids[p]
  /\ ~spoilt /\ pc \in {"word", "use"} => \A w \in 1 .. word - 1 : flash.uids[at][w] = cur[w]

\* What a restart will find is a list of different identities.
Restorable ==
  ~spoilt /\ pc = "off" =>
    /\ \A p \in flash.use : flash.uids[p] \in Listed
    /\ \A p, q \in flash.use : flash.uids[p] = flash.uids[q] => p = q

IInv ==
  /\ TypeOK /\ OpState /\ Covered /\ InTable
  /\ NewIsNew /\ Copied /\ Restorable /\ NoDuplicates

-----------------------------------------------------------------------------
(* Sets of positions                                                       *)

LEMMA CountOfUse ==
  ASSUME NEW S
  PROVE  /\ IsFiniteSet(S \cap Pos) /\ Cardinality(S \cap Pos) \in 0 .. N
<1>1. IsFiniteSet(Pos) /\ Cardinality(Pos) = N
  <2>1. 0 \in Int /\ N - 1 \in Int
    OBVIOUS
  <2>2. QED BY <2>1, FS_Interval DEF Pos
<1>2. IsFiniteSet(S \cap Pos) /\ Cardinality(S \cap Pos) <= N
  BY <1>1, FS_Intersection
<1>3. Cardinality(S \cap Pos) \in Nat
  BY <1>2, FS_CardinalityType
<1>4. QED BY <1>2, <1>3

LEMMA CountOfMore ==
  ASSUME NEW S, NEW x
  PROVE  Cardinality((S \cup {x}) \cap Pos) <= Cardinality(S \cap Pos) + 1
<1> DEFINE T == S \cap Pos
<1>1. IsFiniteSet(T) /\ Cardinality(T) \in Nat
  BY CountOfUse
<1>2. (S \cup {x}) \cap Pos = T \/ (S \cup {x}) \cap Pos = T \cup {x}
  OBVIOUS
<1> HIDE DEF T
<1>3. Cardinality(T \cup {x}) = IF x \in T THEN Cardinality(T) ELSE Cardinality(T) + 1
  BY <1>1, FS_AddElement
<1>4. Cardinality(T \cup {x}) <= Cardinality(T) + 1
  BY <1>1, <1>3
<1>5. CASE (S \cup {x}) \cap Pos = T
  <2>1. Cardinality(T) <= Cardinality(T) + 1
    BY <1>1
  <2>2. QED BY <1>5, <2>1 DEF T
<1>6. CASE (S \cup {x}) \cap Pos = T \cup {x}
  BY <1>4, <1>6 DEF T
<1>7. QED BY <1>2, <1>5, <1>6

LEMMA CountOfLess ==
  ASSUME NEW S, NEW x \in S \cap Pos
  PROVE  Cardinality((S \ {x}) \cap Pos) = Cardinality(S \cap Pos) - 1
<1>1. (S \ {x}) \cap Pos = (S \cap Pos) \ {x}
  OBVIOUS
<1>2. QED BY <1>1, CountOfUse, FS_RemoveElement

\* Min is one of the positions found.
LEMMA MinIsFound ==
  ASSUME NEW S, S \subseteq Nat, S # {}
  PROVE  Min(S) \in S /\ \A y \in S : Min(S) <= y
<1>1. PICK x \in S : \A y \in S : <<y, x>> \notin OpToRel(<, Nat)
  BY NatLessThanWellFounded, WFMin
<1>2. \A y \in S : x <= y
  <2> SUFFICES ASSUME NEW y \in S, ~(x <= y) PROVE FALSE
    OBVIOUS
  <2>1. <<y, x>> \in Nat \X Nat /\ y < x
    OBVIOUS
  <2>2. <<y, x>> \in OpToRel(<, Nat)
    BY <2>1 DEF OpToRel
  <2>3. QED BY <1>1, <2>2
<1>3. QED BY <1>2, Zenon DEF Min

\* So is Max, of which there is one in a bounded set.
LEMMA MaxIsFound ==
  ASSUME NEW n \in Nat, NEW S, S \subseteq 0 .. n, S # {}
  PROVE  Max(S) \in S /\ \A y \in S : y <= Max(S)
<1> DEFINE Less(q) == n - q
           T == {Less(q) : q \in S}
<1>1. \A q \in S : q \in Nat /\ Less(q) \in Nat
  OBVIOUS
<1>2. \A x, y \in S : Less(x) <= Less(y) => x >= y
  OBVIOUS
<1> HIDE DEF Less
<1>3. T \subseteq Nat /\ T # {}
  BY <1>1
<1>4. Min(T) \in T /\ \A y \in T : Min(T) <= y
  BY <1>3, MinIsFound, Zenon
<1>5. PICK x \in S : Min(T) = Less(x)
  BY <1>4, Zenon
<1>6. \A y \in S : Less(x) <= Less(y)
  BY <1>4, <1>5, Zenon
<1>7. \A y \in S : x >= y
  BY <1>2, <1>6, Zenon
<1>8. Max(S) \in S /\ \A y \in S : Max(S) >= y
  BY <1>7, Zenon DEF Max
<1>9. QED BY <1>1, <1>8

-----------------------------------------------------------------------------
(* Initial states and restarts                                             *)

LEMMA InitIInv == Init => IInv
<1> SUFFICES ASSUME Init PROVE IInv
  OBVIOUS
<1>1. /\ use = {} /\ uids = [p \in Pos |-> NoUid] /\ len = 0 /\ first = 0
      /\ pc = "off" /\ cur = NoUid /\ at = 0 /\ word = 1
      /\ flash \in {EmptyFlash, [EmptyFlash EXCEPT !.first = 0]}
      /\ deleted = FALSE /\ spoilt = (flash = EmptyFlash)
  BY DEF Init
<1>2. flash.use = {} /\ (~spoilt => flash.first = 0)
  <2>1. flash = EmptyFlash => spoilt
    BY <1>1, Zenon
  <2>2. CASE flash = EmptyFlash
    BY <2>1, <2>2 DEF EmptyFlash
  <2>3. CASE flash = [EmptyFlash EXCEPT !.first = 0]
    BY <2>3 DEF EmptyFlash
  <2>4. QED BY <1>1, <2>2, <2>3
<1>3. TypeOK
  <2>1. EmptyFlash \in [use : SUBSET Bits, uids : [Pos -> [1 .. Words -> Bytes \cup {None}]],
                        first : Nat \cup {None}]
    BY DEF EmptyFlash, NoUid
  <2>2. flash \in [use : SUBSET Bits, uids : [Pos -> [1 .. Words -> Bytes \cup {None}]],
                   first : Nat \cup {None}]
    <3>1. CASE flash = EmptyFlash
      BY <2>1, <3>1
    <3>2. CASE flash = [EmptyFlash EXCEPT !.first = 0]
      BY <2>1, <3>2
    <3>3. QED BY <1>1, <3>1, <3>2
  <2>3. uids \in [Pos -> [1 .. Words -> Bytes \cup {None}]]
    BY <1>1 DEF NoUid
  <2>4. spoilt \in BOOLEAN
    BY <1>1, Zenon
  <2>5. at \in Pos /\ at \in Bits /\ use \subseteq Bits /\ len \in 0 .. MaxWord /\ len <= N + 1
        /\ first \in 0 .. MaxWord /\ first <= N /\ word \in 1 .. Words + 1
    BY <1>1 DEF Pos, Bits
  <2>6. pc = "off" /\ cur \in Uids \cup {NoUid} /\ deleted \in BOOLEAN
    BY <1>1
  <2>7. QED BY <2>2, <2>3, <2>4, <2>5, <2>6 DEF TypeOK
<1>4. OpState /\ NewIsNew /\ Copied /\ NoDuplicates /\ Restorable
  BY <1>1, <1>2 DEF OpState, NewIsNew, Copied, NoDuplicates, Restorable, Pos
<1>5. Covered
  <2>1. Cardinality(use \cap Pos) = 0
    BY <1>1, FS_EmptySet
  <2>2. QED BY <1>1, <2>1 DEF Covered
<1>6. InTable
  BY <1>1, <1>2 DEF InTable, Pos
<1>7. QED BY <1>3, <1>4, <1>5, <1>6 DEF IInv

\* A word that is loaded is one of the stack or one of the flash.
LEMMA LoadedFacts ==
  ASSUME NEW p \in Pos, NEW w, NEW any, NEW S, any[w] \in S,
         flash.use \subseteq Bits, \A q \in Pos : flash.uids[q][w] \in S
  PROVE  LoadedWord(p, w, any) \in S
<1> DEFINE read == {q \in flash.use \cap (0 .. p) : flash.uids[q][w] # None}
<1>1. p \in Nat /\ 0 .. p \subseteq Pos /\ read \subseteq 0 .. p
  BY DEF Pos
<1>2. LoadedWord(p, w, any) = IF read = {} THEN any[w] ELSE flash.uids[Max(read)][w]
  BY DEF LoadedWord
<1> HIDE DEF read
<1>3. CASE read = {}
  BY <1>2, <1>3
<1>4. CASE read # {}
  <2>1. Max(read) \in read
    BY <1>1, <1>4, MaxIsFound
  <2>2. QED BY <1>1, <1>2, <1>4, <2>1
<1>5. QED BY <1>3, <1>4

\* What is read back of an identity that was written is what was written.
LEMMA WrittenIsLoaded ==
  ASSUME flash.use \subseteq Pos, \A p \in flash.use : flash.uids[p] \in Listed, NEW any,
         uids' = [p \in Pos |-> IF p \in flash.use
                               THEN [w \in 1 .. Words |-> LoadedWord(p, w, any)] ELSE NoUid]
  PROVE  \A p \in flash.use : uids'[p] = flash.uids[p]
<1> SUFFICES ASSUME NEW p \in flash.use PROVE uids'[p] = flash.uids[p]
  OBVIOUS
<1>1. p \in Pos /\ p \in 0 .. p /\ p \in Nat /\ flash.uids[p] \in [1 .. Words -> Bytes]
  BY DEF Pos, Listed
<1>2. ASSUME NEW w \in 1 .. Words PROVE LoadedWord(p, w, any) = flash.uids[p][w]
  <2> DEFINE read == {q \in flash.use \cap (0 .. p) : flash.uids[q][w] # None}
  <2>1. flash.uids[p][w] \in Bytes /\ flash.uids[p][w] # None
    BY <1>1
  <2>2. p \in read /\ read \subseteq 0 .. p
    BY <1>1, <2>1
  <2>3. LoadedWord(p, w, any) = IF read = {} THEN any[w] ELSE flash.uids[Max(read)][w]
    BY DEF LoadedWord
  <2> HIDE DEF read
  <2>4. read # {}
    BY <2>2
  <2>5. Max(read) \in 0 .. p /\ p <= Max(read)
    BY <1>1, <2>2, <2>4, MaxIsFound
  <2>6. Max(read) = p
    BY <1>1, <2>5
  <2>7. QED BY <2>3, <2>4, <2>6
<1>3. uids'[p] = [w \in 1 .. Words |-> flash.uids[p][w]]
  BY <1>1, <1>2
<1>4. QED BY <1>1, <1>3

LEMMA BootStep ==
  ASSUME IInv, Boot
  PROVE  IInv'
<1>1. /\ pc = "off" /\ pc' = "idle" /\ use' = flash.use
      /\ len' = Cardinality(flash.use \cap Pos)
      /\ UNCHANGED <<flash, cur, at, word, deleted, spoilt>>
  BY DEF Boot, args, past
<1>2. PICK x \in Loaded(flash.first, Bits) : first' = Accepted(x)
  BY DEF Boot
<1>3. PICK any \in Stack :
        uids' = [p \in Pos |-> IF p \in flash.use
                               THEN [w \in 1 .. Words |-> LoadedWord(p, w, any)] ELSE NoUid]
  BY DEF Boot
<1>4. /\ flash.use \subseteq Bits /\ flash.first \in Nat \cup {None} /\ at \in Bits
      /\ flash.uids \in [Pos -> [1 .. Words -> Bytes \cup {None}]]
      /\ word \in 1 .. Words + 1 /\ cur \in Uids \cup {NoUid} /\ (spoilt \/ at \in Pos)
  BY DEF IInv, TypeOK
<1>5. first' \in 0 .. MaxWord /\ first' <= N /\ (~spoilt => first' \in Pos)
  <2>1. x \in Nat
    BY <1>2, <1>4 DEF Loaded, Bits
  <2>2. ~spoilt => x = flash.first /\ flash.first \in Pos
    <3>1. ~spoilt => flash.first \in Pos
      BY <1>1 DEF IInv, InTable
    <3>2. flash.first \in Pos => flash.first # None
      BY DEF Pos
    <3>3. QED BY <1>2, <3>1, <3>2 DEF Loaded
  <2>3. QED BY <1>2, <2>1, <2>2 DEF Accepted, Pos
<1>6. uids' \in [Pos -> [1 .. Words -> Bytes \cup {None}]]
  <2>1. ASSUME NEW p \in Pos, NEW w \in 1 .. Words PROVE LoadedWord(p, w, any) \in Bytes \cup {None}
    <3>1. any[w] \in Bytes
      OBVIOUS
    <3>2. \A q \in Pos : flash.uids[q][w] \in Bytes \cup {None}
      BY <1>4
    <3>3. any[w] \in Bytes \cup {None}
      BY <3>1
    <3>4. QED BY <1>4, <3>2, <3>3, LoadedFacts
  <2>2. NoUid \in [1 .. Words -> Bytes \cup {None}]
    BY DEF NoUid
  <2>3. QED BY <1>3, <2>1, <2>2
<1>7. TypeOK'
  <2>1. len' \in 0 .. MaxWord /\ len' <= N + 1
    <3>1. Cardinality(flash.use \cap Pos) \in 0 .. N
      BY CountOfUse, Zenon
    <3>2. QED BY <1>1, <3>1
  <2>2. QED BY <1>1, <1>4, <1>5, <1>6, <2>1 DEF IInv, TypeOK
<1>8. Covered'
  <2>1. Cardinality(flash.use \cap Pos) \in 0 .. N
    BY CountOfUse, Zenon
  <2>2. QED BY <1>1, <2>1 DEF Covered
\* What is read back is what was written.
<1>9. ASSUME ~spoilt PROVE \A p \in flash.use : uids'[p] = flash.uids[p]
  <2>1. flash.use \subseteq Pos /\ \A p \in flash.use : flash.uids[p] \in Listed
    BY <1>1, <1>9 DEF IInv, InTable, Restorable
  <2>2. QED BY <1>3, <2>1, WrittenIsLoaded
<1>10. InTable'
  BY <1>1, <1>5, <1>9 DEF IInv, InTable, Restorable
<1>11. Copied' /\ NoDuplicates'
  BY <1>1, <1>9 DEF IInv, InTable, Copied, NoDuplicates, Restorable
<1>12. OpState' /\ NewIsNew' /\ Restorable'
  BY <1>1 DEF IInv, OpState, NewIsNew, Restorable
<1>13. QED BY <1>7, <1>8, <1>10, <1>11, <1>12 DEF IInv

LEMMA PowerLossStep ==
  ASSUME IInv, PowerLoss
  PROVE  IInv'
<1>1. /\ pc \notin {"off", "lost"} /\ spoilt' = (spoilt \/ pc # "idle")
      /\ pc' = "off" /\ cur' = NoUid /\ at' = 0 /\ word' = 1
      /\ use' = {} /\ uids' = [p \in Pos |-> NoUid] /\ len' = 0 /\ first' = 0
      /\ flash' = flash /\ deleted' = deleted
  BY DEF PowerLoss
<1>2. TypeOK'
  <2>1. uids' \in [Pos -> [1 .. Words -> Bytes \cup {None}]]
    BY <1>1 DEF NoUid
  <2>2. at' \in Pos /\ at' \in Bits /\ use' \subseteq Bits /\ len' \in 0 .. MaxWord
        /\ len' <= N + 1 /\ first' \in 0 .. MaxWord /\ first' <= N /\ word' \in 1 .. Words + 1
    BY <1>1 DEF Pos, Bits
  <2>3. spoilt' \in BOOLEAN
    BY <1>1, Zenon
  <2>4. QED BY <1>1, <2>1, <2>2, <2>3 DEF IInv, TypeOK
<1>3. Covered'
  <2>1. Cardinality(use' \cap Pos) = 0
    BY <1>1, FS_EmptySet
  <2>2. QED BY <1>1, <2>1 DEF Covered
<1>4. OpState' /\ NewIsNew' /\ Copied' /\ NoDuplicates'
  BY <1>1 DEF OpState, NewIsNew, Copied, NoDuplicates, Pos
<1>5. InTable'
  <2>1. 0 \in Pos
    BY DEF Pos
  <2>2. QED BY <1>1, <2>1 DEF IInv, InTable
<1>6. Restorable'
  <2> SUFFICES ASSUME ~spoilt, pc = "idle"
               PROVE  /\ \A p \in flash.use : flash.uids[p] \in Listed
                      /\ \A p, q \in flash.use : flash.uids[p] = flash.uids[q] => p = q
    BY <1>1 DEF Restorable
  <2>1. flash.use = use /\ \A p \in use : flash.uids[p] = uids[p]
    BY DEF IInv, Copied
  <2>2. use \subseteq Pos /\ \A p \in use : uids[p] \in Listed
    BY DEF IInv, InTable
  <2>3. \A p, q \in use : uids[p] = uids[q] => p = q
    BY <2>2 DEF IInv, NoDuplicates
  <2>4. QED BY <2>1, <2>2, <2>3
<1>7. QED BY <1>2, <1>3, <1>4, <1>5, <1>6 DEF IInv

-----------------------------------------------------------------------------
(* Adding an identity                                                      *)

LEMMA AddStep ==
  ASSUME IInv, NEW u \in Uids, Add(u)
  PROVE  IInv'
<1>1. /\ pc = "idle" /\ Found(u) = {} /\ Position <= N /\ at' = Position
      /\ first' = (IF Full THEN (first + 1) % N ELSE first)
      /\ cur' = u /\ word' = 1 /\ pc' = "word"
      /\ UNCHANGED <<use, uids, len, flash, deleted, spoilt>>
  BY DEF Add, past
<1>2. at' \in Bits /\ (~spoilt => at' \in Pos)
  <2>1. len \in Nat /\ first \in Nat /\ (~spoilt => first \in Pos)
    BY DEF IInv, TypeOK, InTable
  <2>2. QED BY <1>1, <2>1 DEF Position, Full, Bits, Pos
<1>3. /\ first' \in 0 .. MaxWord /\ (first <= N => first' <= N)
      /\ ~spoilt => first' \in Pos
  <2>1. first \in 0 .. MaxWord /\ (~spoilt => first \in Pos)
    BY DEF IInv, TypeOK, InTable
  <2>2. (first + 1) % N \in 0 .. N - 1
    BY <2>1
  <2>3. QED BY <1>1, <2>1, <2>2 DEF Pos
<1>4. TypeOK'
  <2>1. word' \in 1 .. Words + 1
    BY <1>1
  <2>2. QED BY <1>1, <1>2, <1>3, <2>1 DEF IInv, TypeOK
<1>5. OpState'
  BY <1>1 DEF OpState
<1>6. Covered'
  BY <1>1 DEF IInv, Covered
<1>7. InTable'
  BY <1>1, <1>3 DEF IInv, InTable
<1>8. NewIsNew'
  BY <1>1 DEF NewIsNew, Found
<1>9. Copied'
  BY <1>1 DEF IInv, Copied
<1>10. NoDuplicates' /\ Restorable'
  BY <1>1 DEF IInv, NoDuplicates, Restorable
<1>11. QED BY <1>4, <1>5, <1>6, <1>7, <1>8, <1>9, <1>10 DEF IInv

\* Only where an identity took the place of the count or of the position is one added
\* beyond all bounds.
LEMMA AddAstrayStep ==
  ASSUME IInv, AddAstray
  PROVE  IInv'
<1>1. /\ pc = "idle" /\ pc' = "lost"
      /\ UNCHANGED <<use, uids, len, first, flash, cur, at, word, deleted, spoilt>>
  BY DEF AddAstray, ram, args, past
<1>2. TypeOK' /\ Covered' /\ InTable' /\ NoDuplicates'
  BY <1>1 DEF IInv, TypeOK, Covered, InTable, NoDuplicates
<1>3. OpState' /\ NewIsNew' /\ Copied' /\ Restorable'
  BY <1>1 DEF IInv, OpState, NewIsNew, Copied, Restorable
<1>4. QED BY <1>2, <1>3 DEF IInv

\* A word is written to its place in the table, or past it.
LEMMA StoredWordFacts ==
  ASSUME IInv, StoreWord
  PROVE  /\ flash'.use = flash.use
         /\ flash'.uids \in [Pos -> [1 .. Words -> Bytes \cup {None}]]
         /\ flash'.first \in Nat \cup {None}
         /\ flash' \in [use : SUBSET Bits, uids : [Pos -> [1 .. Words -> Bytes \cup {None}]],
                        first : Nat \cup {None}]
         /\ \A p \in Pos \ {at} : flash'.uids[p] = flash.uids[p]
         /\ at \in Pos => /\ flash'.first = flash.first
                          /\ flash'.uids[at] = [flash.uids[at] EXCEPT ![word] = cur[word]]
<1>1. /\ flash \in [use : SUBSET Bits, uids : [Pos -> [1 .. Words -> Bytes \cup {None}]],
                    first : Nat \cup {None}]
      /\ flash' = IF at \in Pos THEN [flash EXCEPT !.uids[at][word] = cur[word]]
                                ELSE PastTable(word, cur[word])
  BY DEF IInv, TypeOK, StoreWord
<1>2. word \in 1 .. Words /\ cur[word] \in Bytes /\ cur[word] \in Nat
  BY DEF IInv, OpState, StoreWord
<1>3. CASE at \in Pos
  <2>1. flash' = [flash EXCEPT !.uids = [flash.uids EXCEPT
                    ![at] = [flash.uids[at] EXCEPT ![word] = cur[word]]]]
    BY <1>1, <1>3
  <2>2. [flash.uids[at] EXCEPT ![word] = cur[word]] \in [1 .. Words -> Bytes \cup {None}]
    BY <1>1, <1>2, <1>3
  <2>3. [flash.uids EXCEPT ![at] = [flash.uids[at] EXCEPT ![word] = cur[word]]]
          \in [Pos -> [1 .. Words -> Bytes \cup {None}]]
    BY <1>1, <1>3, <2>2
  <2>4. /\ flash'.use = flash.use /\ flash'.first = flash.first
        /\ flash'.uids = [flash.uids EXCEPT
                           ![at] = [flash.uids[at] EXCEPT ![word] = cur[word]]]
        /\ flash' \in [use : SUBSET Bits, uids : [Pos -> [1 .. Words -> Bytes \cup {None}]],
                       first : Nat \cup {None}]
    BY <1>1, <2>1, <2>3
  <2>5. QED BY <1>1, <1>3, <2>3, <2>4
<1>4. CASE at \notin Pos
  <2>1. flash' = [flash EXCEPT !.first = IF word = 3 THEN cur[word] ELSE flash.first]
    BY <1>1, <1>4 DEF PastTable
  <2>2. QED BY <1>1, <1>2, <1>4, <2>1
<1>5. QED BY <1>3, <1>4

LEMMA StoreWordStep ==
  ASSUME IInv, StoreWord
  PROVE  IInv'
<1>1. /\ pc = "word" /\ word' = word + 1 /\ pc' = (IF word = Words THEN "use" ELSE "word")
      /\ UNCHANGED <<use, uids, len, first, cur, at, deleted, spoilt>>
  BY DEF StoreWord, ram, past
<1>2. word \in 1 .. Words /\ cur \in Uids
  BY <1>1 DEF IInv, OpState
<1>3. TypeOK'
  <2>1. word' \in 1 .. Words + 1
    BY <1>1, <1>2
  <2>2. pc' \in {"use", "word"}
    BY <1>1
  <2>3. QED BY <1>1, <2>1, <2>2, StoredWordFacts DEF IInv, TypeOK
<1>4. OpState'
  BY <1>1, <1>2 DEF OpState
<1>5. Covered'
  BY <1>1 DEF IInv, Covered
<1>6. InTable'
  BY <1>1, StoredWordFacts DEF IInv, InTable, TypeOK
<1>7. NewIsNew' /\ NoDuplicates'
  BY <1>1 DEF IInv, NewIsNew, NoDuplicates
<1>8. Copied'
  <2> SUFFICES ASSUME ~spoilt PROVE Copied'
    BY <1>1 DEF Copied
  <2>1. at \in Pos /\ use \subseteq Pos
    BY DEF IInv, TypeOK, InTable
  <2>2. flash'.use = use'
    BY <1>1, StoredWordFacts DEF IInv, Copied
  <2>3. \A p \in use : p = at \/ flash'.uids[p] = uids[p]
    BY <1>1, <2>1, StoredWordFacts DEF IInv, Copied
  <2>4. \A w \in 1 .. word : flash'.uids[at][w] = cur[w]
    <3>1. flash.uids[at] \in [1 .. Words -> Bytes \cup {None}]
      BY <2>1 DEF IInv, TypeOK
    <3>2. \A w \in 1 .. word - 1 : flash.uids[at][w] = cur[w]
      BY <1>1 DEF IInv, Copied
    <3>3. flash'.uids[at] = [flash.uids[at] EXCEPT ![word] = cur[word]]
      BY <2>1, StoredWordFacts
    <3>4. QED BY <1>2, <3>1, <3>2, <3>3
  <2>5. word' - 1 = word /\ pc' \in {"word", "use"}
    BY <1>1, <1>2
  <2>6. QED BY <1>1, <2>2, <2>3, <2>4, <2>5 DEF Copied
<1>9. Restorable'
  BY <1>1 DEF Restorable
<1>10. QED BY <1>3, <1>4, <1>5, <1>6, <1>7, <1>8, <1>9 DEF IInv

\* An identity is copied to its place in the table, or to the count and the position.
LEMMA CopiedUidFacts ==
  ASSUME IInv, StoreUse
  PROVE  /\ uids' \in [Pos -> [1 .. Words -> Bytes \cup {None}]]
         /\ len' \in 0 .. MaxWord /\ first' \in 0 .. MaxWord
         /\ at \in Pos => uids' = [uids EXCEPT ![at] = cur] /\ len' = len /\ first' = first
         /\ at \notin Pos => at = N /\ uids' = uids
<1>1. /\ uids \in [Pos -> [1 .. Words -> Bytes \cup {None}]]
      /\ len \in 0 .. MaxWord /\ first \in 0 .. MaxWord /\ at \in Bits
  BY DEF IInv, TypeOK
<1>2. cur \in [1 .. 4 -> Bytes] /\ cur \in [1 .. Words -> Bytes]
  BY DEF IInv, OpState, StoreUse, Words
<1>3. CASE at \in Pos
  <2>1. uids' = [uids EXCEPT ![at] = cur] /\ len' = len /\ first' = first
    BY <1>3 DEF StoreUse, CopyUid
  <2>2. QED BY <1>1, <1>2, <1>3, <2>1
<1>4. CASE at \notin Pos
  <2>1. len' = WordOf(cur[1], cur[2]) /\ first' = WordOf(cur[3], cur[4]) /\ uids' = uids
    BY <1>4 DEF StoreUse, CopyUid
  <2>2. cur[1] \in Bytes /\ cur[2] \in Bytes /\ cur[3] \in Bytes /\ cur[4] \in Bytes
    BY <1>2
  <2>3. len' \in 0 .. MaxWord /\ first' \in 0 .. MaxWord
    BY <2>1, <2>2, Widths
  <2>4. at = N
    BY <1>1, <1>4 DEF Bits, Pos
  <2>5. QED BY <1>1, <1>4, <2>1, <2>3, <2>4
<1>5. QED BY <1>3, <1>4

LEMMA StoreUseStep ==
  ASSUME IInv, StoreUse
  PROVE  IInv'
<1>1. /\ pc = "use" /\ pc' = "len"
      /\ use' = use \cup {at} /\ flash' = [flash EXCEPT !.use = use']
      /\ UNCHANGED <<cur, at, word, deleted, spoilt>>
  BY DEF StoreUse, args, past
<1>2. cur \in Uids /\ cur \in Listed /\ word = Words + 1
  BY <1>1 DEF IInv, OpState, Listed
<1>3. /\ flash \in [use : SUBSET Bits, uids : [Pos -> [1 .. Words -> Bytes \cup {None}]],
                    first : Nat \cup {None}]
      /\ uids \in [Pos -> [1 .. Words -> Bytes \cup {None}]] /\ use \subseteq Bits /\ at \in Bits
  BY DEF IInv, TypeOK
<1>4. /\ flash'.use = use' /\ flash'.uids = flash.uids /\ flash'.first = flash.first
  BY <1>1, <1>3
<1>5. TypeOK'
  <2>1. use' \subseteq Bits
    BY <1>1, <1>3
  <2>2. flash' \in [use : SUBSET Bits, uids : [Pos -> [1 .. Words -> Bytes \cup {None}]],
                    first : Nat \cup {None}]
    BY <1>1, <1>3, <2>1
  <2>3. (N \in use \/ (len <= N + 1 /\ (first <= N \/ pc = "zerofirst")))'
    <3>1. CASE at \in Pos
      BY <1>1, <3>1, CopiedUidFacts DEF IInv, TypeOK
    <3>2. CASE at \notin Pos
      BY <1>1, <3>2, CopiedUidFacts
    <3>3. QED BY <3>1, <3>2
  <2>4. QED BY <1>1, <2>1, <2>2, <2>3, CopiedUidFacts DEF IInv, TypeOK
<1>6. Covered'
  <2>1. N \notin use' => at \in Pos /\ len' = len /\ N \notin use
    BY <1>1, CopiedUidFacts
  <2>2. N \notin use => Cardinality(use \cap Pos) <= len
    <3>1. Cardinality(use \cap Pos) \in 0 .. N
      BY CountOfUse, Zenon
    <3>2. QED BY <1>1, <3>1 DEF IInv, Covered, TypeOK
  <2>3. Cardinality(use' \cap Pos) <= Cardinality(use \cap Pos) + 1
    BY <1>1, CountOfMore
  <2>4. Cardinality(use' \cap Pos) \in Nat /\ Cardinality(use \cap Pos) \in Nat /\ len \in Nat
    <3>1. Cardinality(use' \cap Pos) \in 0 .. N /\ Cardinality(use \cap Pos) \in 0 .. N
      BY CountOfUse, Zenon
    <3>2. len \in Nat
      BY DEF IInv, TypeOK
    <3>3. QED BY <3>1, <3>2
  <2>5. QED BY <1>1, <2>1, <2>2, <2>3, <2>4 DEF Covered
<1>7. ASSUME ~spoilt
      PROVE  /\ use' \subseteq Pos /\ at \in Pos /\ len' = len /\ first' = first
             /\ uids' = [uids EXCEPT ![at] = cur]
  BY <1>1, <1>7, CopiedUidFacts DEF IInv, TypeOK, InTable
<1>8. InTable'
  <2> SUFFICES ASSUME ~spoilt PROVE InTable'
    BY <1>1 DEF InTable
  <2>1. \A p \in use' : uids'[p] \in Listed
    BY <1>1, <1>2, <1>3, <1>7 DEF IInv, InTable
  <2>2. QED BY <1>1, <1>4, <1>7, <2>1 DEF IInv, InTable
<1>9. Copied'
  <2> SUFFICES ASSUME ~spoilt PROVE \A p \in use' : flash'.uids[p] = uids'[p]
    BY <1>1, <1>4 DEF Copied
  <2>1. flash.uids[at] = cur
    <3>1. \A w \in 1 .. Words : flash.uids[at][w] = cur[w]
      BY <1>1, <1>2 DEF IInv, Copied
    <3>2. flash.uids[at] \in [1 .. Words -> Bytes \cup {None}] /\ cur \in [1 .. Words -> Bytes]
      BY <1>2, <1>3, <1>7 DEF Listed
    <3>3. QED BY <3>1, <3>2
  <2>2. \A p \in use \ {at} : flash.uids[p] = uids[p]
    BY <1>1 DEF IInv, Copied
  <2>3. QED BY <1>1, <1>3, <1>4, <1>7, <2>1, <2>2
<1>10. NoDuplicates'
  BY <1>1, <1>3, <1>7 DEF IInv, NewIsNew, NoDuplicates
<1>11. OpState' /\ NewIsNew' /\ Restorable'
  BY <1>1 DEF IInv, OpState, NewIsNew, Restorable
<1>12. QED BY <1>5, <1>6, <1>8, <1>9, <1>10, <1>11 DEF IInv

LEMMA StoreLenStep ==
  ASSUME IInv, StoreLen
  PROVE  IInv'
<1>1. /\ pc = "len" /\ pc' = "first" /\ len' = Counted
      /\ UNCHANGED <<use, uids, first, flash, cur, at, word, deleted, spoilt>>
  BY DEF StoreLen, args, past
<1>2. len \in 0 .. MaxWord
  BY DEF IInv, TypeOK
<1>3. /\ len' \in 0 .. MaxWord /\ (len <= N + 1 => len' <= N + 1)
      /\ len' = len + 1 \/ (len' = len /\ len > N)
  BY <1>1, <1>2 DEF Counted
<1>4. TypeOK'
  BY <1>1, <1>3 DEF IInv, TypeOK
<1>5. Covered'
  <2>1. Cardinality(use \cap Pos) \in 0 .. N
    BY CountOfUse, Zenon
  <2>2. N \notin use => Cardinality(use \cap Pos) <= len + 1
    BY <1>1, <1>2, <2>1 DEF IInv, Covered
  <2>3. QED BY <1>1, <1>2, <1>3, <2>1, <2>2 DEF Covered
<1>6. InTable' /\ Copied' /\ NoDuplicates'
  BY <1>1 DEF IInv, InTable, Copied, NoDuplicates
<1>7. OpState' /\ NewIsNew' /\ Restorable'
  BY <1>1 DEF IInv, OpState, NewIsNew, Restorable
<1>8. QED BY <1>4, <1>5, <1>6, <1>7 DEF IInv

\* The operation is over: no position is pending.
LEMMA IdleFacts ==
  ASSUME Idle
  PROVE  /\ pc' = "idle" /\ cur' \in Uids \cup {NoUid} /\ at' \in Pos /\ at' \in Bits
         /\ word' \in 1 .. Words + 1
  BY DEF Idle, Pos, Bits

LEMMA StoreFirstStep ==
  ASSUME IInv, StoreFirst
  PROVE  IInv'
<1>1. /\ pc = "first" /\ flash' = [flash EXCEPT !.first = StoredFirst]
      /\ UNCHANGED <<use, uids, len, first, deleted, spoilt>>
  BY DEF StoreFirst, ram, past
<1>2. /\ flash \in [use : SUBSET Bits, uids : [Pos -> [1 .. Words -> Bytes \cup {None}]],
                    first : Nat \cup {None}]
      /\ first \in Nat
  BY DEF IInv, TypeOK
<1>3. StoredFirst \in {first, flash.first}
  BY DEF StoredFirst
<1>4. /\ flash'.use = flash.use /\ flash'.uids = flash.uids /\ flash'.first = StoredFirst
  BY <1>1, <1>2
<1>5. pc' = "idle"
  BY IdleFacts DEF StoreFirst
<1>6. TypeOK'
  <2>1. flash' \in [use : SUBSET Bits, uids : [Pos -> [1 .. Words -> Bytes \cup {None}]],
                    first : Nat \cup {None}]
    BY <1>1, <1>2, <1>3
  <2>2. QED BY <1>1, <1>5, <2>1, IdleFacts DEF IInv, TypeOK, StoreFirst
<1>7. Covered'
  BY <1>1, <1>5 DEF IInv, Covered
<1>8. InTable'
  BY <1>1, <1>3, <1>4 DEF IInv, InTable
<1>9. Copied' /\ NoDuplicates'
  BY <1>1, <1>4, <1>5 DEF IInv, Copied, NoDuplicates
<1>10. OpState' /\ NewIsNew' /\ Restorable'
  BY <1>5, IdleFacts DEF OpState, NewIsNew, Restorable, StoreFirst
<1>11. QED BY <1>6, <1>7, <1>8, <1>9, <1>10 DEF IInv

-----------------------------------------------------------------------------
(* Deleting an identity                                                    *)

LEMMA DeleteStep ==
  ASSUME IInv, NEW u \in Uids, Delete(u)
  PROVE  IInv'
<1> DEFINE p == Min(Found(u))
<1>1. /\ pc = "idle" /\ pc' = "unlen" /\ deleted' = TRUE /\ Found(u) # {}
      /\ use' = use \ {p} /\ flash' = [flash EXCEPT !.use = use']
      /\ UNCHANGED <<uids, len, first, cur, at, word, spoilt>>
  BY DEF Delete, args
<1>2. p \in use \cap Pos
  <2>1. Found(u) \subseteq use \cap Pos /\ Found(u) \subseteq Nat
    BY DEF Found, Pos
  <2>2. QED BY <1>1, <2>1, MinIsFound
<1> HIDE DEF p
<1>3. /\ flash \in [use : SUBSET Bits, uids : [Pos -> [1 .. Words -> Bytes \cup {None}]],
                    first : Nat \cup {None}]
      /\ use \subseteq Bits
  BY DEF IInv, TypeOK
<1>4. flash'.use = use' /\ flash'.uids = flash.uids /\ flash'.first = flash.first
  BY <1>1, <1>3
<1>5. TypeOK'
  <2>1. use' \subseteq Bits
    BY <1>1, <1>3
  <2>2. flash' \in [use : SUBSET Bits, uids : [Pos -> [1 .. Words -> Bytes \cup {None}]],
                    first : Nat \cup {None}]
    BY <1>1, <1>3, <2>1
  <2>3. (N \in use => N \in use') /\ pc' # "zerofirst" /\ pc # "zerofirst"
    BY <1>1, <1>2 DEF Pos
  <2>4. QED BY <1>1, <2>1, <2>2, <2>3 DEF IInv, TypeOK
<1>6. Covered'
  <2>1. Cardinality(use' \cap Pos) = Cardinality(use \cap Pos) - 1
    BY <1>1, <1>2, CountOfLess
  <2>2. Cardinality(use \cap Pos) \in 0 .. N
    BY CountOfUse, Zenon
  <2>3. (N \notin use => Cardinality(use \cap Pos) <= len) /\ len \in Nat
    BY <1>1, <2>2 DEF IInv, Covered, TypeOK
  <2>4. N \notin use' => N \notin use
    BY <1>1, <1>2 DEF Pos
  <2>5. QED BY <1>1, <2>1, <2>2, <2>3, <2>4 DEF Covered
<1>7. InTable'
  BY <1>1, <1>4 DEF IInv, InTable
<1>8. Copied' /\ NoDuplicates'
  BY <1>1, <1>4 DEF IInv, Copied, NoDuplicates
<1>9. OpState' /\ NewIsNew' /\ Restorable'
  BY <1>1 DEF IInv, OpState, NewIsNew, Restorable
<1>10. QED BY <1>5, <1>6, <1>7, <1>8, <1>9 DEF IInv

LEMMA StoreLessLenStep ==
  ASSUME IInv, StoreLessLen
  PROVE  IInv'
<1>1. /\ pc = "unlen" /\ len' = (IF len > 0 THEN len - 1 ELSE len)
      /\ UNCHANGED <<use, uids, first, flash, deleted, spoilt>>
  BY DEF StoreLessLen, past
<1>2. len \in 0 .. MaxWord
  BY DEF IInv, TypeOK
<1>3. len' \in 0 .. MaxWord /\ len' <= len /\ (len' = len - 1 \/ len = 0)
  BY <1>1, <1>2
<1>4. pc' = "idle"
  BY IdleFacts DEF StoreLessLen
<1>5. TypeOK'
  BY <1>1, <1>2, <1>3, <1>4, IdleFacts DEF IInv, TypeOK, StoreLessLen
<1>6. Covered'
  <2>1. Cardinality(use \cap Pos) \in 0 .. N
    BY CountOfUse, Zenon
  <2>2. N \notin use => Cardinality(use \cap Pos) + 1 <= len
    BY <1>1, <1>2, <2>1 DEF IInv, Covered
  <2>3. QED BY <1>1, <1>2, <1>3, <1>4, <2>1, <2>2 DEF Covered
<1>7. InTable'
  BY <1>1, <1>4 DEF IInv, InTable
<1>8. Copied' /\ NoDuplicates'
  BY <1>1, <1>4 DEF IInv, Copied, NoDuplicates
<1>9. OpState' /\ NewIsNew' /\ Restorable'
  BY <1>4, IdleFacts DEF OpState, NewIsNew, Restorable, StoreLessLen
<1>10. QED BY <1>5, <1>6, <1>7, <1>8, <1>9 DEF IInv

-----------------------------------------------------------------------------
(* Initialising the list                                                   *)

\* The steps of an initialisation promise nothing but what they have done so far.
LEMMA ZeroingFacts ==
  ASSUME IInv, pc \notin {"word", "use", "len", "first"}, at' = at,
         pc' \in {"clear", "zerolen", "zerouse", "zerofirst"}
  PROVE  OpState' /\ NewIsNew' /\ Copied' /\ Restorable'
BY DEF IInv, OpState, NewIsNew, Copied, Restorable

LEMMA InitializeStep ==
  ASSUME IInv, Initialize
  PROVE  IInv'
<1>1. /\ pc = "idle" /\ pc' = "clear" /\ flash' = [flash EXCEPT !.uids = EmptyFlash.uids]
      /\ UNCHANGED <<use, uids, len, first, cur, at, word, deleted, spoilt>>
  BY DEF Initialize, ram, args, past
<1>2. flash \in [use : SUBSET Bits, uids : [Pos -> [1 .. Words -> Bytes \cup {None}]],
                 first : Nat \cup {None}]
  BY DEF IInv, TypeOK
<1>3. flash'.use = flash.use
  BY <1>1, <1>2
<1>4. TypeOK'
  <2>1. EmptyFlash.uids \in [Pos -> [1 .. Words -> Bytes \cup {None}]]
    BY DEF EmptyFlash, NoUid
  <2>2. flash' \in [use : SUBSET Bits, uids : [Pos -> [1 .. Words -> Bytes \cup {None}]],
                    first : Nat \cup {None}]
    BY <1>1, <1>2, <2>1
  <2>3. QED BY <1>1, <2>2 DEF IInv, TypeOK
<1>5. Covered' /\ NoDuplicates'
  BY <1>1 DEF IInv, Covered, NoDuplicates
<1>6. InTable'
  BY <1>1, <1>3 DEF IInv, InTable
<1>7. QED BY <1>1, <1>4, <1>5, <1>6, ZeroingFacts DEF IInv

LEMMA ClearTablesStep ==
  ASSUME IInv, ClearTables
  PROVE  IInv'
<1>1. /\ pc = "clear" /\ pc' = "zerolen" /\ flash' = EmptyFlash
      /\ UNCHANGED <<use, uids, len, first, cur, at, word, deleted, spoilt>>
  BY DEF ClearTables, ram, args, past
<1>2. flash'.use = {}
  BY <1>1 DEF EmptyFlash
<1>3. TypeOK'
  <2>1. flash' \in [use : SUBSET Bits, uids : [Pos -> [1 .. Words -> Bytes \cup {None}]],
                    first : Nat \cup {None}]
    BY <1>1 DEF EmptyFlash, NoUid
  <2>2. QED BY <1>1, <2>1 DEF IInv, TypeOK
<1>4. Covered' /\ NoDuplicates' /\ InTable'
  BY <1>1, <1>2 DEF IInv, Covered, NoDuplicates, InTable
<1>5. QED BY <1>1, <1>3, <1>4, ZeroingFacts DEF IInv

LEMMA ZeroLenStep ==
  ASSUME IInv, ZeroLen
  PROVE  IInv'
<1>1. /\ pc = "zerolen" /\ pc' = "zerouse" /\ len' = 0
      /\ UNCHANGED <<use, uids, first, flash, cur, at, word, deleted, spoilt>>
  BY DEF ZeroLen, args, past
<1>2. TypeOK'
  BY <1>1 DEF IInv, TypeOK
<1>3. Covered' /\ NoDuplicates' /\ InTable'
  BY <1>1 DEF IInv, Covered, NoDuplicates, InTable
<1>4. QED BY <1>1, <1>2, <1>3, ZeroingFacts DEF IInv

LEMMA ZeroUseStep ==
  ASSUME IInv, ZeroUse
  PROVE  IInv'
<1>1. /\ pc = "zerouse" /\ pc' = "zerofirst" /\ use' = {} /\ flash' = [flash EXCEPT !.use = {}]
      /\ UNCHANGED <<uids, len, first, cur, at, word, deleted, spoilt>>
  BY DEF ZeroUse, args, past
<1>2. /\ flash \in [use : SUBSET Bits, uids : [Pos -> [1 .. Words -> Bytes \cup {None}]],
                    first : Nat \cup {None}]
      /\ len = 0
  BY <1>1 DEF IInv, TypeOK, Covered
<1>3. flash'.use = {}
  BY <1>1, <1>2
<1>4. TypeOK'
  <2>1. flash' \in [use : SUBSET Bits, uids : [Pos -> [1 .. Words -> Bytes \cup {None}]],
                    first : Nat \cup {None}]
    BY <1>1, <1>2
  <2>2. use' \subseteq Bits /\ len' <= N + 1 /\ pc' = "zerofirst"
    BY <1>1, <1>2
  <2>3. QED BY <1>1, <2>1, <2>2 DEF IInv, TypeOK
<1>5. Covered'
  <2>1. Cardinality(use' \cap Pos) = 0
    BY <1>1, FS_EmptySet
  <2>2. QED BY <1>1, <1>2, <1>3, <2>1 DEF Covered
<1>6. NoDuplicates' /\ InTable'
  BY <1>1, <1>3 DEF IInv, NoDuplicates, InTable
<1>7. QED BY <1>1, <1>4, <1>5, <1>6, ZeroingFacts DEF IInv

LEMMA ZeroFirstStep ==
  ASSUME IInv, ZeroFirst
  PROVE  IInv'
<1>1. /\ pc = "zerofirst" /\ pc' = "idle" /\ first' = 0 /\ flash' = [flash EXCEPT !.first = 0]
      /\ deleted' = FALSE /\ spoilt' = FALSE
      /\ UNCHANGED <<use, uids, len, cur, at, word>>
  BY DEF ZeroFirst, args
<1>2. /\ flash \in [use : SUBSET Bits, uids : [Pos -> [1 .. Words -> Bytes \cup {None}]],
                    first : Nat \cup {None}]
      /\ len \in Nat
  BY DEF IInv, TypeOK
<1>3. flash'.use = {} /\ use' = {} /\ flash'.first = 0 /\ 0 \in Pos
  BY <1>1, <1>2 DEF IInv, Covered, Pos
<1>4. TypeOK'
  <2>1. flash' \in [use : SUBSET Bits, uids : [Pos -> [1 .. Words -> Bytes \cup {None}]],
                    first : Nat \cup {None}]
    BY <1>1, <1>2
  <2>2. first' \in 0 .. MaxWord /\ first' <= N /\ len' <= N + 1
    BY <1>1 DEF IInv, Covered
  <2>3. at \in Pos
    BY <1>1 DEF IInv, OpState
  <2>4. QED BY <1>1, <2>1, <2>2, <2>3 DEF IInv, TypeOK
<1>5. Covered'
  <2>1. Cardinality(use' \cap Pos) = 0
    BY <1>3, FS_EmptySet
  <2>2. QED BY <1>1, <1>2, <2>1 DEF Covered
<1>6. InTable' /\ Copied' /\ NoDuplicates'
  BY <1>1, <1>3 DEF InTable, Copied, NoDuplicates
<1>7. OpState' /\ NewIsNew' /\ Restorable'
  BY <1>1 DEF IInv, OpState, NewIsNew, Restorable
<1>8. QED BY <1>4, <1>5, <1>6, <1>7 DEF IInv

-----------------------------------------------------------------------------
(* The theorems                                                            *)

LEMMA StepIInv == IInv /\ [Next]_vars => IInv'
<1> SUFFICES ASSUME IInv, [Next]_vars PROVE IInv'
  OBVIOUS
<1>1. ASSUME UNCHANGED vars PROVE IInv'
  BY <1>1 DEF vars, ram, args, past, IInv, TypeOK, OpState, Covered, InTable, NewIsNew,
              Copied, Restorable, NoDuplicates
<1>2. CASE Next
  <2>1. Lost => UNCHANGED vars
    BY DEF Lost
  <2>2. QED BY <1>1, <1>2, <2>1, BootStep, PowerLossStep, AddStep, AddAstrayStep, DeleteStep,
            StoreWordStep, StoreUseStep, StoreLenStep, StoreFirstStep, StoreLessLenStep,
            InitializeStep, ClearTablesStep, ZeroLenStep, ZeroUseStep, ZeroFirstStep DEF Next
<1>3. QED BY <1>1, <1>2

\* Tables and stored copies differ at each step only as the operation being served explains.
THEOREM Invariance == Spec => []IInv
  BY InitIInv, StepIInv, PTL DEF Spec

\* The tables, their copies and the operation under way keep their types: no identity is
\* written past the table before a power failure inside an operation, and until one is the
\* count and the position of the oldest keep their bounds.
THEOREM TypeCorrect == Spec => []TypeOK
<1>1. IInv => TypeOK
  BY DEF IInv
<1>2. QED BY <1>1, Invariance, PTL

\* Between operations the flash holds the list that the RAM holds, see SurvivesRestart.
THEOREM RestartKeepsList == Spec => []SurvivesRestart
<1>1. IInv => SurvivesRestart
  BY DEF IInv, Copied, SurvivesRestart
<1>2. QED BY <1>1, Invariance, PTL

\* No identity stands in the list twice, see NoDuplicates.
THEOREM EachOnce == Spec => []NoDuplicates
<1>1. IInv => NoDuplicates
  BY DEF IInv
<1>2. QED BY <1>1, Invariance, PTL

\* The count is not below the positions in use, whenever the power fails, until an
\* identity takes its place, see CountCoversUse.
THEOREM CountIsEnough == Spec => []CountCoversUse
<1>1. ASSUME IInv PROVE CountCoversUse
  <2>1. Cardinality(use \cap Pos) \in 0 .. N
    BY CountOfUse, Zenon
  <2>2. QED BY <1>1, <2>1 DEF IInv, TypeOK, Covered, CountCoversUse
<1>2. QED BY <1>1, Invariance, PTL
-----------------------------------------------------------------------------
(* What the list keeps                                                     *)

\* The positions in use are filled from the first on, and when all are, the oldest
\* identity is where the next one goes.
Full0(m) == m < N => first = 0 /\ flash.first = 0
Rotates ==
  \E m \in 0 .. N :
    /\ use = 0 .. m - 1 /\ Full0(m)
    /\ pc = "idle" /\ m = N => flash.first = first
    /\ IF pc = "len" /\ len < N THEN m = len + 1 /\ first = 0
       ELSE IF len < N THEN m = len ELSE m = N
    /\ pc \in {"word", "use"} => IF len < N THEN at = len ELSE first = (at + 1) % N

Order ==
  /\ pc \in {"zerouse", "zerofirst"} => len = 0
  /\ ~deleted /\ ~spoilt =>
       /\ pc # "unlen"
       /\ pc = "off" => \E m \in 0 .. N : flash.use = 0 .. m - 1 /\ (m < N => flash.first = 0)
       /\ pc \in {"idle", "word", "use", "len", "first"} => Rotates

\* The identities in the table T, the oldest of which is at f, as RecentIds sees them.
RecallIn(T, f) ==
  [k \in 1 .. Cardinality(T.use) |->
     T.uids[CHOOSE p \in T.use :
              Cardinality({q \in T.use : (q + N - f) % N < (p + N - f) % N}) = k - 1]]
Recall == [k \in 1 .. Cardinality(Table.use) |-> Table.uids[Aged(k)]]
Turn(x) == IF x < N THEN x ELSE x - N

\* The ages are counted in the table the list is read from, from its start.
LEMMA RecallNow == Recall = RecallIn(Table, Start)
BY DEF Recall, RecallIn, Aged, Age

LEMMA RecallNext == Recall' = RecallIn(Table', Start')
BY DEF Recall, RecallIn, Aged, Age

\* One turn of the ring is enough for what follows.
LEMMA ModTurns ==
  ASSUME NEW x \in 0 .. 2 * N - 1
  PROVE  x % N = Turn(x) /\ Turn(x) \in Pos
BY DEF Turn, Pos

\* How many identities are older than the one at p.
LEMMA Older ==
  ASSUME NEW f \in Pos, NEW m \in 0 .. N, m < N => f = 0, NEW p \in 0 .. m - 1
  PROVE  /\ (p + N - f) % N = IF f <= p THEN p - f ELSE p + N - f
         /\ Cardinality({q \in 0 .. m - 1 : (q + N - f) % N < (p + N - f) % N}) = (p + N - f) % N
<1> DEFINE A(q) == IF f <= q THEN q - f ELSE q + N - f
<1>1. f \in 0 .. N - 1 /\ p \in 0 .. N - 1 /\ m \in Nat /\ m <= N
  BY DEF Pos
<1>2. \A q \in 0 .. N - 1 : (q + N - f) % N = A(q)
  <2> SUFFICES ASSUME NEW q \in 0 .. N - 1 PROVE (q + N - f) % N = A(q)
    OBVIOUS
  <2>1. q + N - f \in 0 .. 2 * N - 1
    BY <1>1
  <2>2. (q + N - f) % N = Turn(q + N - f)
    BY <2>1, ModTurns
  <2>3. QED BY <1>1, <2>2 DEF Turn
<1> DEFINE R == {q \in 0 .. m - 1 : (q + N - f) % N < (p + N - f) % N}
<1>3. R = {q \in 0 .. m - 1 : A(q) < A(p)}
  <2>1. \A q \in 0 .. m - 1 : (q + N - f) % N = A(q)
    BY <1>1, <1>2
  <2>2. (p + N - f) % N = A(p)
    BY <1>1, <1>2
  <2>3. QED BY <2>1, <2>2
<1>4. Cardinality(R) = Cardinality({q \in 0 .. m - 1 : (q + N - f) % N < (p + N - f) % N})
  OBVIOUS
<1> HIDE DEF R
<1>5. CASE f <= p
  <2>1. R = f .. p - 1
    BY <1>1, <1>3, <1>5
  <2>2. f \in Int /\ p - 1 \in Int
    BY <1>1
  <2>3. Cardinality(f .. p - 1) = IF f > p - 1 THEN 0 ELSE p - 1 - f + 1
    BY <2>2, FS_Interval
  <2>4. Cardinality(R) = p - f
    BY <1>1, <1>5, <2>1, <2>3
  <2>5. QED BY <1>1, <1>2, <1>5, <1>4, <2>4
<1>6. CASE p < f
  <2>1. m = N
    BY <1>1, <1>6
  <2>2. R = (f .. N - 1) \cup (0 .. p - 1)
    <3>1. \A q \in 0 .. N - 1 : A(q) < A(p) <=> q \in f .. N - 1 \/ q \in 0 .. p - 1
      BY <1>1, <1>6
    <3>2. f .. N - 1 \subseteq 0 .. N - 1 /\ 0 .. p - 1 \subseteq 0 .. N - 1
      BY <1>1
    <3>3. R = {q \in 0 .. N - 1 : A(q) < A(p)}
      BY <1>3, <2>1
    <3> HIDE DEF A
    <3>4. QED BY <3>1, <3>2, <3>3
  <2>3. /\ IsFiniteSet(f .. N - 1) /\ Cardinality(f .. N - 1) = N - f
        /\ IsFiniteSet(0 .. p - 1) /\ Cardinality(0 .. p - 1) = p
    <3>1. f \in Int /\ N - 1 \in Int /\ 0 \in Int /\ p - 1 \in Int
      BY <1>1
    <3>2. /\ IsFiniteSet(f .. N - 1)
          /\ Cardinality(f .. N - 1) = IF f > N - 1 THEN 0 ELSE N - 1 - f + 1
      BY <3>1, FS_Interval
    <3>3. /\ IsFiniteSet(0 .. p - 1)
          /\ Cardinality(0 .. p - 1) = IF 0 > p - 1 THEN 0 ELSE p - 1 - 0 + 1
      BY <3>1, FS_Interval
    <3>4. QED BY <1>1, <3>2, <3>3
  <2>4. (f .. N - 1) \cap (0 .. p - 1) = {}
    BY <1>1, <1>6
  <2>5. Cardinality((f .. N - 1) \cup (0 .. p - 1)) = (N - f) + p - 0
    <3>1. Cardinality((f .. N - 1) \cap (0 .. p - 1)) = 0
      BY <2>4, FS_EmptySet
    <3>2. Cardinality((f .. N - 1) \cup (0 .. p - 1))
            = Cardinality(f .. N - 1) + Cardinality(0 .. p - 1)
                - Cardinality((f .. N - 1) \cap (0 .. p - 1))
      BY <2>3, FS_Union
    <3>3. QED BY <2>3, <3>1, <3>2
  <2>6. Cardinality(R) = p + N - f
    BY <1>1, <2>2, <2>5
  <2>7. QED BY <1>1, <1>2, <1>6, <1>4, <2>6
<1>7. QED BY <1>1, <1>5, <1>6

\* The identities in the order of their ages.
LEMMA Remembered ==
  ASSUME NEW T, NEW f \in Pos, NEW m \in 0 .. N, T.use = 0 .. m - 1, m < N => f = 0
  PROVE  /\ RecallIn(T, f) = [k \in 1 .. m |-> T.uids[Turn(f + k - 1)]]
         /\ \A k \in 1 .. m : Turn(f + k - 1) \in 0 .. m - 1
<1> DEFINE Rank(p) == Cardinality({q \in T.use : (q + N - f) % N < (p + N - f) % N})
<1>1. f \in 0 .. N - 1 /\ m \in Nat /\ m <= N
  BY DEF Pos
<1>2. Cardinality(T.use) = m
  <2>1. 0 \in Int /\ m - 1 \in Int
    BY <1>1
  <2>2. Cardinality(0 .. m - 1) = IF 0 > m - 1 THEN 0 ELSE m - 1 - 0 + 1
    BY <2>1, FS_Interval
  <2>3. QED BY <1>1, <2>2
<1>3. \A p \in 0 .. m - 1 : Rank(p) = IF f <= p THEN p - f ELSE p + N - f
  <2> SUFFICES ASSUME NEW p \in 0 .. m - 1
               PROVE  Rank(p) = IF f <= p THEN p - f ELSE p + N - f
    OBVIOUS
  <2>1. Rank(p) = Cardinality({q \in 0 .. m - 1 : (q + N - f) % N < (p + N - f) % N})
    OBVIOUS
  <2>2. QED BY <2>1, Older
<1> HIDE DEF Rank
<1>4. ASSUME NEW k \in 1 .. m
      PROVE  /\ Turn(f + k - 1) \in 0 .. m - 1
             /\ (CHOOSE p \in T.use : Rank(p) = k - 1) = Turn(f + k - 1)
  <2>1. Turn(f + k - 1) \in 0 .. m - 1
    BY <1>1 DEF Turn
  <2>2. \A p \in 0 .. m - 1 : (Rank(p) = k - 1) <=> p = Turn(f + k - 1)
    <3> SUFFICES ASSUME NEW p \in 0 .. m - 1
                 PROVE  (Rank(p) = k - 1) <=> p = Turn(f + k - 1)
      OBVIOUS
    <3>1. Rank(p) = IF f <= p THEN p - f ELSE p + N - f
      BY <1>3
    <3>2. f \in 0 .. N - 1 /\ p \in 0 .. N - 1 /\ k \in 1 .. N /\ p < m /\ k <= m
      BY <1>1
    <3>3. CASE f + k - 1 < N
      BY <3>1, <3>2, <3>3 DEF Turn
    <3>4. CASE N <= f + k - 1
      BY <3>1, <3>2, <3>4 DEF Turn
    <3>5. QED BY <3>2, <3>3, <3>4
  <2>3. \A p \in T.use : Rank(p) = k - 1 <=> p = Turn(f + k - 1)
    BY <2>2
  <2>4. Turn(f + k - 1) \in T.use
    BY <2>1
  <2>5. QED BY <2>1, <2>3, <2>4
<1>5. RecallIn(T, f) = [k \in 1 .. Cardinality(T.use) |-> T.uids[CHOOSE p \in T.use : Rank(p) = k - 1]]
  BY DEF RecallIn, Rank
<1>6. QED BY <1>2, <1>4, <1>5

\* So they are when all positions are in use.
LEMMA AllRemembered ==
  ASSUME NEW T, NEW f \in Pos, T.use = 0 .. N - 1
  PROVE  RecallIn(T, f) = [k \in 1 .. N |-> T.uids[Turn(f + k - 1)]]
<1>1. PICK m \in 0 .. N : m = N
  OBVIOUS
<1>2. T.use = 0 .. m - 1 /\ (m < N => f = 0)
  BY <1>1
<1>3. RecallIn(T, f) = [k \in 1 .. m |-> T.uids[Turn(f + k - 1)]]
  BY <1>2, Remembered
<1>4. QED BY <1>1, <1>3

\* A list that grows, and one that drops its oldest.
LEMMA Grown ==
  ASSUME NEW S, NEW n \in Nat, NEW q \in [1 .. n -> S], NEW r \in [1 .. n + 1 -> S],
         \A k \in 1 .. n : r[k] = q[k]
  PROVE  Len(q) = n /\ r = Append(q, r[n + 1])
<1>1. q \in Seq(S) /\ Len(q) = n /\ r \in Seq(S) /\ Len(r) = n + 1 /\ r[n + 1] \in S
  OBVIOUS
<1>2. /\ Append(q, r[n + 1]) \in Seq(S) /\ Len(Append(q, r[n + 1])) = n + 1
      /\ \A k \in 1 .. n + 1 : Append(q, r[n + 1])[k] = r[k]
  BY <1>1
<1>3. QED BY <1>1, <1>2

\* Dropping the oldest makes room for the newest.
LEMMA Rolled ==
  ASSUME NEW S, NEW n \in Nat \ {0}, NEW q \in [1 .. n -> S], NEW r \in [1 .. n -> S],
         \A k \in 1 .. n - 1 : r[k] = q[k + 1]
  PROVE  Len(q) = n /\ r = Append(Tail(q), r[n])
<1>1. q \in Seq(S) /\ Len(q) = n /\ r \in Seq(S) /\ Len(r) = n /\ r[n] \in S /\ q # << >>
  OBVIOUS
<1>2. /\ Tail(q) \in Seq(S) /\ Len(Tail(q)) = n - 1
      /\ \A k \in 1 .. n - 1 : Tail(q)[k] = q[k + 1]
  BY <1>1
<1>3. /\ Append(Tail(q), r[n]) \in Seq(S) /\ Len(Append(Tail(q), r[n])) = n
      /\ \A k \in 1 .. n - 1 : Append(Tail(q), r[n])[k] = Tail(q)[k]
      /\ Append(Tail(q), r[n])[n] = r[n]
  BY <1>1, <1>2
<1>4. \A k \in 1 .. n : Append(Tail(q), r[n])[k] = r[k]
  BY <1>1, <1>2, <1>3
<1>5. QED BY <1>1, <1>3, <1>4

\* A restart and a power failure between operations keep the order.
LEMMA RestartOrder ==
  ASSUME IInv, IInv', Order, Boot \/ PowerLoss
  PROVE  Order'
<1> SUFFICES ASSUME ~deleted', ~spoilt' PROVE Order'
  BY DEF Order, Boot, PowerLoss
<1>1. CASE Boot
  <2>1. /\ pc = "off" /\ pc' = "idle" /\ use' = flash.use /\ flash' = flash
        /\ len' = Cardinality(flash.use \cap Pos) /\ ~deleted /\ ~spoilt
        /\ \E x \in Loaded(flash.first, Bits) : first' = Accepted(x)
    BY <1>1 DEF Boot, args, past
  <2>2. PICK m \in 0 .. N : flash.use = 0 .. m - 1 /\ (m < N => flash.first = 0)
    BY <2>1 DEF Order
  <2>3. flash.first \in Pos
    BY <2>1 DEF IInv, InTable
  <2>4. first' = flash.first
    BY <2>1, <2>3 DEF Loaded, Accepted, Pos
  <2>5. len' = m
    <3>1. flash.use \cap Pos = 0 .. m - 1
      BY <2>2 DEF Pos
    <3>2. 0 \in Int /\ m - 1 \in Int
      OBVIOUS
    <3>3. Cardinality(0 .. m - 1) = IF 0 > m - 1 THEN 0 ELSE m - 1 - 0 + 1
      BY <3>2, FS_Interval
    <3>4. m \in Nat
      OBVIOUS
    <3>5. Cardinality(0 .. m - 1) = m
      BY <3>3, <3>4
    <3>6. QED BY <2>1, <3>1, <3>5
  <2>6. Rotates'
    BY <2>1, <2>2, <2>4, <2>5 DEF Rotates, Full0
  <2>7. QED BY <2>1, <2>6 DEF Order
<1>2. CASE PowerLoss
  <2>1. /\ pc = "idle" /\ pc' = "off" /\ flash' = flash /\ ~deleted /\ ~spoilt
    BY <1>2 DEF PowerLoss
  <2>2. PICK m \in 0 .. N : use = 0 .. m - 1 /\ Full0(m)
    BY <2>1 DEF Order, Rotates
  <2>3. flash.use = use
    BY <2>1 DEF IInv, Copied
  <2>4. QED BY <2>1, <2>2, <2>3 DEF Order, Full0
<1>3. QED BY <1>1, <1>2

\* So does every step of an addition.
LEMMA AddOrder ==
  ASSUME IInv, IInv', Order,
         StoreWord \/ StoreUse \/ StoreLen \/ StoreFirst \/ \E u \in Uids : Add(u)
  PROVE  Order'
<1> SUFFICES ASSUME ~deleted', ~spoilt' PROVE Order'
  BY DEF Order, StoreWord, StoreUse, StoreLen, StoreFirst, Add, Idle
<1>1. /\ deleted' = deleted /\ spoilt' = spoilt
      /\ pc \in {"idle", "word", "use", "len", "first"}
      /\ pc' \in {"idle", "word", "use", "len", "first"}
  BY DEF StoreWord, StoreUse, StoreLen, StoreFirst, Add, Idle, past
<1>2. PICK m \in 0 .. N :
        /\ use = 0 .. m - 1 /\ Full0(m)
        /\ pc = "idle" /\ m = N => flash.first = first
        /\ IF pc = "len" /\ len < N THEN m = len + 1 /\ first = 0
           ELSE IF len < N THEN m = len ELSE m = N
        /\ pc \in {"word", "use"} => IF len < N THEN at = len ELSE first = (at + 1) % N
  BY <1>1 DEF Order, Rotates
<1>3. first \in Pos /\ len \in Nat /\ at \in Pos
  BY <1>1 DEF IInv, TypeOK, InTable
<1>4. flash \in [use : SUBSET Bits, uids : [Pos -> [1 .. Words -> Bytes \cup {None}]],
                 first : Nat \cup {None}]
  BY DEF IInv, TypeOK
<1>5. SUFFICES Rotates'
  BY <1>1 DEF Order
<1>6. ASSUME NEW u \in Uids, Add(u) PROVE Rotates'
  <2>1. /\ pc = "idle" /\ pc' = "word" /\ use' = use /\ flash' = flash /\ len' = len
        /\ at' = Position /\ first' = (IF Full THEN (first + 1) % N ELSE first)
    BY <1>6 DEF Add
  <2>2. CASE len < N
    <3>1. m < N /\ m = len /\ first' = 0 /\ at' = len /\ flash.first = 0
      BY <1>2, <1>3, <2>1, <2>2 DEF Full, Position, Full0
    <3>2. QED BY <1>2, <2>1, <2>2, <3>1 DEF Rotates, Full0
  <2>3. CASE N <= len
    <3>1. m = N /\ at' = first /\ first' = (at' + 1) % N
      BY <1>2, <1>3, <2>1, <2>3 DEF Full, Position
    <3>2. QED BY <1>2, <1>3, <2>1, <2>3, <3>1 DEF Rotates, Full0
  <2>4. QED BY <1>3, <2>2, <2>3
<1>7. CASE StoreWord
  <2>1. /\ pc = "word" /\ pc' \in {"word", "use"} /\ use' = use /\ len' = len /\ first' = first
        /\ at' = at
        /\ flash' = IF at \in Pos THEN [flash EXCEPT !.uids[at][word] = cur[word]]
                                  ELSE PastTable(word, cur[word])
    BY <1>7 DEF StoreWord, ram
  <2>2. flash'.first = flash.first
    BY <1>3, <1>4, <2>1
  <2>3. QED BY <1>2, <2>1, <2>2 DEF Rotates, Full0
<1>8. CASE StoreUse
  <2>1. /\ pc = "use" /\ pc' = "len" /\ use' = use \cup {at} /\ len' = len /\ first' = first
        /\ flash'.first = flash.first
    BY <1>3, <1>4, <1>8, CopiedUidFacts DEF StoreUse
  <2>2. CASE len < N
    <3>1. m = len /\ at = m /\ m + 1 \in 0 .. N /\ first = 0 /\ flash.first = 0
      BY <1>2, <1>3, <2>1, <2>2 DEF Full0
    <3>2. use' = 0 .. (m + 1) - 1
      BY <1>2, <2>1, <3>1
    <3>3. QED BY <2>1, <2>2, <3>1, <3>2 DEF Rotates, Full0
  <2>3. CASE N <= len
    <3>1. m = N /\ use' = 0 .. N - 1
      BY <1>2, <1>3, <2>1, <2>3 DEF Pos
    <3>2. QED BY <1>2, <1>3, <2>1, <2>3, <3>1 DEF Rotates, Full0
  <2>4. QED BY <1>3, <2>2, <2>3
<1>9. CASE StoreLen
  <2>1. /\ pc = "len" /\ pc' = "first" /\ use' = use /\ first' = first
        /\ len' = Counted /\ flash'.first = flash.first
    BY <1>4, <1>9 DEF StoreLen
  <2>2. IF len' < N THEN m = len' ELSE m = N
    BY <1>2, <1>3, <2>1 DEF Counted
  <2>3. QED BY <1>2, <2>1, <2>2 DEF Rotates, Full0
<1>10. CASE StoreFirst
  <2>1. /\ pc = "first" /\ pc' = "idle" /\ use' = use /\ first' = first /\ len' = len
        /\ flash'.first = StoredFirst
    BY <1>4, <1>10 DEF StoreFirst, Idle, ram
  <2>2. Full0(m)' /\ (m = N => flash'.first = first)
    BY <1>2, <1>3, <2>1 DEF StoredFirst, Full, Full0
  <2>3. QED BY <1>2, <2>1, <2>2 DEF Rotates
<1>11. QED BY <1>6, <1>7, <1>8, <1>9, <1>10

\* So does every other step; a deletion is excepted from the claim.
LEMMA OtherOrder ==
  ASSUME IInv, IInv', Order,
         \/ StoreLessLen \/ Initialize \/ ClearTables \/ ZeroLen \/ ZeroUse \/ ZeroFirst
         \/ AddAstray \/ UNCHANGED vars \/ \E u \in Uids : Delete(u)
  PROVE  Order'
<1>1. (pc \in {"zerouse", "zerofirst"} => len = 0)'
  BY DEF Order, StoreLessLen, Initialize, ClearTables, ZeroLen, ZeroUse, ZeroFirst, Delete,
         AddAstray, Idle, vars, ram
<1> SUFFICES ASSUME ~deleted', ~spoilt' PROVE Order'
  BY <1>1 DEF Order
<1>2. CASE UNCHANGED vars
  BY <1>2 DEF vars, ram, args, past, Order, Rotates, Full0
<1>3. CASE ZeroFirst
  <2>1. /\ pc = "zerofirst" /\ pc' = "idle" /\ first' = 0 /\ use' = use /\ len' = len
        /\ flash' = [flash EXCEPT !.first = 0]
    BY <1>3 DEF ZeroFirst
  <2>2. use = {} /\ len = 0
    BY <2>1 DEF IInv, Covered, Order
  <2>3. use = 0 .. 0 - 1
    BY <2>2
  <2>4. flash'.first = 0
    BY <2>1 DEF IInv, TypeOK
  <2>5. Rotates'
    BY <2>1, <2>2, <2>3, <2>4 DEF Rotates, Full0
  <2>6. QED BY <1>1, <2>1, <2>5 DEF Order
<1>4. CASE StoreLessLen
  BY <1>1, <1>4 DEF StoreLessLen, past, Order
<1>5. ASSUME NEW u \in Uids, Delete(u) PROVE FALSE
  BY <1>5 DEF Delete
<1>6. CASE Initialize \/ ClearTables \/ ZeroLen \/ ZeroUse \/ AddAstray
  BY <1>1, <1>6 DEF Initialize, ClearTables, ZeroLen, ZeroUse, AddAstray, past, Order
<1>7. QED BY <1>2, <1>3, <1>4, <1>5, <1>6

\* The first start finds nothing.
LEMMA InitOrder == Init => Order
<1> SUFFICES ASSUME Init PROVE Order
  OBVIOUS
<1>1. pc = "off" /\ (flash = EmptyFlash => spoilt)
  BY Zenon DEF Init
<1>2. flash = [EmptyFlash EXCEPT !.first = 0] => flash.use = {} /\ flash.first = 0
  BY DEF EmptyFlash
<1>3. {} = 0 .. 0 - 1
  OBVIOUS
<1>4. flash \in {EmptyFlash, [EmptyFlash EXCEPT !.first = 0]}
  BY DEF Init
<1>5. 0 \in 0 .. N
  OBVIOUS
<1>6. QED BY <1>1, <1>2, <1>3, <1>4, <1>5 DEF Order

-----------------------------------------------------------------------------
(* The refinement                                                          *)

\* The steps of RecentIds, and none.
LEMMA Recalls ==
  ASSUME Recall' = Recall
  PROVE  Recent!Step
BY DEF Recall, Recent!Step

LEMMA Adds ==
  ASSUME cur \in Uids, \A i \in 1 .. Len(Recall) : Recall[i] # cur,
         Recall' = Append(IF Len(Recall) = N THEN Tail(Recall) ELSE Recall, cur)
  PROVE  Recent!Step
BY DEF Recall, Recent!Step, Recent!Next, Recent!Add

LEMMA Empties ==
  ASSUME pc = "zerouse", Recall' = << >>
  PROVE  Recent!Step
BY DEF Recall, Recent!Step, Recent!Next, Recent!Empty

\* An empty table is the empty list.
LEMMA NothingToRecall ==
  ASSUME NEW T, NEW f, T.use = {}
  PROVE  RecallIn(T, f) = << >>
<1>1. Cardinality(T.use) = 0
  BY FS_EmptySet
<1>2. 1 .. 0 = {}
  OBVIOUS
<1>3. QED BY <1>1, <1>2 DEF RecallIn

\* Table and Start are record and number: what is not changed in them changes no list.
LEMMA SameRecall ==
  ASSUME Table' = Table, Start' = Start
  PROVE  Recall' = Recall
<1>1. RecallIn(Table', Start') = RecallIn(Table, Start)
  BY Zenon
<1>2. QED BY <1>1, RecallNow, RecallNext, Zenon

\* A restart finds the same identities, and the oldest in the same place.
LEMMA SameIds ==
  ASSUME NEW T, NEW U, NEW f \in Pos, NEW m \in 0 .. N, T.use = 0 .. m - 1, m < N => f = 0,
         U.use = T.use, \A p \in T.use : U.uids[p] = T.uids[p]
  PROVE  RecallIn(U, f) = RecallIn(T, f)
<1>1. /\ RecallIn(T, f) = [k \in 1 .. m |-> T.uids[Turn(f + k - 1)]]
      /\ \A k \in 1 .. m : Turn(f + k - 1) \in 0 .. m - 1
  BY Remembered
<1>2. U.use = 0 .. m - 1
  OBVIOUS
<1>3. RecallIn(U, f) = [k \in 1 .. m |-> U.uids[Turn(f + k - 1)]]
  BY <1>2, Remembered
<1>4. \A k \in 1 .. m : U.uids[Turn(f + k - 1)] = T.uids[Turn(f + k - 1)]
  BY <1>1
<1>5. QED BY <1>1, <1>3, <1>4

\* A restart reads the list the flash held.
LEMMA BootRecalls ==
  ASSUME IInv, Order, Boot, ~deleted', ~spoilt'
  PROVE  Recall' = Recall
<1>1. /\ pc = "off" /\ pc' = "idle" /\ use' = flash.use /\ flash' = flash
      /\ ~deleted /\ ~spoilt
      /\ \E x \in Loaded(flash.first, Bits) : first' = Accepted(x)
  BY DEF Boot, args, past
<1>2. PICK m \in 0 .. N : flash.use = 0 .. m - 1 /\ (m < N => flash.first = 0)
  BY <1>1 DEF Order
<1>3. flash.first \in Pos /\ \A p \in flash.use : flash.uids[p] \in Listed
  BY <1>1 DEF IInv, InTable, Restorable
<1>4. first' = flash.first
  BY <1>1, <1>3 DEF Loaded, Accepted, Pos
<1>5. /\ Table = [use |-> flash.use, uids |-> flash.uids] /\ Start = flash.first
      /\ Table' = [use |-> use', uids |-> uids'] /\ Start' = first'
  BY <1>1 DEF Table, Start
<1>6. \A p \in flash.use : uids'[p] = flash.uids[p]
  <2>1. PICK any \in Stack :
          uids' = [p \in Pos |-> IF p \in flash.use
                                 THEN [w \in 1 .. Words |-> LoadedWord(p, w, any)] ELSE NoUid]
    BY DEF Boot
  <2>2. flash.use \subseteq Pos
    BY <1>1 DEF IInv, InTable
  <2>3. QED BY <1>3, <2>1, <2>2, WrittenIsLoaded
<1>7. RecallIn(Table', Start') = RecallIn(Table, Start)
  <2>1. /\ Table.use = 0 .. m - 1 /\ Table'.use = Table.use /\ Start \in Pos /\ Start' = Start
        /\ m < N => Start = 0
        /\ \A p \in Table.use : Table'.uids[p] = Table.uids[p]
    BY <1>1, <1>2, <1>3, <1>4, <1>5, <1>6
  <2>2. RecallIn(Table', Start) = RecallIn(Table, Start)
    BY <2>1, SameIds
  <2>3. QED BY <2>1, <2>2
<1>8. QED BY <1>7, RecallNow, RecallNext, Zenon

\* The flash holds the list when the power fails between operations.
LEMMA PowerLossRecalls ==
  ASSUME IInv, Order, PowerLoss, ~deleted', ~spoilt'
  PROVE  Recall' = Recall
<1>1. pc = "idle" /\ pc' = "off" /\ flash' = flash /\ ~deleted /\ ~spoilt
  BY DEF PowerLoss
<1>2. PICK m \in 0 .. N :
        use = 0 .. m - 1 /\ Full0(m) /\ (m = N => flash.first = first)
  BY <1>1 DEF Order, Rotates
<1>3. /\ first \in Pos /\ flash.use = use /\ flash.first = first
      /\ \A p \in use : flash.uids[p] = uids[p]
  BY <1>1, <1>2 DEF IInv, InTable, Copied, Full0
<1>4. /\ Table = [use |-> use, uids |-> uids] /\ Start = first
      /\ Table' = [use |-> flash'.use, uids |-> flash'.uids] /\ Start' = flash'.first
  BY <1>1 DEF Table, Start
<1>5. RecallIn(Table', Start') = RecallIn(Table, Start)
  <2>1. /\ Table.use = 0 .. m - 1 /\ Table'.use = Table.use /\ Start \in Pos /\ Start' = Start
        /\ m < N => Start = 0
        /\ \A p \in Table.use : Table'.uids[p] = Table.uids[p]
    BY <1>1, <1>2, <1>3, <1>4 DEF Full0
  <2>2. RecallIn(Table', Start) = RecallIn(Table, Start)
    BY <2>1, SameIds
  <2>3. QED BY <2>1, <2>2
<1>6. QED BY <1>5, RecallNow, RecallNext, Zenon

\* The new identity becomes the youngest, and of a full list the oldest is gone.
LEMMA StoreUseAdds ==
  ASSUME IInv, IInv', Order, StoreUse, ~deleted', ~spoilt'
  PROVE  Recent!Step
<1>1. /\ pc = "use" /\ pc' = "len" /\ use' = use \cup {at} /\ len' = len /\ first' = first
      /\ uids' = [p \in Pos |-> IF p = at THEN cur ELSE uids[p]] /\ ~deleted /\ ~spoilt
  <2>1. ~spoilt /\ ~deleted
    BY DEF StoreUse, past
  <2>2. at \in Pos /\ uids \in [Pos -> [1 .. Words -> Bytes \cup {None}]]
    BY <2>1 DEF IInv, TypeOK
  <2>3. uids' = [uids EXCEPT ![at] = cur] /\ len' = len /\ first' = first
    BY <2>2, CopiedUidFacts
  <2>4. QED BY <2>1, <2>2, <2>3 DEF StoreUse
<1>2. PICK m \in 0 .. N :
        /\ use = 0 .. m - 1 /\ (m < N => first = 0)
        /\ IF len < N THEN m = len /\ at = len ELSE m = N /\ first = (at + 1) % N
  BY <1>1 DEF Order, Rotates, Full0
<1>3. /\ first \in Pos /\ at \in Pos /\ len \in Nat /\ cur \in Uids
      /\ \A p \in use : p \in Pos /\ uids[p] # cur
      /\ uids \in [Pos -> [1 .. Words -> Bytes \cup {None}]]
      /\ uids' \in [Pos -> [1 .. Words -> Bytes \cup {None}]]
  <2>1. \A p \in use : p \in Pos
    BY <1>2 DEF Pos
  <2>2. \A p \in use : uids[p] # cur
    BY <1>1, <2>1 DEF IInv, NewIsNew
  <2>3. QED BY <1>1, <2>1, <2>2 DEF IInv, TypeOK, InTable, OpState
<1> DEFINE S == [1 .. Words -> Bytes \cup {None}]
           q == [k \in 1 .. m |-> uids[Turn(Start + k - 1)]]
<1>4. /\ Table.use = use /\ Table.uids = uids /\ Table'.use = use' /\ Table'.uids = uids'
      /\ Start = (IF len < N THEN first ELSE at) /\ Start' = first
  <2>1. /\ Table = [use |-> use, uids |-> uids] /\ Table' = [use |-> use', uids |-> uids']
    BY <1>1 DEF Table
  <2>2. Start' = first /\ Start = (IF len < N THEN first ELSE at)
    BY <1>1, <1>3 DEF Start, Full
  <2>3. QED BY <2>1, <2>2
<1>5. Recall = q /\ \A k \in 1 .. m : Turn(Start + k - 1) \in use
  <2>1. Start \in Pos /\ (m < N => Start = 0) /\ Table.use = 0 .. m - 1
    BY <1>2, <1>3, <1>4
  <2>2. /\ RecallIn(Table, Start) = [k \in 1 .. m |-> Table.uids[Turn(Start + k - 1)]]
        /\ \A k \in 1 .. m : Turn(Start + k - 1) \in 0 .. m - 1
    BY <2>1, Remembered
  <2>3. QED BY <1>2, <1>4, <2>2, RecallNow
<1>6. q \in [1 .. m -> S] /\ \A k \in 1 .. m : q[k] = uids[Turn(Start + k - 1)] /\ q[k] # cur
  BY <1>3, <1>5
<1> HIDE DEF q, S
<1>7. CASE len < N
  <2>1. /\ m + 1 \in 0 .. N /\ m \in Nat /\ use' = 0 .. (m + 1) - 1
        /\ at = m /\ Start = 0 /\ Start' = 0 /\ 0 \in Pos
    BY <1>1, <1>2, <1>3, <1>4, <1>7 DEF Pos
  <2> DEFINE r == [k \in 1 .. m + 1 |-> uids'[Turn(0 + k - 1)]]
  <2>2. /\ RecallIn(Table', 0) = r
        /\ \A k \in 1 .. m + 1 : Turn(0 + k - 1) \in 0 .. (m + 1) - 1
    <3>1. /\ RecallIn(Table', 0) = [k \in 1 .. m + 1 |-> Table'.uids[Turn(0 + k - 1)]]
          /\ \A k \in 1 .. m + 1 : Turn(0 + k - 1) \in 0 .. (m + 1) - 1
      BY <1>4, <2>1, Remembered
    <3>2. QED BY <1>4, <3>1
  <2>3. \A k \in 1 .. m + 1 : Turn(0 + k - 1) = k - 1 /\ k - 1 \in Pos
    BY <2>1 DEF Turn, Pos
  <2>4. r \in [1 .. m + 1 -> S]
    BY <1>3, <2>3 DEF S
  <2>5. r[m + 1] = cur
    <3>1. m + 1 \in 1 .. m + 1 /\ m + 1 - 1 = m
      BY <2>1
    <3>2. Turn(0 + (m + 1) - 1) = m /\ m \in Pos
      BY <2>3, <3>1
    <3>3. uids'[m] = cur
      BY <1>1, <2>1, <3>2
    <3>4. QED BY <3>1, <3>2, <3>3
  <2>6. \A k \in 1 .. m : r[k] = q[k]
    <3> SUFFICES ASSUME NEW k \in 1 .. m PROVE r[k] = q[k]
      OBVIOUS
    <3>1. k \in 1 .. m + 1 /\ k - 1 # at
      BY <2>1
    <3>2. r[k] = uids[k - 1]
      BY <1>1, <2>3, <3>1
    <3>3. q[k] = uids[k - 1]
      BY <1>6, <2>1, <2>3, <3>1
    <3>4. QED BY <3>2, <3>3
  <2> HIDE DEF r
  <2>7. Len(q) = m /\ r = Append(q, cur)
    BY <1>6, <2>1, <2>4, <2>5, <2>6, Grown
  <2>8. Recall' = r
    BY <2>1, <2>2, RecallNext
  <2>9. m # N
    BY <1>2, <1>7
  <2>10. QED BY <1>3, <1>5, <1>6, <2>7, <2>8, <2>9, Adds
<1>8. CASE N <= len
  <2>1. /\ m = N /\ N \in Nat \ {0} /\ use' = 0 .. N - 1 /\ N \in 0 .. N
        /\ Start = at /\ Start' = first /\ first = Turn(at + 1)
    <3>1. m = N /\ first = (at + 1) % N /\ use' = 0 .. N - 1 /\ Start = at
      BY <1>1, <1>2, <1>3, <1>4, <1>8 DEF Pos
    <3>2. at + 1 \in 0 .. 2 * N - 1
      BY <1>3 DEF Pos
    <3>3. QED BY <1>4, <3>1, <3>2, ModTurns
  <2> DEFINE r == [k \in 1 .. N |-> uids'[Turn(first + k - 1)]]
  <2>2. RecallIn(Table', first) = r
    <3>1. RecallIn(Table', first) = [k \in 1 .. N |-> Table'.uids[Turn(first + k - 1)]]
      <4>1. Table'.use = 0 .. N - 1 /\ first \in Pos
        BY <1>3, <1>4, <2>1
      <4>2. QED BY <4>1, AllRemembered
    <3>2. QED BY <1>4, <3>1
  <2>3. /\ \A k \in 1 .. N : Turn(first + k - 1) \in Pos
        /\ Turn(first + N - 1) = at
        /\ \A k \in 1 .. N - 1 : /\ Turn(first + k - 1) = Turn(at + (k + 1) - 1)
                                 /\ Turn(first + k - 1) # at /\ k + 1 \in 1 .. N
    BY <1>3, <2>1 DEF Turn, Pos
  <2>4. r \in [1 .. N -> S]
    BY <1>3, <2>3 DEF S
  <2>5. r[N] = cur
    BY <1>1, <1>3, <2>1, <2>3
  <2>6. \A k \in 1 .. N - 1 : r[k] = q[k + 1]
    <3> SUFFICES ASSUME NEW k \in 1 .. N - 1 PROVE r[k] = q[k + 1]
      OBVIOUS
    <3>1. k \in 1 .. N /\ k + 1 \in 1 .. m
      BY <2>1, <2>3
    <3>2. r[k] = uids[Turn(first + k - 1)]
      BY <1>1, <2>3, <3>1
    <3>3. q[k + 1] = uids[Turn(at + (k + 1) - 1)]
      BY <1>6, <2>1, <3>1
    <3>4. QED BY <2>3, <3>2, <3>3
  <2> HIDE DEF r
  <2>7. Len(q) = N /\ r = Append(Tail(q), cur)
    BY <1>6, <2>1, <2>4, <2>5, <2>6, Rolled
  <2>8. Recall' = r
    BY <2>1, <2>2, RecallNext
  <2>9. QED BY <1>3, <1>5, <1>6, <2>1, <2>7, <2>8, Adds
<1>9. QED BY <1>3, <1>7, <1>8

\* Every step is one of RecentIds or none, while nothing was deleted and the power did not
\* fail inside an operation.
LEMMA RecentStep ==
  ASSUME IInv, IInv', Order, [Next]_vars, ~deleted', ~spoilt'
  PROVE  Recent!Step
<1>1. CASE Boot
  BY <1>1, BootRecalls, Recalls
<1>2. CASE PowerLoss
  BY <1>2, PowerLossRecalls, Recalls
<1>3. CASE StoreUse
  BY <1>3, StoreUseAdds
<1>4. CASE StoreWord \/ StoreLen \/ StoreFirst \/ StoreLessLen \/ Initialize \/ ClearTables
           \/ ZeroLen \/ AddAstray \/ UNCHANGED vars
  <2>1. Table' = Table
    BY <1>4 DEF StoreWord, StoreLen, StoreFirst, StoreLessLen, Initialize, ClearTables,
                ZeroLen, AddAstray, Idle, Table, vars, ram, args, past
  <2>2. Start' = Start
    BY <1>4 DEF StoreWord, StoreLen, StoreFirst, StoreLessLen, Initialize, ClearTables,
                ZeroLen, AddAstray, Idle, Start, Full, vars, ram, args, past
  <2>3. QED BY <2>1, <2>2, SameRecall, Recalls
<1>5. ASSUME NEW u \in Uids, Add(u) PROVE Recent!Step
  <2>1. /\ pc = "idle" /\ pc' = "word" /\ len' = len /\ at' = Position
        /\ use' = use /\ uids' = uids
        /\ first' = (IF Full THEN (first + 1) % N ELSE first)
    BY <1>5 DEF Add
  <2>2. Table' = Table /\ Start' = Start
    BY <2>1 DEF Table, Start, Full, Position
  <2>3. QED BY <2>2, SameRecall, Recalls
<1>6. CASE ZeroUse
  <2>1. pc = "zerouse" /\ pc' # "off" /\ use' = {}
    BY <1>6 DEF ZeroUse
  <2>2. Table'.use = {}
    BY <2>1 DEF Table
  <2>3. QED BY <2>1, <2>2, NothingToRecall, RecallNext, Empties
<1>7. CASE ZeroFirst
  <2>1. pc = "zerofirst" /\ pc' = "idle" /\ use' = use
    BY <1>7 DEF ZeroFirst
  <2>2. use = {}
    BY <2>1 DEF IInv, Covered
  <2>3. Table.use = {} /\ Table'.use = {}
    BY <2>1, <2>2 DEF Table
  <2>4. QED BY <2>3, NothingToRecall, RecallNow, RecallNext, Recalls
<1>8. ASSUME NEW u \in Uids, Delete(u) PROVE Recent!Step
  BY <1>8 DEF Delete
<1>9. Lost => UNCHANGED vars
  BY DEF Lost
<1>10. QED BY <1>1, <1>2, <1>3, <1>4, <1>5, <1>6, <1>7, <1>8, <1>9 DEF Next

\* The list holds the N identities added last, see KeepsRecent: a new one takes the place of
\* the oldest, across restarts, until one is deleted or the power fails in an operation.
THEOREM RecentAreKept == Spec => KeepsRecent
<1>1. Init => Recent!Init
  <2> SUFFICES ASSUME Init PROVE Recall = << >>
    BY DEF Recent!Init, Recall
  <2>1. pc = "off" /\ flash.use = {}
    <3>1. flash = EmptyFlash \/ flash = [EmptyFlash EXCEPT !.first = 0]
      BY DEF Init
    <3>2. pc = "off"
      BY DEF Init
    <3>3. CASE flash = EmptyFlash
      BY <3>2, <3>3 DEF EmptyFlash
    <3>4. CASE flash = [EmptyFlash EXCEPT !.first = 0]
      BY <3>2, <3>4 DEF EmptyFlash
    <3>5. QED BY <3>1, <3>3, <3>4
  <2>2. Table.use = {}
    BY <2>1 DEF Table
  <2>3. QED BY <2>2, NothingToRecall, RecallNow
<1>2. IInv /\ IInv' /\ Order /\ [Next]_vars => Order'
  <2>1. Lost => UNCHANGED vars
    BY DEF Lost
  <2>2. QED BY <2>1, RestartOrder, AddOrder, OtherOrder DEF Next
<1>3. IInv /\ IInv' /\ Order /\ [Next]_vars => (deleted' \/ spoilt' \/ Recent!Step)
  BY RecentStep
<1>4. QED BY <1>1, <1>2, <1>3, InitOrder, Invariance, PTL DEF Spec, KeepsRecent
=============================================================================

------------------------------ MODULE WhiteList ------------------------------
(***************************************************************************)
(* The white list of card identities (lib/common/whitelist.c): a table of  *)
(* positions in RAM, a table of the positions in use, and their copies in  *)
(* the flash store, written one variable at a time.  The store keeps its   *)
(* promise (KVStore): a variable is written or it is not.                  *)
(*                                                                         *)
(* The eight words of the use table are one variable here: an operation    *)
(* changes one of them and writes the others as they were.  The copy of the *)
(* count is left out: nothing reads it.                                    *)
(*                                                                         *)
(* Behind the last position lie, in RAM, the count and the position of the *)
(* oldest (init.h, line 46), so that an identity stored at position N takes *)
(* their place.  From then on a position may be any number; where one past *)
(* N is written to is outside the model, which ends there.                 *)
(***************************************************************************)
EXTENDS Naturals, Sequences, FiniteSetsExt

CONSTANTS
  N,         \* MAX_WHITE_LEN
  Bytes,     \* values of a word
  Uids,      \* identities that are added and deleted
  Stack,     \* what an identity that was never written may be loaded as
  None       \* a variable that was never written

MaxByte == 255
WordOf(low, high) == low + (MaxByte + 1) * high    \* the count and the position are two bytes
MaxWord == WordOf(MaxByte, MaxByte)

ASSUME WhiteListAssumption ==
  /\ N \in Nat \ {0} /\ N < MaxWord
  /\ Bytes \subseteq 0 .. MaxByte /\ None \notin Nat /\ Uids \cup Stack \subseteq [1 .. 4 -> Bytes]

VARIABLES
  use, uids, len, first,   \* list_tcb_table[0], wl.uids, wl.len, wl.first_uid_pos
  flash,                   \* the copies in the store
  pc,                      \* the next write of the operation under way; "idle", "off",
                           \* "lost" when one went to memory of which nothing is known
  cur, at, word,           \* the identity being added, its position, its next word
  (* History, until an initialisation completes: *)
  deleted,                 \* an identity was deleted
  spoilt                   \* the power failed inside an operation, or the list was
                           \* never initialised

ram == <<use, uids, len, first>>
args == <<cur, at, word>>
past == <<deleted, spoilt>>
vars == <<ram, flash, pc, args, past>>

Words == 4             \* of an identity
Pos == 0 .. N - 1
Bits == 0 .. N         \* the use table has a bit past the last position
NoUid == [w \in 1 .. Words |-> None]
EmptyFlash == [use |-> {}, uids |-> [p \in Pos |-> NoUid], first |-> None]

\* Only a list that was never initialised, or not completely, is written past the
\* table, and unless it is the count and the position stay in their bounds.
TypeOK ==
  /\ spoilt \/ at \in Pos
  /\ N \in use \/ (len <= N + 1 /\ (first <= N \/ pc = "zerofirst"))
  /\ use \subseteq Bits /\ len \in 0 .. MaxWord /\ first \in 0 .. MaxWord
  /\ uids \in [Pos -> [1 .. Words -> Bytes \cup {None}]]
  /\ flash \in [use : SUBSET Bits, uids : [Pos -> [1 .. Words -> Bytes \cup {None}]],
                first : Nat \cup {None}]
  /\ pc \in {"off", "idle", "lost", "word", "use", "len", "first", "unlen", "clear",
             "zerolen", "zerouse", "zerofirst"}
  /\ cur \in Uids \cup {NoUid} /\ at \in Bits /\ word \in 1 .. Words + 1
  /\ deleted \in BOOLEAN /\ spoilt \in BOOLEAN

Init ==
  /\ use = {} /\ uids = [p \in Pos |-> NoUid] /\ len = 0 /\ first = 0
  /\ flash \in {EmptyFlash, [EmptyFlash EXCEPT !.first = 0]}
  /\ deleted = FALSE /\ spoilt = (flash = EmptyFlash)
  /\ pc = "off"
  /\ cur = NoUid /\ at = 0 /\ word = 1

\* Mutant: only the positions up to the count are searched.
FoundEarly(u) == {p \in use \cap Pos : p < len /\ uids[p] = u}

\* search_uid_in_white_list
Found(u) == {p \in use \cap Pos : uids[p] = u}

Idle == pc' = "idle" /\ cur' = NoUid /\ at' = 0 /\ word' = 1

-----------------------------------------------------------------------------
(* get_white_list_from_flash.  What was never written leaves the word of    *)
(* the stack as it was, for an identity as the one before it left it; a     *)
(* position past the table is let through.                                 *)
Loaded(x, any) == IF x # None THEN {x} ELSE any
Accepted(x) == IF x <= N THEN x ELSE 0

\* The word of the identity at p; any is tmpuid as the function found it.
LoadedWord(p, w, any) ==
  LET read == {q \in flash.use \cap (0 .. p) : flash.uids[q][w] # None}
  IN IF read = {} THEN any[w] ELSE flash.uids[Max(read)][w]

Boot ==
  /\ pc = "off" /\ pc' = "idle"
  /\ use' = flash.use /\ len' = Cardinality(flash.use \cap Pos)
  /\ \E x \in Loaded(flash.first, Bits) : first' = Accepted(x)
  /\ \E any \in Stack :
       uids' = [p \in Pos |-> IF p \in flash.use
                              THEN [w \in 1 .. Words |-> LoadedWord(p, w, any)] ELSE NoUid]
  /\ UNCHANGED <<flash, args, past>>

-----------------------------------------------------------------------------
(* add_uid_to_white_list *)

Full == len >= N
Position == IF Full THEN first ELSE len

Add(u) ==
  /\ pc = "idle" /\ Found(u) = {} /\ Position <= N
  /\ at' = Position
  /\ first' = (IF Full THEN (first + 1) % N ELSE first)
  /\ cur' = u /\ word' = 1 /\ pc' = "word"
  /\ UNCHANGED <<use, uids, len, flash, past>>

\* The count or the position was an identity: lines 341 and 343 write anywhere.
AddAstray ==
  /\ pc = "idle" /\ (\E u \in Uids : Found(u) = {}) /\ Position > N
  /\ pc' = "lost"
  /\ UNCHANGED <<ram, flash, args, past>>

Lost == pc = "lost" /\ UNCHANGED vars

\* The third of the variables past the last identity is the position of the oldest.
PastTable(w, x) == [flash EXCEPT !.first = IF w = 3 THEN x ELSE @]

\* add_index_of_uid: the words, one variable each.
StoreWord ==
  /\ pc = "word"
  /\ flash' = IF at \in Pos THEN [flash EXCEPT !.uids[at][word] = cur[word]]
                             ELSE PastTable(word, cur[word])
  /\ word' = word + 1 /\ pc' = (IF word = Words THEN "use" ELSE "word")
  /\ UNCHANGED <<ram, cur, at, past>>

\* Lines 343-344.  The first two bytes of wl.uids[N] are wl.len, the other two
\* wl.first_uid_pos, the low byte first; its pos is a flag that is only shown.
CopyUid ==
  IF at \in Pos
  THEN uids' = [uids EXCEPT ![at] = cur] /\ UNCHANGED <<len, first>>
  ELSE /\ len' = WordOf(cur[1], cur[2]) /\ first' = WordOf(cur[3], cur[4])
       /\ uids' = uids

\* Mutant: the use table is not saved.
StoreUseUnsaved ==
  /\ pc = "use" /\ pc' = "len"
  /\ CopyUid /\ use' = use \cup {at}
  /\ UNCHANGED <<flash, args, past>>

\* set_index_of_white_list_pos
StoreUse ==
  /\ pc = "use" /\ pc' = "len"
  /\ CopyUid /\ use' = use \cup {at} /\ flash' = [flash EXCEPT !.use = use']
  /\ UNCHANGED <<args, past>>

\* Mutants: the count is not held back; it is held back too early.
CountedOn == len + 1
CountedLess == IF len < N - 1 THEN len + 1 ELSE len

Counted == IF len <= N THEN len + 1 ELSE len

StoreLen ==
  /\ pc = "len" /\ pc' = "first"
  /\ len' = Counted
  /\ UNCHANGED <<use, uids, first, flash, args, past>>

\* Mutant: the position is only stored when the list fills up.
StoredFirstOnce == IF len = N THEN first ELSE flash.first

StoredFirst == IF Full THEN first ELSE flash.first

StoreFirst ==
  /\ pc = "first" /\ Idle
  /\ flash' = [flash EXCEPT !.first = StoredFirst]
  /\ UNCHANGED <<ram, past>>

-----------------------------------------------------------------------------
(* delete_uid_from_white_list *)

Delete(u) ==
  /\ pc = "idle" /\ Found(u) # {} /\ deleted' = TRUE
  /\ use' = use \ {Min(Found(u))} /\ flash' = [flash EXCEPT !.use = use']
  /\ pc' = "unlen"
  /\ UNCHANGED <<uids, len, first, args, spoilt>>

StoreLessLen ==
  /\ pc = "unlen" /\ Idle
  /\ len' = (IF len > 0 THEN len - 1 ELSE len)
  /\ UNCHANGED <<use, uids, first, flash, past>>

-----------------------------------------------------------------------------
(* initialize_white_list: Fee_Init clears the pairs of the identities before *)
(* the one of the tables.                                                    *)

Initialize ==
  /\ pc = "idle" /\ pc' = "clear"
  /\ flash' = [flash EXCEPT !.uids = EmptyFlash.uids]
  /\ UNCHANGED <<ram, args, past>>

ClearTables ==
  /\ pc = "clear" /\ pc' = "zerolen"
  /\ flash' = EmptyFlash
  /\ UNCHANGED <<ram, args, past>>

ZeroLen ==
  /\ pc = "zerolen" /\ pc' = "zerouse"
  /\ len' = 0
  /\ UNCHANGED <<use, uids, first, flash, args, past>>

ZeroUse ==
  /\ pc = "zerouse" /\ pc' = "zerofirst"
  /\ use' = {} /\ flash' = [flash EXCEPT !.use = {}]
  /\ UNCHANGED <<uids, len, first, args, past>>

ZeroFirst ==
  /\ pc = "zerofirst" /\ pc' = "idle"
  /\ first' = 0 /\ flash' = [flash EXCEPT !.first = 0]
  /\ deleted' = FALSE /\ spoilt' = FALSE
  /\ UNCHANGED <<use, uids, len, args>>

\* What a write to unknown memory left in the flash is not known either.
PowerLoss ==
  /\ pc \notin {"off", "lost"} /\ spoilt' = (spoilt \/ pc # "idle")
  /\ pc' = "off" /\ cur' = NoUid /\ at' = 0 /\ word' = 1
  /\ use' = {} /\ uids' = [p \in Pos |-> NoUid] /\ len' = 0 /\ first' = 0
  /\ UNCHANGED <<flash, deleted>>

Next ==
  \/ Boot \/ PowerLoss
  \/ (\E u \in Uids : Add(u) \/ Delete(u))
  \/ AddAstray \/ Lost
  \/ StoreWord \/ StoreUse \/ StoreLen \/ StoreFirst \/ StoreLessLen
  \/ Initialize \/ ClearTables \/ ZeroLen \/ ZeroUse \/ ZeroFirst

Spec == Init /\ [][Next]_vars

-----------------------------------------------------------------------------
(* A list that is only added to, and not in the moment the power fails,     *)
(* holds the N identities added last; a new one takes the place of the      *)
(* oldest, across restarts of the device, and only initialising empties it. *)
Start == IF pc = "off" THEN flash.first
         ELSE IF pc \in {"word", "use"} /\ Full THEN at ELSE first
Table == IF pc = "off" THEN [use |-> flash.use, uids |-> flash.uids]
                       ELSE [use |-> use, uids |-> uids]
Age(p) == (p + N - Start) % N
Aged(k) == CHOOSE p \in Table.use :
             Cardinality({q \in Table.use : Age(q) < Age(p)}) = k - 1
Recent == INSTANCE RecentIds WITH Capacity <- N, cleared <- pc = "zerouse",
            listed <- [k \in 1 .. Cardinality(Table.use) |-> Table.uids[Aged(k)]]

KeepsRecent == Recent!Init /\ [][deleted' \/ spoilt' \/ Recent!Step]_vars

(* Whatever was added and deleted, a restart between two operations brings  *)
(* back the list as it was, if none before it came inside an operation.     *)
SurvivesRestart ==
  pc = "idle" /\ ~spoilt => flash.use = use /\ \A p \in use : flash.uids[p] = uids[p]

(* No identity stands in the list twice, if the power never failed inside   *)
(* an operation (which may leave one made of the words of two).             *)
NoDuplicates == spoilt \/ \A p, q \in use \cap Pos : uids[p] = uids[q] => p = q

(* The count that decides whether the list is full is never below the       *)
(* positions in use, whenever the power fails, unless an identity was       *)
(* stored past the table, which sets the bit N and takes the place of the   *)
(* count.  After a delete it may exceed them, when the next identity is     *)
(* written over one in use, but the list is not overrun.                    *)
CountCoversUse ==
  pc = "idle" /\ N \notin use => Cardinality(use \cap Pos) <= len
=============================================================================

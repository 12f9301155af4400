-------------------------------- MODULE Fee --------------------------------
(***************************************************************************)
(* The flash emulation of an EEPROM (bsp/driver/eeprom/eeprom.c).          *)
(*                                                                         *)
(* Variables are kept in pairs of flash pages, NumOfVar variables to a     *)
(* pair.  A page is a status word and slots that are filled from the first *)
(* on, each with the data and the virtual address of a write; the last     *)
(* slot of an address holds its value.  When the page of a pair is full    *)
(* the last values move to the other page.  The power may fail between any *)
(* two flash operations; Fee_Init then mends the pages.                    *)
(*                                                                         *)
(* One step is one flash operation, taken to be atomic, and what the code  *)
(* does up to the next one.  The main program is the only caller.          *)
(***************************************************************************)
EXTENDS Naturals, Sequences, FiniteSetsExt

CONSTANTS
  Pairs,         \* pairs of pages, FEE_PAGENUM / 2
  NumOfVar,      \* FEE_NUM_OF_VAR
  Slots,         \* slots of a page
  Data,          \* values a variable may be given
  Blank,         \* 0xFFFF, what an erased halfword reads
  Addresses,     \* the virtual addresses the program writes
  Watched,       \* those among them the properties speak of
  None,          \* EE_ReadVariable: not found
  NoPage         \* NO_VALID_PAGE

ASSUME SizeAssumption ==
  /\ Pairs \in Nat \ {0} /\ NumOfVar \in Nat \ {0} /\ Slots \in Nat \ {0}
  /\ Addresses \subseteq 0 .. Pairs * NumOfVar - 1 /\ Watched \subseteq Addresses

VARIABLES
  pages,     \* the flash: status and slots of every page
  op,        \* the call being served: "idle", "write", "init" or "clear"; "off"
  asked,     \* <<VirtAddress, Data>> of a write, else << >>
  pair,      \* pairs Fee_Init has turned to
  copy,      \* addresses still to be stored by the copying loop
  half,      \* the slot whose data is programmed and whose address is not
  todo,      \* erasures and marks that follow the loop
  status,    \* what the last call returned
  locked,    \* PGERR is set: every later flash operation fails
  unmended   \* history: the power failed in Fee_Init, which has not completed since

vars == <<pages, op, asked, pair, copy, half, todo, status, locked, unmended>>
volatile == <<asked, pair, copy, half, todo>>

Page == 0 .. 2 * Pairs - 1
EmptyPage == [status |-> "ERASED",
              slot |-> [k \in 1 .. Slots |-> [data |-> Blank, address |-> Blank]]]

\* A recovery has room for what a transfer left behind.
ASSUME RoomAssumption == Slots > NumOfVar /\ Slots >= 2 * NumOfVar - 1

\* 0xFFFF is no address the store looks for.
ASSUME ValueAssumption ==
  /\ Blank \notin 0 .. 2 * Pairs * NumOfVar /\ None \notin Data \cup {Blank}
  /\ NoPage \notin Page /\ NoPage \notin {"", "FLASH_COMPLETE", "PAGE_FULL", "FLASH_ERROR_PG"}

Erase(p) == [page |-> p, status |-> "ERASED"]
Mark(p) == [page |-> p, status |-> "VALID_PAGE"]

TypeOK ==
  /\ pages \in [Page -> [status : {"ERASED", "RECEIVE_DATA", "VALID_PAGE"},
                         slot : [1 .. Slots -> [data : Data \cup {Blank},
                                                address : Addresses \cup {Blank}]]]]
  /\ op \in {"off", "idle", "write", "init", "clear"}
  /\ asked \in {<< >>} \cup (Addresses \X Data) /\ (op = "write") = (asked # << >>)
  /\ pair \in 0 .. Pairs /\ copy \in Seq(Nat)
  /\ half = << >> \/ half \in [page : Page, slot : 1 .. Slots, address : Addresses]
  /\ todo \in Seq([page : Page, status : {"ERASED", "VALID_PAGE"}])
  /\ status \in {"", "FLASH_COMPLETE", "PAGE_FULL", NoPage, "FLASH_ERROR_PG"}
  /\ locked \in BOOLEAN /\ unmended \in BOOLEAN

-----------------------------------------------------------------------------
(* Finding pages and slots. *)

\* Past the last pair the flash is erased.
Status(p) == IF p \in Page THEN pages[p].status ELSE "ERASED"

First(v) == 2 * (v \div NumOfVar)
Second(v) == First(v) + 1

ReadPage(v) ==
  IF Status(First(v)) = "VALID_PAGE" THEN First(v)
  ELSE IF Status(Second(v)) = "VALID_PAGE" THEN Second(v) ELSE NoPage

Other(p, v) == IF p = First(v) THEN Second(v) ELSE First(v)

WritePageOfReads(v) == ReadPage(v)

\* A page that receives data is written before the valid one.
WritePage(v) ==
  IF Status(Second(v)) = "VALID_PAGE"
  THEN IF Status(First(v)) = "RECEIVE_DATA" THEN First(v) ELSE Second(v)
  ELSE IF Status(First(v)) = "VALID_PAGE"
       THEN IF Status(Second(v)) = "RECEIVE_DATA" THEN Second(v) ELSE First(v)
       ELSE NoPage

Holding(p, v) == {k \in 1 .. Slots : pages[p].slot[k].address = v}
Latest(p, v) == IF Holding(p, v) = {} THEN None
                ELSE pages[p].slot[Max(Holding(p, v))].data
ReadVariable(v) == IF ReadPage(v) = NoPage THEN NoPage ELSE Latest(ReadPage(v), v)

\* A slot torn by the power keeps its data and no address: it is not free.
Free(p) == {k \in 1 .. Slots : pages[p].slot[k] = [data |-> Blank, address |-> Blank]}

\* Why the next store cannot be made; "" when it can.
StoreError(v) ==
  IF WritePage(v) = NoPage THEN NoPage
  ELSE IF Free(WritePage(v)) = {} THEN "PAGE_FULL"
  ELSE IF locked THEN "FLASH_ERROR_PG" ELSE ""

-----------------------------------------------------------------------------
Init ==
  /\ pages = [p \in Page |-> EmptyPage]
  /\ op = "off" /\ asked = << >> /\ pair = 0 /\ copy = << >> /\ half = << >>
  /\ todo = << >> /\ status = "" /\ locked = FALSE /\ unmended = FALSE

ReturnKeepingRequest(s) ==
  /\ op' = "idle" /\ status' = s
  /\ asked' = asked /\ pair' = 0 /\ copy' = << >> /\ todo' = << >>

Return(s) ==
  /\ op' = "idle" /\ status' = s
  /\ asked' = << >> /\ pair' = 0 /\ copy' = << >> /\ todo' = << >>

Write(v, d) ==
  /\ op = "idle" /\ op' = "write"
  /\ asked' = <<v, d>> /\ copy' = <<v>>
  /\ UNCHANGED <<pages, pair, half, todo, status, locked, unmended>>

(* The copying loop: of EE_PageTransfer, and of Fee_InitPage in either      *)
(* direction.  A lone write is a loop over the address it was asked for.    *)

Storing == copy # << >> /\ half = << >>

ValueOf(v) == IF op = "write" /\ v = asked[1] THEN asked[2] ELSE ReadVariable(v)

PassedOverUnwritten(v) == ValueOf(v) = None

\* Fee_InitPage passes over the address in the first slot of the page that
\* receives: the write that caused the transfer.  NO_VALID_PAGE counts as found.
PassedOver(v) ==
  \/ op = "init" /\ pages[Head(todo).page].slot[1].address = v
  \/ ValueOf(v) = None

Pass ==
  /\ Storing /\ PassedOver(Head(copy))
  /\ copy' = Tail(copy)
  /\ UNCHANGED <<pages, op, asked, pair, half, todo, status, locked, unmended>>

ProgramData ==
  /\ Storing /\ ~PassedOver(Head(copy)) /\ StoreError(Head(copy)) = ""
  /\ LET v == Head(copy)
         p == WritePage(v)
         k == Min(Free(p))
     IN /\ pages' = [pages EXCEPT ![p].slot[k].data = ValueOf(v)]
        /\ half' = [page |-> p, slot |-> k, address |-> v]
  /\ UNCHANGED <<op, asked, pair, copy, todo, status, locked, unmended>>

ProgramAddress ==
  /\ half # << >>
  /\ pages' = [pages EXCEPT ![half.page].slot[half.slot].address = half.address]
  /\ half' = << >> /\ copy' = Tail(copy)
  /\ UNCHANGED <<op, asked, pair, todo, status, locked, unmended>>

\* When Page0 receives, Fee_InitPage does not look at the result of a store.
Unheeded == op = "init" /\ Head(todo).page % 2 = 0

\* A full page makes EE_WriteVariable begin a transfer.
CausesTransfer(error) == op = "write" /\ todo = << >> /\ error = "PAGE_FULL"

StoreFails ==
  LET error == IF Storing THEN StoreError(Head(copy)) ELSE "" IN
  /\ error # "" /\ ~PassedOver(Head(copy)) /\ ~CausesTransfer(error)
  /\ IF Unheeded THEN copy' = Tail(copy) /\ UNCHANGED <<op, asked, pair, todo, status>>
                 ELSE Return(error)
  /\ UNCHANGED <<pages, half, locked, unmended>>

-----------------------------------------------------------------------------
(* Page transfer. *)

Variables(base) == [i \in 1 .. NumOfVar |-> base + i - 1]
Others(v) == LET base == (v \div NumOfVar) * NumOfVar IN
             [i \in 1 .. NumOfVar - 1 |-> IF base + i - 1 < v THEN base + i - 1 ELSE base + i]

TransferPlanUnmarked(old, new) == <<Erase(old)>>
TransferPlan(old, new) == <<Erase(old), Mark(new)>>

BeginTransfer ==
  /\ Storing /\ CausesTransfer(StoreError(Head(copy)))
  /\ LET v == Head(copy)
         old == ReadPage(v)
         new == Other(old, v)
     IN IF locked \/ Status(new) # "ERASED"
        THEN Return("FLASH_ERROR_PG") /\ locked' = TRUE
             /\ UNCHANGED <<pages, half, unmended>>
        ELSE /\ pages' = [pages EXCEPT ![new].status = "RECEIVE_DATA"]
             /\ copy' = <<v>> \o Others(v)
             /\ todo' = TransferPlan(old, new)
             /\ UNCHANGED <<op, asked, pair, half, status, locked, unmended>>

\* Mark or erase one page.
ProgramPage ==
  /\ copy = << >> /\ half = << >> /\ todo # << >> /\ ~locked
  /\ LET p == Head(todo).page IN
     pages' = IF Head(todo) = Erase(p) THEN [pages EXCEPT ![p] = EmptyPage]
                                       ELSE [pages EXCEPT ![p].status = "VALID_PAGE"]
  /\ todo' = Tail(todo)
  /\ UNCHANGED <<op, asked, pair, copy, half, status, locked, unmended>>

WriteReturns ==
  /\ op = "write" /\ copy = << >> /\ half = << >> /\ todo = << >>
  /\ Return("FLASH_COMPLETE") /\ UNCHANGED <<pages, half, locked, unmended>>

-----------------------------------------------------------------------------
(* Fee_Init: a walk over the pairs, to mend them or to clear them. *)

Format(p) == <<Erase(p), Mark(p), Erase(p + 1)>>

\* The variables Fee_InitPage looks for in the pair of page p: it multiplies the
\* number of the page, not of the pair.
RecoveredVariables(p) == Variables(p * NumOfVar)

CopyThen(p, plan) == [copy |-> RecoveredVariables(p), todo |-> plan]
Just(plan) == [copy |-> << >>, todo |-> plan]

RecoveryPlan(p) ==
  LET s0 == Status(p)
      s1 == Status(p + 1)
  IN CASE s0 = "ERASED" /\ s1 = "VALID_PAGE" -> Just(<<Erase(p)>>)
       [] s0 = "ERASED" /\ s1 = "RECEIVE_DATA" -> Just(<<Erase(p), Mark(p + 1)>>)
       [] s0 = "RECEIVE_DATA" /\ s1 = "VALID_PAGE" ->
            CopyThen(p, <<Mark(p), Erase(p + 1)>>)
       [] s0 = "RECEIVE_DATA" /\ s1 = "ERASED" -> Just(<<Erase(p + 1), Mark(p)>>)
       [] s0 = "VALID_PAGE" /\ s1 = "ERASED" -> Just(<<Erase(p + 1)>>)
       [] s0 = "VALID_PAGE" /\ s1 = "RECEIVE_DATA" ->
            CopyThen(p, <<Mark(p + 1), Erase(p)>>)
       [] OTHER -> Just(Format(p))

ClearPlan(p) == Just(<<Erase(p)>> \o Format(p))

Walking == op \in {"init", "clear"} /\ copy = << >> /\ half = << >> /\ todo = << >>

NextPair ==
  /\ Walking /\ pair < Pairs /\ ~locked
  /\ LET plan == IF op = "init" THEN RecoveryPlan(2 * pair) ELSE ClearPlan(2 * pair)
     IN copy' = plan.copy /\ todo' = plan.todo
  /\ pair' = pair + 1
  /\ UNCHANGED <<pages, op, asked, half, status, locked, unmended>>

InitReturns ==
  /\ Walking
  /\ \/ pair = Pairs /\ Return("FLASH_COMPLETE") /\ unmended' = (unmended /\ op # "init")
     \/ pair < Pairs /\ locked /\ Return("FLASH_ERROR_PG") /\ UNCHANGED unmended
  /\ UNCHANGED <<pages, half, locked>>

Clear ==
  /\ op = "idle" /\ op' = "clear"
  /\ UNCHANGED <<pages, asked, pair, copy, half, todo, status, locked, unmended>>

-----------------------------------------------------------------------------
PowerLoss ==
  /\ op # "off" /\ unmended' = (unmended \/ op = "init")
  /\ op' = "off" /\ status' = "" /\ locked' = FALSE
  /\ asked' = << >> /\ pair' = 0 /\ copy' = << >> /\ half' = << >> /\ todo' = << >>
  /\ UNCHANGED pages

PowerUp ==
  /\ op = "off" /\ op' = "init"
  /\ UNCHANGED <<pages, asked, pair, copy, half, todo, status, locked, unmended>>

Next ==
  \/ \E v \in Addresses, d \in Data : Write(v, d)
  \/ Pass \/ ProgramData \/ ProgramAddress \/ StoreFails
  \/ BeginTransfer \/ ProgramPage \/ WriteReturns
  \/ NextPair \/ InitReturns \/ Clear
  \/ PowerLoss \/ PowerUp

Spec == Init /\ [][Next]_vars

-----------------------------------------------------------------------------
(* What is kept for v, whether or not a read would find it at this moment:  *)
(* the page that receives data is ahead of the valid one, of two valid      *)
(* pages the one about to be erased no longer counts, and when Fee_Init     *)
(* formats neither does.                                                    *)
Kept(v) ==
  LET both == {First(v), Second(v)}
      ahead == {p \in both : Status(p) = "RECEIVE_DATA" /\ Holding(p, v) # {}}
      valid == {p \in both : Status(p) = "VALID_PAGE"}
      staying == {p \in valid : \A k \in 1 .. Len(todo) : todo[k] # Erase(p)}
      formats == op = "init" /\ \A p \in both : Status(p) # "RECEIVE_DATA"
      best == IF ahead # {} THEN ahead ELSE IF staying # {} \/ formats THEN staying ELSE valid
  IN IF best = {} THEN None ELSE Latest(Min(best), v)

(* The store keeps its promise: what is kept for a watched variable changes *)
(* only by a write or a clear that is being served, and once, whether the   *)
(* power fails in it or not; success is reported of a write that is kept.   *)
(* From a power failure in Fee_Init to the next Fee_Init that completes it  *)
(* does not.                                                                *)
Store == INSTANCE KVStore WITH
  Keys <- Watched, None <- None, status <- status,
  mem <- [v \in Watched |-> Kept(v)],
  req <- CASE op = "write" /\ asked[1] \in Watched -> asked
           [] op = "clear" -> <<"clear">>
           [] OTHER -> << >>

KeepsPromise == Store!Init /\ [][unmended' \/ [Store!Next]_(Store!kvars)]_vars

(* Between calls one page of a watched pair is valid and the other erased,  *)
(* however often the power failed.                                          *)
KnownGood ==
  op = "idle" /\ ~unmended => \A v \in Watched :
    {Status(First(v)), Status(Second(v))} = {"ERASED", "VALID_PAGE"}

(* A transfer always makes room, and recovery always finds it: no call ever *)
(* returns an error, and between calls a read finds what is kept.           *)
CallsSucceed ==
  unmended \/ /\ status \in {"", "FLASH_COMPLETE"}
              /\ op = "idle" => \A v \in Watched : ReadVariable(v) = Kept(v)

(* What is kept for a watched variable is never lost, save by a clear.      *)
NothingForgotten ==
  [][op # "clear" => \A v \in Watched : Kept(v) # None => Kept(v)' # None]_vars
=============================================================================

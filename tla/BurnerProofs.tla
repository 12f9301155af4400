---------------------------- MODULE BurnerProofs ----------------------------
(***************************************************************************)
(* Safety of the burner for every set of cards, every timeout and every    *)
(* bound.                                                                  *)
(***************************************************************************)
EXTENDS Burner, TLAPS

USE CardAssumption, TimerAssumption, BoundAssumption

\* Where the main loop can be while a burn is requested, and while one that
\* was answered is being announced.
BurnUnderWay  == {"read", "verify", "write", "listenOn", "failed"}
Announcing    == {"beepOk", "flagOk", "clearTimer", "flagFail"}
SeekingCard   == {"find", "select", "selected", "halt", "launch"}

\* A card status other than 0 is a permission to burn; the one moment at
\* which it is not is between the request and the reset of the status.
Permission ==
  /\ card # 0 /\ ~armed => pc = "launched"
  /\ pc \in SeekingCard => armed /\ rf = 0

\* A request to burn is made and served in one pass of the main loop with no
\* command in between, so the tone it starts starts before a later stop.
RequestServed ==
  /\ rf = 1 => pc \in BurnUnderWay \cup {"launched", "clickers"}
  /\ pc \in BurnUnderWay \cup {"launched"} => rf = 1
  /\ rf = 1 \/ pc \in BurnUnderWay \cup Announcing \cup SeekingCard \cup {"dispatch"}
       => autoBurn

\* A card is burned only after one was selected, and with its identity.
CardChosen ==
  /\ rf = 1 \/ card \in {3, 4, 5} \/ pc \in {"selected", "halt", "launch", "launched"}
       => sel \in Cards
  /\ pc \in BurnUnderWay => conf \in Cards

IInv == TypeOK /\ CardChosen /\ Permission /\ RequestServed /\ SilentWhenStopped /\ BeepHasTimer

LEMMA InitIInv == Init => IInv
<1> SUFFICES ASSUME Init PROVE IInv
  OBVIOUS
<1>1. /\ cnt \in [Timers -> Nat] /\ \A t \in Timers : cnt[t] < Timeout[t]
      /\ io \in {0, 1} \X {0, 1} \X {0, 1}
  BY DEF Init
<1>2. frames \in Seq(Cards \cup {Blank}) /\ Len(frames) <= BufFrames
  BY DEF Init
<1>3. nvm \in [Cards -> Cards \cup {Blank}] /\ present \in Cards \cup {NoCard}
  BY DEF Init
<1>4. /\ pc \in Pcs /\ rf \in 0..6 /\ result \in {0, -1}
      /\ beepFlag \in 0..2 /\ card \in {0, 1, 3, 4, 5} /\ findOk \in 0..2
      /\ lag \in Nat /\ window \in Nat
  BY DEF Init, Pcs, BurnPcs
<1>5. /\ beep \in BOOLEAN /\ autoBurn \in BOOLEAN /\ armed \in BOOLEAN
      /\ heard \in {"none", "other", "match"}
  BY DEF Init
<1>6. flash \in 0..Flashes /\ tries \in 0..MaxWrites - 1 /\ absent \in 0..MinAbsent
  BY DEF Init
<1>7. /\ sel \in Cards \cup {NoCard} /\ conf \in Cards \cup {NoCard, Blank}
      /\ rd \in Cards \cup {Blank} /\ msg \in Cards \cup {NoCard, Blank}
  BY DEF Init
<1>8. TypeOK
  BY <1>1, <1>2, <1>3, <1>4, <1>5, <1>6, <1>7 DEF TypeOK
<1>9. CardChosen /\ Permission /\ RequestServed /\ SilentWhenStopped /\ BeepHasTimer
  BY DEF Init, CardChosen, Permission, RequestServed, SilentWhenStopped, BeepHasTimer,
         BurnUnderWay, Announcing, SeekingCard
<1>10. QED BY <1>8, <1>9 DEF IInv

\* SysTick: what one handler run does to each shared variable.
LEMMA SysTickTypes ==
  ASSUME TypeOK, NEW pin \in {0, 1}, SysTick(pin)
  PROVE  TypeOK'
<1>1. cnt' \in [Timers -> Nat] /\ \A t \in Timers : cnt'[t] < Timeout'[t]
  <2> DEFINE cardNow == IF Expires("system", card) /\ PowerSample(pin) # <<1, 1, 1>> THEN 1 ELSE card
  <2>1. cnt' = [t \in Timers |-> IF Expires(t, cardNow) THEN 0
                                 ELSE IF Running(t, cardNow) THEN cnt[t] + 1 ELSE cnt[t]]
    BY DEF SysTick
  <2>2. \A t \in Timers : /\ cnt[t] \in Nat /\ cnt[t] < Timeout[t] /\ Timeout[t] \in Nat
    BY DEF TypeOK
  <2> HIDE DEF cardNow
  <2>3. QED BY <2>1, <2>2 DEF Expires
<1>2. io' \in {0, 1} \X {0, 1} \X {0, 1}
  BY DEF TypeOK, SysTick, PowerSample
<1>3. card' \in {0, 1, 3, 4, 5} /\ findOk' \in 0..2 /\ beepFlag' \in 0..2 /\ rf' \in 0..6
  BY DEF TypeOK, SysTick
<1>4. beep' \in BOOLEAN /\ armed' \in BOOLEAN
  BY DEF TypeOK, SysTick
<1>5. lag' \in Nat /\ absent' \in 0..MinAbsent /\ window' \in Nat
  BY DEF TypeOK, SysTick
<1>6. UNCHANGED <<pc, result, flash, autoBurn, burnVars, present, nvm, heard>>
  BY DEF SysTick
<1>7. QED BY <1>1, <1>2, <1>3, <1>4, <1>5, <1>6 DEF TypeOK, burnVars

\* Clearing a timer keeps every count below its timeout.
LEMMA ClearedCount ==
  ASSUME TypeOK, NEW t
  PROVE  /\ [cnt EXCEPT ![t] = 0] \in [Timers -> Nat]
         /\ \A u \in Timers : [cnt EXCEPT ![t] = 0][u] < Timeout[u]
<1>1. \A u \in Timers : cnt[u] \in Nat /\ Timeout[u] \in Nat /\ 0 < Timeout[u] /\ cnt[u] < Timeout[u]
  BY DEF TypeOK
<1>2. cnt \in [Timers -> Nat]
  BY DEF TypeOK
<1>3. QED BY <1>1, <1>2

\* Taking the first of the queued frames.
LEMMA TakenFrame ==
  ASSUME NEW S, NEW q \in Seq(S), q # << >>
  PROVE  Head(q) \in S /\ Tail(q) \in Seq(S) /\ Len(Tail(q)) = Len(q) - 1
  OBVIOUS

LEMMA BurnTaskTypes ==
  ASSUME TypeOK, CardChosen, BurnTask
  PROVE  TypeOK'
<1> USE DEF mainVars, burnVars, boardVars, histVars, Pcs, BurnPcs, Goto
<1>1. CASE Clickers
  BY <1>1 DEF Clickers, TypeOK
<1>2. CASE ReadNvm
  BY <1>2 DEF ReadNvm, TypeOK
<1>3. CASE Verify
  BY <1>3 DEF Verify, TypeOK
<1>4. CASE WriteNvm
  <2>1. nvm' \in [Cards -> Cards \cup {Blank}]
    <3>1. conf \in Cards
      BY <1>4 DEF WriteNvm, CardChosen, BurnUnderWay
    <3>2. nvm \in [Cards -> Cards \cup {Blank}]
      BY DEF TypeOK
    <3>3. nvm' = nvm \/ \E v \in {conf, Blank} : nvm' = [nvm EXCEPT ![present] = v]
      BY <1>4 DEF WriteNvm
    <3>4. QED BY <3>1, <3>2, <3>3
  <2>2. tries' \in 0..MaxWrites - 1
    BY <1>4 DEF WriteNvm, TypeOK
  <2>3. QED BY <1>4, <2>1, <2>2 DEF WriteNvm, TypeOK
<1>5. CASE ListenOn
  BY <1>5 DEF ListenOn, TypeOK
<1>6. CASE BeepOk
  BY <1>6 DEF BeepOk, TypeOK
<1>7. CASE FlagOk
  BY <1>7 DEF FlagOk, TypeOK
<1>8. CASE ClearTimer
  <2>1. cnt' \in [Timers -> Nat] /\ \A t \in Timers : cnt'[t] < Timeout'[t]
    BY <1>8, ClearedCount DEF ClearTimer
  <2>2. QED BY <1>8, <2>1 DEF ClearTimer, TypeOK
<1>9. CASE Failed
  BY <1>9 DEF Failed, TypeOK
<1>10. CASE FlagFail
  BY <1>10 DEF FlagFail, TypeOK
<1>11. CASE Receive
  <2>1. frames' \in Seq(Cards \cup {Blank}) /\ Len(frames') <= BufFrames
    <3>1. frames' = frames \/ (frames # << >> /\ frames' = Tail(frames))
      BY <1>11 DEF Receive
    <3>2. CASE frames' = frames
      BY <3>2 DEF TypeOK
    <3>3. CASE frames # << >> /\ frames' = Tail(frames)
      <4>1. frames \in Seq(Cards \cup {Blank}) /\ Len(frames) <= BufFrames
        BY DEF TypeOK
      <4>2. Tail(frames) \in Seq(Cards \cup {Blank}) /\ Len(Tail(frames)) = Len(frames) - 1
        BY <3>3, <4>1, TakenFrame
      <4>3. Len(frames) \in Nat
        BY <4>1
      <4>4. QED BY <3>3, <4>1, <4>2, <4>3
    <3>4. QED BY <3>1, <3>2, <3>3
  <2>2. msg' \in Cards \cup {NoCard, Blank}
    BY <1>11, TakenFrame DEF Receive, TypeOK
  <2>3. QED BY <1>11, <2>1, <2>2 DEF Receive, TypeOK
<1>12. CASE CheckRssi
  BY <1>12 DEF CheckRssi, TypeOK
<1>13. CASE Show
  BY <1>13 DEF Show, Report, TypeOK
<1>14. QED
  BY <1>1, <1>2, <1>3, <1>4, <1>5, <1>6, <1>7, <1>8, <1>9, <1>10, <1>11, <1>12, <1>13
     DEF BurnTask

LEMMA OtherTaskTypes ==
  ASSUME TypeOK, SerialTask \/ CardTask
  PROVE  TypeOK'
<1> USE DEF mainVars, burnVars, boardVars, histVars, Pcs, BurnPcs, Goto
<1>1. CASE NoCommand
  BY <1>1 DEF NoCommand, TypeOK
<1>2. CASE StopBurn
  <2>1. beep' \in BOOLEAN /\ autoBurn' \in BOOLEAN
    BY <1>2 DEF StopBurn
  <2>2. QED BY <1>2, <2>1 DEF StopBurn, TypeOK
<1>3. CASE \E known \in BOOLEAN : StartBurn(known)
  BY <1>3 DEF StartBurn, TypeOK
<1>4. CASE Gate
  BY <1>4 DEF Gate, TypeOK
<1>5. CASE Dispatch
  BY <1>5 DEF Dispatch, TypeOK
<1>6. CASE FindCard
  <2>1. cnt' \in [Timers -> Nat] /\ \A t \in Timers : cnt'[t] < Timeout'[t]
    <3>1. cnt' = cnt \/ cnt' = [cnt EXCEPT !["second"] = 0]
      BY <1>6 DEF FindCard
    <3>2. CASE cnt' = cnt
      BY <3>2 DEF TypeOK
    <3>3. CASE cnt' = [cnt EXCEPT !["second"] = 0]
      BY <3>3, ClearedCount
    <3>4. QED BY <3>1, <3>2, <3>3
  <2>2. QED BY <1>6, <2>1 DEF FindCard, TypeOK
<1>7. CASE SelectCard
  BY <1>7 DEF SelectCard, TypeOK
<1>8. CASE CardSelected
  BY <1>8 DEF CardSelected, TypeOK
<1>9. CASE CardHalt
  BY <1>9 DEF CardHalt, TypeOK
<1>10. CASE CardLaunch
  <2>1. armed' \in BOOLEAN
    BY <1>10 DEF CardLaunch
  <2>2. QED BY <1>10, <2>1 DEF CardLaunch, TypeOK
<1>11. CASE CardLaunched
  BY <1>11 DEF CardLaunched, TypeOK
<1>12. QED
  BY <1>1, <1>2, <1>3, <1>4, <1>5, <1>6, <1>7, <1>8, <1>9, <1>10, <1>11
     DEF SerialTask, CardTask

LEMMA EnvironmentTypes ==
  ASSUME TypeOK,
         \/ \E f \in Cards \cup {Blank} : RadioFrame(f)
         \/ \E c \in Cards : InsertCard(c)
         \/ RemoveCard \/ Reset
  PROVE  TypeOK'
<1> USE DEF mainVars, burnVars, boardVars, histVars, Pcs, BurnPcs
<1>1. CASE \E f \in Cards \cup {Blank} : RadioFrame(f)
  <2>1. PICK f \in Cards \cup {Blank} : RadioFrame(f)
    BY <1>1
  <2>2. frames \in Seq(Cards \cup {Blank}) /\ Len(frames) <= BufFrames
        /\ BufFrames \in Nat \ {0}
    BY BoundAssumption DEF TypeOK
  <2>3. frames' \in Seq(Cards \cup {Blank}) /\ Len(frames') <= BufFrames
    <3>1. frames' = Append(frames, f) /\ Len(frames) < BufFrames
      BY <2>1 DEF RadioFrame
    <3>2. QED BY <2>2, <3>1
  <2>4. QED BY <2>1, <2>3 DEF RadioFrame, TypeOK
<1>2. CASE \E c \in Cards : InsertCard(c)
  BY <1>2 DEF InsertCard, TypeOK
<1>3. CASE RemoveCard
  BY <1>3 DEF RemoveCard, TypeOK
<1>4. CASE Reset
  <2>1. nvm' \in [Cards -> Cards \cup {Blank}]
    BY <1>4 DEF Reset, TypeOK
  <2>2. cnt' \in [Timers -> Nat] /\ \A t \in Timers : cnt'[t] < Timeout'[t]
    BY <1>4 DEF Reset
  <2>3. frames' \in Seq(Cards \cup {Blank}) /\ Len(frames') <= BufFrames
    BY <1>4 DEF Reset
  <2>4. io' \in {0, 1} \X {0, 1} \X {0, 1}
    BY <1>4 DEF Reset
  <2>5. beep' \in BOOLEAN /\ autoBurn' \in BOOLEAN /\ armed' \in BOOLEAN
    BY <1>4 DEF Reset
  <2>6. tries' \in 0..MaxWrites - 1 /\ flash' \in 0..Flashes
    BY <1>4 DEF Reset
  <2>7. pc' \in Pcs /\ rf' \in 0..6 /\ result' \in {0, -1} /\ beepFlag' \in 0..2
        /\ card' \in {0, 1, 3, 4, 5} /\ findOk' \in 0..2 /\ lag' \in Nat /\ window' \in Nat
    BY <1>4 DEF Reset
  <2>8. sel' \in Cards \cup {NoCard} /\ conf' \in Cards \cup {NoCard, Blank}
        /\ rd' \in Cards \cup {Blank} /\ msg' \in Cards \cup {NoCard, Blank}
        /\ heard' \in {"none", "other", "match"}
    BY <1>4 DEF Reset
  <2>9. present' \in Cards \cup {NoCard} /\ absent' \in 0..MinAbsent
    BY <1>4 DEF Reset, TypeOK
  <2>10. QED BY <2>1, <2>2, <2>3, <2>4, <2>5, <2>6, <2>7, <2>8, <2>9 DEF TypeOK
<1>5. QED BY <1>1, <1>2, <1>3, <1>4

-----------------------------------------------------------------------------
(* The other conjuncts: which steps of the main loop lead where.           *)

LEMMA BurnTaskControl ==
  ASSUME IInv, BurnTask
  PROVE  (CardChosen /\ Permission /\ RequestServed)'
<1> USE DEF mainVars, burnVars, boardVars, histVars, Goto, CardChosen, Permission,
            RequestServed, BurnUnderWay, Announcing, SeekingCard
<1>1. /\ CardChosen /\ Permission /\ RequestServed
      /\ armed \in BOOLEAN /\ autoBurn \in BOOLEAN /\ rf \in 0..6 /\ card \in {0, 1, 3, 4, 5}
      /\ present \in Cards \cup {NoCard}
  BY DEF IInv, TypeOK
<1>2. CASE Clickers
  BY <1>1, <1>2 DEF Clickers
<1>3. CASE ReadNvm
  BY <1>1, <1>3 DEF ReadNvm
<1>4. CASE Verify
  BY <1>1, <1>4 DEF Verify
<1>5. CASE WriteNvm
  BY <1>1, <1>5 DEF WriteNvm
<1>6. CASE ListenOn
  BY <1>1, <1>6 DEF ListenOn
<1>7. CASE BeepOk
  BY <1>1, <1>7 DEF BeepOk
<1>8. CASE FlagOk
  BY <1>1, <1>8 DEF FlagOk
<1>9. CASE ClearTimer
  BY <1>1, <1>9 DEF ClearTimer
<1>10. CASE Failed
  BY <1>1, <1>10 DEF Failed
<1>11. CASE FlagFail
  BY <1>1, <1>11 DEF FlagFail
<1>12. CASE Receive
  BY <1>1, <1>12 DEF Receive
<1>13. CASE CheckRssi
  BY <1>1, <1>13 DEF CheckRssi
<1>14. CASE Show
  BY <1>1, <1>14 DEF Show, Report
<1>15. QED
  BY <1>2, <1>3, <1>4, <1>5, <1>6, <1>7, <1>8, <1>9, <1>10, <1>11, <1>12, <1>13, <1>14 DEF BurnTask

LEMMA OtherTaskControl ==
  ASSUME IInv, SerialTask \/ CardTask
  PROVE  (CardChosen /\ Permission /\ RequestServed)'
<1> USE DEF mainVars, burnVars, boardVars, histVars, Goto, CardChosen, Permission,
            RequestServed, BurnUnderWay, Announcing, SeekingCard
<1>1. /\ CardChosen /\ Permission /\ RequestServed
      /\ armed \in BOOLEAN /\ autoBurn \in BOOLEAN /\ rf \in 0..6 /\ card \in {0, 1, 3, 4, 5}
      /\ present \in Cards \cup {NoCard}
  BY DEF IInv, TypeOK
<1>2. CASE NoCommand
  BY <1>1, <1>2 DEF NoCommand
<1>3. CASE StopBurn
  BY <1>1, <1>3 DEF StopBurn
<1>4. CASE \E known \in BOOLEAN : StartBurn(known)
  BY <1>1, <1>4 DEF StartBurn
<1>5. CASE Gate
  BY <1>1, <1>5 DEF Gate
<1>6. CASE Dispatch
  BY <1>1, <1>6 DEF Dispatch
<1>7. CASE FindCard
  BY <1>1, <1>7 DEF FindCard
<1>8. CASE SelectCard
  BY <1>1, <1>8 DEF SelectCard
<1>9. CASE CardSelected
  BY <1>1, <1>9 DEF CardSelected
<1>10. CASE CardHalt
  BY <1>1, <1>10 DEF CardHalt
<1>11. CASE CardLaunch
  BY <1>1, <1>11 DEF CardLaunch
<1>12. CASE CardLaunched
  BY <1>1, <1>12 DEF CardLaunched
<1>13. QED
  BY <1>2, <1>3, <1>4, <1>5, <1>6, <1>7, <1>8, <1>9, <1>10, <1>11, <1>12 DEF SerialTask, CardTask

LEMMA InterruptControl ==
  ASSUME IInv,
         \/ \E pin \in {0, 1} : SysTick(pin)
         \/ \E f \in Cards \cup {Blank} : RadioFrame(f)
         \/ \E c \in Cards : InsertCard(c)
         \/ RemoveCard \/ Reset
  PROVE  (CardChosen /\ Permission /\ RequestServed)'
<1> USE DEF mainVars, burnVars, boardVars, histVars, IInv, TypeOK, Pcs, BurnPcs,
            CardChosen, Permission, RequestServed, BurnUnderWay, Announcing, SeekingCard
<1>1. CASE \E pin \in {0, 1} : SysTick(pin)
  <2> SUFFICES ASSUME NEW pin \in {0, 1}, SysTick(pin)
               PROVE  (CardChosen /\ Permission /\ RequestServed)'
    BY <1>1
  <2>1. /\ card' = card \/ (card' = 1 /\ armed') \/ (card = 4 /\ card' = 5)
        /\ armed => armed'
        /\ rf' = rf \/ (rf = 2 /\ rf' = 3) \/ (rf = 5 /\ rf' = 6)
    <3> DEFINE low == Expires("system", card) /\ PowerSample(pin) # <<1, 1, 1>>
               cardNow == IF low THEN 1 ELSE card
    <3>1. /\ card' = IF Expires("buzzer", cardNow) THEN 5 ELSE cardNow
          /\ armed' = (armed \/ low)
      BY DEF SysTick
    <3>2. Expires("buzzer", cardNow) => cardNow = 4
      BY DEF Expires, Running
    <3>3. rf' = IF Expires("rf3000", cardNow) THEN 3
                ELSE IF Expires("rf300", cardNow) THEN 6 ELSE rf
      BY DEF SysTick
    <3>4. /\ Expires("rf3000", cardNow) => rf = 2
          /\ Expires("rf300", cardNow) => rf = 5
      BY DEF Expires, Running
    <3>5. armed => armed'
      BY <3>1
    <3>6. card' = card \/ (card' = 1 /\ armed') \/ (card = 4 /\ card' = 5)
      <4>1. cardNow = card \/ (cardNow = 1 /\ low)
        BY Zenon
      <4>2. low => armed'
        BY <3>1, Zenon
      <4>3. card' = cardNow \/ (cardNow = 4 /\ card' = 5)
        BY <3>1, <3>2, Zenon
      <4> HIDE DEF low, cardNow
      <4>4. QED BY <4>1, <4>2, <4>3
    <3>7. rf' = rf \/ (rf = 2 /\ rf' = 3) \/ (rf = 5 /\ rf' = 6)
      BY <3>3, <3>4
    <3>8. QED BY <3>5, <3>6, <3>7
  <2>2. UNCHANGED <<pc, autoBurn, sel, conf>>
    BY DEF SysTick
  <2>3. QED BY <2>1, <2>2
<1>2. CASE \E f \in Cards \cup {Blank} : RadioFrame(f)
  BY <1>2 DEF RadioFrame
<1>3. CASE (\E c \in Cards : InsertCard(c)) \/ RemoveCard
  BY <1>3 DEF InsertCard, RemoveCard
<1>4. CASE Reset
  BY <1>4 DEF Reset
<1>5. QED BY <1>1, <1>2, <1>3, <1>4

-----------------------------------------------------------------------------
(* The tones                                                               *)

LEMMA TonesKept ==
  ASSUME IInv, [Next]_vars
  PROVE  (SilentWhenStopped /\ BeepHasTimer)'
<1> USE DEF mainVars, burnVars, boardVars, histVars, Goto, SilentWhenStopped, BeepHasTimer
<1>1. /\ SilentWhenStopped /\ BeepHasTimer
      /\ pc \in Announcing \cup {"listenOn", "failed"} => autoBurn
      /\ beep \in BOOLEAN /\ autoBurn \in BOOLEAN
  BY DEF IInv, TypeOK, RequestServed, BurnUnderWay
<1>2. CASE BeepOk \/ Failed
  <2>1. autoBurn /\ autoBurn' = autoBurn /\ pc' \in {"flagOk", "flagFail"}
    BY <1>1, <1>2 DEF BeepOk, Failed, Announcing
  <2>2. QED BY <2>1
<1>3. CASE FlagOk \/ FlagFail
  BY <1>1, <1>3 DEF FlagOk, FlagFail
<1>4. CASE StopBurn \/ Reset
  BY <1>4 DEF StopBurn, Reset
<1>5. CASE \E known \in BOOLEAN : StartBurn(known)
  BY <1>1, <1>5 DEF StartBurn
<1>6. CASE \E pin \in {0, 1} : SysTick(pin)
  <2> SUFFICES ASSUME NEW pin \in {0, 1}, SysTick(pin)
               PROVE  (SilentWhenStopped /\ BeepHasTimer)'
    BY <1>6
  <2>1. beep' => beep /\ beepFlag' = beepFlag
    BY DEF SysTick
  <2>2. UNCHANGED <<pc, autoBurn>>
    BY DEF SysTick
  <2>3. QED BY <1>1, <2>1, <2>2
<1>7. ASSUME UNCHANGED <<autoBurn, beep, beepFlag>>, pc \notin {"flagOk", "flagFail"} \/ pc' = pc
      PROVE  (SilentWhenStopped /\ BeepHasTimer)'
  BY <1>1, <1>7
<1>8. CASE Clickers \/ ReadNvm \/ Verify \/ WriteNvm \/ ListenOn \/ ClearTimer
             \/ Receive \/ CheckRssi \/ Show
  BY <1>7, <1>8 DEF Clickers, ReadNvm, Verify, WriteNvm, ListenOn, ClearTimer,
                    Receive, CheckRssi, Show
<1>9. CASE NoCommand \/ CardTask
  BY <1>7, <1>9 DEF NoCommand, CardTask, Gate, Dispatch, FindCard, SelectCard, CardSelected,
                    CardHalt, CardLaunch, CardLaunched
<1>10. CASE \/ \E f \in Cards \cup {Blank} : RadioFrame(f)
            \/ \E c \in Cards : InsertCard(c)
            \/ RemoveCard \/ UNCHANGED vars
  BY <1>7, <1>10 DEF RadioFrame, InsertCard, RemoveCard, vars
<1>11. QED
  BY <1>2, <1>3, <1>4, <1>5, <1>6, <1>8, <1>9, <1>10
     DEF Next, MainLoop, BurnTask, SerialTask

-----------------------------------------------------------------------------
(* The theorems                                                            *)

LEMMA StepIInv == IInv /\ [Next]_vars => IInv'
<1> SUFFICES ASSUME IInv, [Next]_vars
             PROVE  IInv'
  OBVIOUS
<1>1. CASE BurnTask
  BY <1>1, BurnTaskTypes, BurnTaskControl, TonesKept DEF IInv
<1>2. CASE SerialTask \/ CardTask
  BY <1>2, OtherTaskTypes, OtherTaskControl, TonesKept DEF IInv
<1>3. CASE \E pin \in {0, 1} : SysTick(pin)
  BY <1>3, SysTickTypes, InterruptControl, TonesKept DEF IInv
<1>4. CASE \/ \E f \in Cards \cup {Blank} : RadioFrame(f)
           \/ \E c \in Cards : InsertCard(c)
           \/ RemoveCard \/ Reset
  BY <1>4, EnvironmentTypes, InterruptControl, TonesKept DEF IInv
<1>5. CASE UNCHANGED vars
  BY <1>5 DEF IInv, TypeOK, CardChosen, Permission, RequestServed, SilentWhenStopped,
              BeepHasTimer, vars, mainVars, burnVars, boardVars, histVars
<1>6. QED BY <1>1, <1>2, <1>3, <1>4, <1>5 DEF Next, MainLoop

\* Between any two steps a burn is permitted, requested and timed as IInv says.
THEOREM Invariance == Spec => []IInv
  BY InitIInv, StepIInv, PTL DEF Spec

\* Every variable of the burner keeps its type; in particular no software
\* timer passes its timeout unnoticed, though Timer_list_handler only tests
\* for equality, and SPI_RBUF never takes more frames than it holds.
THEOREM TypeCorrect == Spec => []TypeOK
<1>1. IInv => TypeOK
  BY DEF IInv
<1>2. QED BY <1>1, Invariance, PTL

\* After the stop command the buzzer stays silent, see SilentWhenStopped.
THEOREM StoppedIsSilent == Spec => []SilentWhenStopped
<1>1. IInv => SilentWhenStopped
  BY DEF IInv
<1>2. QED BY <1>1, Invariance, PTL

\* Every tone has a timer that ends it, see BeepHasTimer.
THEOREM ToneHasTimer == Spec => []BeepHasTimer
<1>1. IInv => BeepHasTimer
  BY DEF IInv
<1>2. QED BY <1>1, Invariance, PTL

\* Only CardLaunch requests a burn.
LEMMA RequestIsLaunch ==
  ASSUME IInv, [Next]_vars, rf # 1, rf' = 1
  PROVE  pc = "launch"
<1> USE DEF mainVars, burnVars, boardVars, histVars, Goto
<1>1. BurnTask => rf' \in {rf, 0, 2, 3, 4, 5}
  BY DEF BurnTask, Clickers, ReadNvm, Verify, WriteNvm, ListenOn, BeepOk, FlagOk, ClearTimer,
         Failed, FlagFail, Receive, CheckRssi, Show, Report
<1>2. SerialTask => rf' = rf
  BY DEF SerialTask, NoCommand, StopBurn, StartBurn
<1>3. CardTask => rf' = rf \/ pc = "launch"
  BY DEF CardTask, Gate, Dispatch, FindCard, SelectCard, CardSelected, CardHalt, CardLaunch,
         CardLaunched
<1>4. (\E pin \in {0, 1} : SysTick(pin)) => rf' \in {rf, 3, 6}
  BY DEF SysTick
<1>5. Reset => rf' = 0
  BY DEF Reset
<1>6. \/ \E f \in Cards \cup {Blank} : RadioFrame(f)
      \/ \E c \in Cards : InsertCard(c)
      \/ RemoveCard \/ UNCHANGED vars
      => rf' = rf
  BY DEF RadioFrame, InsertCard, RemoveCard, vars
<1>7. QED BY <1>1, <1>2, <1>3, <1>4, <1>5, <1>6 DEF Next, MainLoop

\* No burn without a loss of power or a start command since the last one, see
\* BurnNeedsPowerCycle.
THEOREM OneBurnPerPowerCycle == Spec => BurnNeedsPowerCycle
<1>1. IInv /\ [Next]_vars => [rf # 1 /\ rf' = 1 => armed]_vars
  BY RequestIsLaunch DEF IInv, Permission, SeekingCard
<1>2. QED BY <1>1, Invariance, PTL DEF Spec, BurnNeedsPowerCycle

-----------------------------------------------------------------------------
(* What was heard, and for how long: the report and the window             *)

\* A match is shown as long as it is remembered, anything else heard is a failure.
HeardIsTold ==
  /\ heard = "match" => rf \in 3..6 /\ result = 0 /\ msg = conf
  /\ heard = "other" => rf \in 2..6 /\ result = -1
  /\ pc = "check" => rf \in {2, 3}

\* Once line 62 has cleared it, rf3000 counts the SysTicks of the window.
WindowCounted ==
  rf = 2 /\ pc \notin {"beepOk", "flagOk", "clearTimer"} => window = cnt["rf3000"]

RInv == HeardIsTold /\ WindowCounted

LEMMA InitRInv == Init => RInv
  BY DEF Init, RInv, HeardIsTold, WindowCounted

\* The steps that change nothing of what the listening window depends on, but where
\* the main loop is.
LEMMA WindowUntouched ==
  ASSUME RInv, UNCHANGED <<rf, result, heard, msg, conf, window, cnt>>,
         pc' \notin {"check"}, pc \in {"beepOk", "flagOk", "clearTimer"} =>
                                 pc' \in {"beepOk", "flagOk", "clearTimer"}
  PROVE  RInv'
  BY DEF RInv, HeardIsTold, WindowCounted

LEMMA BurnTaskRInv ==
  ASSUME IInv, RInv, BurnTask
  PROVE  RInv'
<1> USE DEF mainVars, burnVars, boardVars, histVars, Goto
<1>1. rf \in 0..6 /\ (pc \in BurnUnderWay => rf = 1) /\ heard \in {"none", "other", "match"}
  BY DEF IInv, TypeOK, RequestServed
<1>2. CASE Clickers
  <2>1. CASE rf = 1
    BY <1>2, <2>1 DEF Clickers, RInv, HeardIsTold, WindowCounted
  <2>2. CASE rf # 1
    BY <1>2, <2>2 DEF Clickers, RInv, HeardIsTold, WindowCounted
  <2>3. QED BY <2>1, <2>2
<1>3. CASE ReadNvm \/ Verify \/ WriteNvm
  BY <1>3, WindowUntouched DEF ReadNvm, Verify, WriteNvm
<1>4. CASE ListenOn \/ BeepOk \/ FlagOk
  BY <1>4 DEF ListenOn, BeepOk, FlagOk, RInv, HeardIsTold, WindowCounted
<1>5. CASE ClearTimer
  <2>1. cnt'["rf3000"] = 0 /\ window' = 0
    BY <1>5 DEF ClearTimer, IInv, TypeOK, Timers, RadioTimers
  <2>2. QED BY <1>5, <2>1 DEF ClearTimer, RInv, HeardIsTold, WindowCounted
<1>6. CASE Failed
  BY <1>6 DEF Failed, RInv, HeardIsTold, WindowCounted
<1>7. CASE FlagFail
  BY <1>7, WindowUntouched DEF FlagFail
<1>8. CASE Receive
  <2>1. CASE rf = 2 /\ frames # << >>
    BY <1>8, <2>1 DEF Receive, RInv, HeardIsTold, WindowCounted
  <2>2. CASE ~(rf = 2 /\ frames # << >>)
    BY <1>8, <2>2, WindowUntouched DEF Receive
  <2>3. QED BY <2>1, <2>2
<1>9. CASE CheckRssi
  BY <1>9 DEF CheckRssi, RInv, HeardIsTold, WindowCounted
<1>10. CASE Show
  BY <1>1, <1>10 DEF Show, Report, RInv, HeardIsTold, WindowCounted
<1>11. QED
  BY <1>2, <1>3, <1>4, <1>5, <1>6, <1>7, <1>8, <1>9, <1>10 DEF BurnTask

LEMMA OtherTaskRInv ==
  ASSUME IInv, RInv, SerialTask \/ CardTask
  PROVE  RInv'
<1> USE DEF mainVars, burnVars, boardVars, histVars, Goto
<1>1. CASE SerialTask
  BY <1>1, WindowUntouched DEF SerialTask, NoCommand, StopBurn, StartBurn
<1>2. CASE Gate \/ Dispatch \/ SelectCard \/ CardSelected \/ CardHalt \/ CardLaunched
  BY <1>2, WindowUntouched DEF Gate, Dispatch, SelectCard, CardSelected, CardHalt, CardLaunched
<1>3. CASE FindCard
  <2>1. cnt'["rf3000"] = cnt["rf3000"]
    BY <1>3 DEF FindCard, IInv, TypeOK, Timers, RadioTimers
  <2>2. QED BY <1>3, <2>1 DEF FindCard, RInv, HeardIsTold, WindowCounted
<1>4. CASE CardLaunch
  <2>1. rf = 0 /\ heard \in {"none", "other", "match"}
    BY <1>4 DEF CardLaunch, IInv, TypeOK, Permission, SeekingCard
  <2>2. QED BY <1>4, <2>1 DEF CardLaunch, RInv, HeardIsTold, WindowCounted
<1>5. QED BY <1>1, <1>2, <1>3, <1>4 DEF CardTask

\* What a run of the timers does to the status of the radio task and to its window.
LEMMA SysTickRadio ==
  ASSUME IInv, NEW pin \in {0, 1}, SysTick(pin)
  PROVE  /\ UNCHANGED <<pc, result, heard, msg, conf>>
         /\ \/ rf' = rf
            \/ rf = 2 /\ rf' = 3 /\ cnt["rf3000"] + 1 = Timeout["rf3000"]
            \/ rf = 5 /\ rf' = 6
         /\ rf = 2 /\ rf' = 2 => window' = window + 1 /\ cnt'["rf3000"] = cnt["rf3000"] + 1
<1> DEFINE cardNow == IF Expires("system", card) /\ PowerSample(pin) # <<1, 1, 1>> THEN 1 ELSE card
<1>1. UNCHANGED <<pc, result, heard, msg, conf>>
  BY DEF SysTick, burnVars
<1>2. /\ rf' = IF Expires("rf3000", cardNow) THEN 3 ELSE IF Expires("rf300", cardNow) THEN 6 ELSE rf
      /\ cnt' = [t \in Timers |-> IF Expires(t, cardNow) THEN 0
                                  ELSE IF Running(t, cardNow) THEN cnt[t] + 1 ELSE cnt[t]]
      /\ window' = IF Running("rf3000", card) THEN window + 1 ELSE 0
  BY DEF SysTick
<1> HIDE DEF cardNow
<1>3. /\ \A c : Running("rf3000", c) <=> rf = 2
      /\ \A c : Running("rf300", c) <=> rf = 5
  BY DEF Running
<1>4. /\ Expires("rf3000", cardNow) => rf = 2 /\ cnt["rf3000"] + 1 = Timeout["rf3000"]
      /\ Expires("rf300", cardNow) => rf = 5
  BY <1>3 DEF Expires
<1>5. \/ rf' = rf
      \/ rf = 2 /\ rf' = 3 /\ cnt["rf3000"] + 1 = Timeout["rf3000"]
      \/ rf = 5 /\ rf' = 6
  BY <1>2, <1>4
<1>6. ASSUME rf = 2, rf' = 2
      PROVE  window' = window + 1 /\ cnt'["rf3000"] = cnt["rf3000"] + 1
  <2>1. ~Expires("rf3000", cardNow) /\ Running("rf3000", cardNow) /\ Running("rf3000", card)
    BY <1>2, <1>3, <1>6
  <2>2. "rf3000" \in Timers
    BY DEF Timers, RadioTimers
  <2>3. QED BY <1>2, <2>1, <2>2
<1>7. QED BY <1>1, <1>5, <1>6

LEMMA InterruptRInv ==
  ASSUME IInv, RInv,
         \/ \E pin \in {0, 1} : SysTick(pin)
         \/ \E f \in Cards \cup {Blank} : RadioFrame(f)
         \/ \E c \in Cards : InsertCard(c)
         \/ RemoveCard \/ Reset \/ UNCHANGED vars
  PROVE  RInv'
<1> USE DEF mainVars, burnVars, boardVars, histVars
<1>1. CASE \E pin \in {0, 1} : SysTick(pin)
  BY <1>1, SysTickRadio DEF RInv, HeardIsTold, WindowCounted
<1>2. CASE \/ \E f \in Cards \cup {Blank} : RadioFrame(f)
           \/ \E c \in Cards : InsertCard(c)
           \/ RemoveCard \/ UNCHANGED vars
  BY <1>2 DEF RadioFrame, InsertCard, RemoveCard, vars, RInv, HeardIsTold, WindowCounted
<1>3. CASE Reset
  BY <1>3 DEF Reset, RInv, HeardIsTold, WindowCounted
<1>4. QED BY <1>1, <1>2, <1>3

LEMMA StepRInv == IInv /\ RInv /\ [Next]_vars => RInv'
  BY BurnTaskRInv, OtherTaskRInv, InterruptRInv DEF Next, MainLoop

\* What was heard in the window is what the report will rest on.
THEOREM ReportInvariance == Spec => [](IInv /\ RInv)
<1>1. Init => IInv /\ RInv
  BY InitIInv, InitRInv
<1>2. (IInv /\ RInv) /\ [Next]_vars => (IInv /\ RInv)'
  BY StepIInv, StepRInv
<1>3. QED BY <1>1, <1>2, PTL DEF Spec

\* A report that rests on a received frame tells the truth about it, see
\* ReportMatchesHeard.
THEOREM ReportIsTrue == Spec => ReportMatchesHeard
<1>1. ASSUME IInv, RInv
      PROVE  ReportStep /\ heard # "none" => /\ result = 0 <=> heard = "match"
                                             /\ result = 0 => msg = conf
  BY <1>1 DEF IInv, TypeOK, RInv, HeardIsTold
<1>2. QED BY <1>1, ReportInvariance, PTL DEF ReportMatchesHeard

\* Listening without a match lasts the full time of rf3000, see ListenFullWindow.
THEOREM WindowIsFull == Spec => ListenFullWindow
<1> DEFINE Full == rf = 2 /\ rf' = 3 /\ ~MatchStep =>
                     \/ window + 1 = Timeout["rf3000"]
                     \/ pc \in {"beepOk", "flagOk", "clearTimer"}
<1>1. ASSUME IInv, RInv, [Next]_vars PROVE Full
  <2> USE DEF mainVars, burnVars, boardVars, histVars, Goto
  <2> SUFFICES ASSUME rf = 2, rf' = 3, ~MatchStep PROVE Full
    OBVIOUS
  <2>1. pc \notin BurnUnderWay
    BY <1>1 DEF IInv, RequestServed
  <2>2. ~CheckRssi
    BY DEF CheckRssi, MatchStep
  <2>3. ~BurnTask
    BY <2>1, <2>2 DEF BurnTask, Clickers, ReadNvm, Verify, WriteNvm, ListenOn, BeepOk, FlagOk,
         ClearTimer, Failed, FlagFail, Receive, Show, Report, BurnUnderWay
  <2>4. ~SerialTask /\ ~CardTask
    BY DEF SerialTask, NoCommand, StopBurn, StartBurn, CardTask, Gate, Dispatch, FindCard,
         SelectCard, CardSelected, CardHalt, CardLaunch, CardLaunched
  <2>5. CASE \E pin \in {0, 1} : SysTick(pin)
    BY <1>1, <2>5, SysTickRadio DEF RInv, WindowCounted
  <2>6. CASE \/ \E f \in Cards \cup {Blank} : RadioFrame(f)
             \/ \E c \in Cards : InsertCard(c)
             \/ RemoveCard \/ Reset \/ UNCHANGED vars
    BY <2>6 DEF RadioFrame, InsertCard, RemoveCard, Reset, vars
  <2>7. QED BY <1>1, <2>3, <2>4, <2>5, <2>6 DEF Next, MainLoop
<1>2. QED BY <1>1, ReportInvariance, PTL DEF Spec, ListenFullWindow

-----------------------------------------------------------------------------
(* Whose identity is burned                                                *)

\* The power samples that were high since the last low one, up to three.
Highs == IF io[3] = 0 THEN 0 ELSE IF io[2] = 0 THEN 1 ELSE IF io[1] = 0 THEN 2 ELSE 3

\* The card x has not been exchanged since the last look, or that took more samples
\* than a pass of the main loop: those without a card and the high ones after them.
Held(x) ==
  \/ present = x
  \/ present = NoCard /\ absent <= lag
  \/ lag >= MinAbsent + Highs

\* The main loop looks at the flag often enough, and the flag shows an empty fixture.
LooksInTime ==
  /\ lag <= MinAbsent + 2
  /\ pc \notin {"read", "verify"} => lag <= PassLag
  /\ present = NoCard /\ absent > 0 => io[3] = 0

\* The card status remembers a card only until the first low sample without it that
\* the main loop does not overwrite.
CardWaits ==
  /\ card \in {3, 4, 5} => present = sel \/ (present = NoCard /\ absent < MinAbsent)
  /\ pc \in {"find", "select", "selected"} => card = 1

\* From its selection to the end of the burn the card is held.
CardHeld ==
  /\ \/ pc \in {"selected", "halt", "launch", "launched"}
     \/ pc = "clickers" /\ rf = 1
     \/ pc = "dispatch" /\ card \in {3, 4, 5}
     => Held(sel)
  /\ pc \in {"read", "verify", "write"} => Held(conf)

HInv == LooksInTime /\ CardWaits /\ CardHeld /\ OnlyOwnIdentity

USE ExchangeAssumption

LEMMA InitHInv == Init => HInv
  BY DEF Init, HInv, LooksInTime, CardWaits, CardHeld, OnlyOwnIdentity

\* When the power is on, an empty fixture was emptied after the last sample.
LEMMA PowerOnFacts ==
  ASSUME IInv, HInv, PowerOn
  PROVE  Highs = 3 /\ (present = NoCard => absent = 0)
<1>1. io[1] = 1 /\ io[2] = 1 /\ io[3] = 1
  BY DEF PowerOn
<1>2. absent \in 0..MinAbsent
  BY DEF IInv, TypeOK
<1>3. QED BY <1>1, <1>2 DEF Highs, HInv, LooksInTime

\* Outside the reading of the NVM no card can have been exchanged since the last look.
LEMMA NotExchanged ==
  ASSUME IInv, HInv, NEW x, Held(x), pc \notin {"read", "verify"}
  PROVE  present = x \/ (present = NoCard /\ absent < MinAbsent)
<1>1. Highs \in 0..3 /\ lag \in Nat /\ absent \in 0..MinAbsent /\ lag <= PassLag
  BY DEF IInv, TypeOK, HInv, LooksInTime, Highs
<1>2. QED BY <1>1 DEF Held

\* Steps that leave the cards, the samples and what is to be burned alone.
LEMMA HoldingUntouched ==
  ASSUME HInv, UNCHANGED <<io, lag, absent, present, nvm, sel, conf>>,
         pc \in {"read", "verify"} => pc' \in {"read", "verify"},
         card' = card \/ card' \notin {3, 4, 5},
         pc' \in {"find", "select", "selected"} => card' = 1,
         \/ pc' \in {"selected", "halt", "launch", "launched"}
         \/ pc' = "clickers" /\ rf' = 1
         \/ pc' = "dispatch" /\ card' \in {3, 4, 5}
         => \/ pc \in {"selected", "halt", "launch", "launched"}
            \/ pc = "clickers" /\ rf = 1
            \/ pc = "dispatch" /\ card \in {3, 4, 5},
         pc' \in {"read", "verify", "write"} => pc \in {"read", "verify", "write"}
  PROVE  HInv'
<1>1. Highs' = Highs /\ (\A x : Held(x) => Held(x)')
  BY DEF Highs, Held
<1>2. LooksInTime' /\ OnlyOwnIdentity'
  BY DEF HInv, LooksInTime, OnlyOwnIdentity
<1>3. CardWaits'
  BY DEF HInv, CardWaits
<1>4. CardHeld'
  BY <1>1 DEF HInv, CardHeld, Held, Highs
<1>5. QED BY <1>2, <1>3, <1>4 DEF HInv

LEMMA BurnTaskHInv ==
  ASSUME IInv, HInv, BurnTask
  PROVE  HInv'
<1> USE DEF mainVars, burnVars, boardVars, histVars, Goto
<1>1. /\ rf = 1 => pc \in BurnUnderWay \cup {"launched", "clickers"}
      /\ pc \in BurnUnderWay => conf \in Cards
      /\ lag \in Nat /\ absent \in 0..MinAbsent
  BY DEF IInv, TypeOK, RequestServed, CardChosen
<1>2. CASE Clickers
  <2>1. CASE rf = 1
    <3>1. Held(sel) /\ pc = "clickers"
      BY <1>2, <2>1 DEF Clickers, HInv, CardHeld
    <3>2. /\ UNCHANGED <<rf, card, io, lag, absent, present, nvm, sel>>
          /\ pc' = "read" /\ conf' = sel
      BY <1>2, <2>1 DEF Clickers
    <3>3. Held(conf)'
      BY <3>1, <3>2 DEF Held, Highs
    <3>4. QED BY <3>1, <3>2, <3>3 DEF HInv, LooksInTime, CardWaits, CardHeld, OnlyOwnIdentity
  <2>2. CASE rf # 1
    BY <1>2, <2>2, HoldingUntouched DEF Clickers
  <2>3. QED BY <2>1, <2>2
<1>3. CASE ReadNvm
  BY <1>3, HoldingUntouched DEF ReadNvm
<1>4. CASE Verify
  <2>1. /\ UNCHANGED <<rf, card, io, absent, present, nvm, sel, conf>> /\ lag' = 0
        /\ pc = "verify"
        /\ pc' \in {"failed", "listenOn"} \/ (pc' = "write" /\ PowerOn)
    BY <1>4 DEF Verify
  <2>2. pc' = "write" => Held(conf)'
    <3> SUFFICES ASSUME PowerOn PROVE present = conf \/ (present = NoCard /\ absent <= 0)
      BY <2>1 DEF Held
    <3>1. Highs = 3 /\ (present = NoCard => absent = 0)
      BY PowerOnFacts
    <3>2. Held(conf) /\ lag <= MinAbsent + 2
      BY <2>1 DEF HInv, CardHeld, LooksInTime
    <3>3. QED BY <1>1, <3>1, <3>2 DEF Held
  <2>3. QED BY <1>1, <2>1, <2>2 DEF HInv, LooksInTime, CardWaits, CardHeld, OnlyOwnIdentity
<1>5. CASE WriteNvm
  <2>1. /\ UNCHANGED <<rf, card, io, absent, present, sel, conf>> /\ pc = "write"
        /\ (pc' = "read" /\ lag' = lag) \/ (pc' = "failed" /\ lag' = 0)
        /\ \/ nvm' = nvm
           \/ /\ present # NoCard
              /\ \E v \in {conf, Blank} : nvm' = [nvm EXCEPT ![present] = v]
    BY <1>5 DEF WriteNvm
  <2>2. Held(conf)
    BY <2>1 DEF HInv, CardHeld
  <2>3. OnlyOwnIdentity'
    <3>1. present = NoCard \/ present = conf
      BY <2>1, <2>2, NotExchanged
    <3>2. nvm \in [Cards -> Cards \cup {Blank}]
      BY DEF IInv, TypeOK
    <3>3. QED BY <2>1, <3>1, <3>2 DEF HInv, OnlyOwnIdentity
  <2>4. pc' = "read" => Held(conf)'
    BY <2>1, <2>2 DEF Held, Highs
  <2>5. QED BY <1>1, <2>1, <2>3, <2>4 DEF HInv, LooksInTime, CardWaits, CardHeld
<1>6. CASE ListenOn \/ BeepOk \/ FlagOk \/ ClearTimer \/ Failed \/ FlagFail
  BY <1>6, HoldingUntouched DEF ListenOn, BeepOk, FlagOk, ClearTimer, Failed, FlagFail
<1>7. CASE Receive \/ CheckRssi \/ Show
  BY <1>7, HoldingUntouched DEF Receive, CheckRssi, Show
<1>8. QED BY <1>2, <1>3, <1>4, <1>5, <1>6, <1>7 DEF BurnTask

LEMMA OtherTaskHInv ==
  ASSUME IInv, HInv, SerialTask \/ CardTask
  PROVE  HInv'
<1> USE DEF mainVars, burnVars, boardVars, histVars, Goto
<1>1. /\ rf = 1 => pc \in BurnUnderWay \cup {"launched", "clickers"}
      /\ lag \in Nat /\ absent \in 0..MinAbsent
  BY DEF IInv, TypeOK, RequestServed
<1>2. CASE SerialTask
  BY <1>2, HoldingUntouched DEF SerialTask, NoCommand, StopBurn, StartBurn
<1>3. CASE Gate
  <2>1. /\ UNCHANGED <<rf, card, io, absent, present, nvm, sel, conf>> /\ lag' = 0
        /\ pc = "gate" /\ (pc' = "clickers" \/ (pc' = "dispatch" /\ PowerOn))
    BY <1>3 DEF Gate
  <2>2. pc' = "dispatch" /\ card \in {3, 4, 5} => Held(sel)'
    <3> SUFFICES ASSUME PowerOn, card \in {3, 4, 5}
                 PROVE  present = sel \/ (present = NoCard /\ absent <= 0)
      BY <2>1 DEF Held
    <3>1. QED BY PowerOnFacts DEF HInv, CardWaits
  <2>3. rf # 1
    BY <1>1, <2>1 DEF BurnUnderWay
  <2>4. QED BY <1>1, <2>1, <2>2, <2>3 DEF HInv, LooksInTime, CardWaits, CardHeld, OnlyOwnIdentity
<1>4. CASE Dispatch
  <2>1. rf # 1
    BY <1>1, <1>4 DEF Dispatch, BurnUnderWay
  <2>2. QED BY <1>4, <2>1, HoldingUntouched DEF Dispatch
<1>5. CASE FindCard
  <2>1. rf # 1 /\ card = 1
    BY <1>1, <1>5 DEF FindCard, BurnUnderWay, HInv, CardWaits
  <2>2. QED BY <1>5, <2>1, HoldingUntouched DEF FindCard
<1>6. CASE SelectCard
  <2>1. rf # 1 /\ card = 1
    BY <1>1, <1>6 DEF SelectCard, BurnUnderWay, HInv, CardWaits
  <2>2. /\ UNCHANGED <<rf, card, io, lag, absent, present, nvm, conf>> /\ pc = "select"
        /\ pc' = "clickers" \/ (pc' = "selected" /\ sel' = present)
    BY <1>6 DEF SelectCard
  <2>3. QED BY <2>1, <2>2 DEF HInv, LooksInTime, CardWaits, CardHeld, OnlyOwnIdentity, Held
<1>7. CASE CardSelected \/ CardHalt
  <2>1. /\ UNCHANGED <<rf, io, lag, absent, present, nvm, sel, conf>>
        /\ pc \in {"selected", "halt"} /\ pc' = "clickers"
    BY <1>7 DEF CardSelected, CardHalt
  <2>2. rf # 1
    BY <1>1, <2>1 DEF BurnUnderWay
  <2>3. present = sel \/ (present = NoCard /\ absent < MinAbsent)
    BY <2>1, NotExchanged DEF HInv, CardHeld
  <2>4. QED BY <2>1, <2>2, <2>3 DEF HInv, LooksInTime, CardWaits, CardHeld, OnlyOwnIdentity
<1>8. CASE CardLaunch \/ CardLaunched
  BY <1>8, HoldingUntouched DEF CardLaunch, CardLaunched
<1>9. QED BY <1>2, <1>3, <1>4, <1>5, <1>6, <1>7, <1>8 DEF CardTask

\* What a run of the timers does to the samples and to the card status.
LEMMA SysTickSamples ==
  ASSUME IInv, HInv, NEW pin \in {0, 1}, SysTick(pin)
  PROVE  /\ UNCHANGED <<pc, present, nvm, sel, conf>>
         /\ rf' = 1 => rf = 1
         /\ \/ UNCHANGED <<io, lag, absent>> /\ (card' \in {3, 4, 5} => card \in {3, 4, 5})
            \/ /\ lag' = lag + 1 /\ Highs' <= Highs + 1
               /\ lag < IF pc \in {"read", "verify"} THEN ReadLag ELSE PassLag
               /\ io'[3] = 0 => card' = 1
               /\ card' \in {3, 4, 5} => card \in {3, 4, 5}
               /\ present = NoCard => io'[3] = 0 /\ absent' <= absent + 1
               /\ present # NoCard => absent' = absent
         /\ card = 1 => card' = 1
<1> DEFINE sampling == Expires("system", card)
           low == sampling /\ PowerSample(pin) # <<1, 1, 1>>
           cardNow == IF low THEN 1 ELSE card
<1>1. /\ UNCHANGED <<pc, present, nvm, sel, conf>>
      /\ sampling => lag < IF pc \in {"read", "verify"} THEN ReadLag ELSE PassLag
      /\ pin = 1 => present # NoCard
      /\ io' = IF sampling THEN PowerSample(pin) ELSE io
      /\ card' = IF Expires("buzzer", cardNow) THEN 5 ELSE cardNow
      /\ rf' = IF Expires("rf3000", cardNow) THEN 3
               ELSE IF Expires("rf300", cardNow) THEN 6 ELSE rf
      /\ lag' = IF sampling THEN lag + 1 ELSE lag
      /\ absent' = IF sampling /\ present = NoCard /\ absent < MinAbsent
                   THEN absent + 1 ELSE absent
  BY DEF SysTick, burnVars
<1>2. Expires("buzzer", cardNow) => cardNow = 4
  BY DEF Expires, Running
<1>3. low => cardNow = 1
  BY Zenon
<1>4. ~low => cardNow = card
  BY Zenon
<1>5. absent \in 0..MinAbsent
  BY DEF IInv, TypeOK
<1>6. CASE sampling
  <2>1. io' = <<io[2], io[3], pin>> /\ io \in {0, 1} \X {0, 1} \X {0, 1}
    BY <1>1, <1>6 DEF PowerSample, IInv, TypeOK
  <2>2. Highs' <= Highs + 1 /\ io'[3] = pin
    BY <2>1 DEF Highs
  <2>3. pin = 0 => low
    BY <1>6 DEF PowerSample
  <2> HIDE DEF low, cardNow, sampling
  <2>4. card' = 1 \/ card' = cardNow \/ (cardNow = 4 /\ card' = 5)
    BY <1>1, <1>2
  <2>5. /\ pin = 0 => card' = 1
        /\ card' \in {3, 4, 5} => card \in {3, 4, 5}
        /\ card = 1 => card' = 1
    BY <1>1, <1>2, <1>3, <1>4, <2>3
  <2>6. QED BY <1>1, <1>5, <1>6, <2>2, <2>5
<1>7. CASE ~sampling
  <2>1. ~low
    BY <1>7
  <2> HIDE DEF low, cardNow, sampling
  <2>2. QED BY <1>1, <1>2, <1>4, <1>7, <2>1
<1>8. QED BY <1>6, <1>7

LEMMA InterruptHInv ==
  ASSUME IInv, HInv,
         \/ \E pin \in {0, 1} : SysTick(pin)
         \/ \E f \in Cards \cup {Blank} : RadioFrame(f)
         \/ \E c \in Cards : InsertCard(c)
         \/ RemoveCard \/ Reset \/ UNCHANGED vars
  PROVE  HInv'
<1> USE DEF mainVars, burnVars, boardVars, histVars
<1>1. /\ lag \in Nat /\ absent \in 0..MinAbsent /\ Highs \in 0..3 /\ io \in {0, 1} \X {0, 1} \X {0, 1}
      /\ present \in Cards \cup {NoCard} /\ nvm \in [Cards -> Cards \cup {Blank}]
  BY DEF IInv, TypeOK, Highs
<1>2. CASE \E pin \in {0, 1} : SysTick(pin)
  <2> PICK pin \in {0, 1} : SysTick(pin)
    BY <1>2
  <2>1. CASE UNCHANGED <<io, lag, absent>> /\ (card' \in {3, 4, 5} => card \in {3, 4, 5})
    <3>1. \A x : Held(x) => (present = x \/ (present = NoCard /\ absent' <= lag')
                             \/ lag' >= MinAbsent + Highs')
      BY <2>1 DEF Held, Highs
    <3>2. QED BY <2>1, <3>1, SysTickSamples
                 DEF HInv, LooksInTime, CardWaits, CardHeld, OnlyOwnIdentity, Held
  <2>2. CASE /\ lag' = lag + 1 /\ Highs' <= Highs + 1
             /\ lag < IF pc \in {"read", "verify"} THEN ReadLag ELSE PassLag
             /\ io'[3] = 0 => card' = 1
             /\ card' \in {3, 4, 5} => card \in {3, 4, 5}
             /\ present = NoCard => io'[3] = 0 /\ absent' <= absent + 1
             /\ present # NoCard => absent' = absent
    <3>1. Highs' \in Nat /\ absent' \in Nat
      <4>1. TypeOK'
        BY SysTickTypes DEF IInv
      <4>2. QED BY <4>1 DEF TypeOK, Highs
    <3>2. \A x : Held(x) => (present = x \/ (present = NoCard /\ absent' <= lag')
                             \/ lag' >= MinAbsent + Highs')
      <4> SUFFICES ASSUME NEW x, Held(x)
                   PROVE  \/ present = x \/ (present = NoCard /\ absent' <= lag')
                          \/ lag' >= MinAbsent + Highs'
        OBVIOUS
      <4>1. lag' = lag + 1 /\ Highs' <= Highs + 1 /\ (present = NoCard => absent' <= absent + 1)
        BY <2>2
      <4>2. CASE present = NoCard /\ absent <= lag
        <5>1. absent' <= absent + 1
          BY <4>1, <4>2
        <5>2. absent' <= lag'
          BY <1>1, <3>1, <4>1, <4>2, <5>1
        <5>3. QED BY <4>2, <5>2
      <4>3. CASE lag >= MinAbsent + Highs
        <5> DEFINE h == Highs  hNew == Highs'
        <5>1. lag \in Nat /\ h \in Nat /\ hNew \in Nat /\ MinAbsent \in Nat
          BY <1>1, <3>1
        <5>2. lag' = lag + 1 /\ hNew <= h + 1 /\ lag >= MinAbsent + h
          BY <4>1, <4>3
        <5> HIDE DEF h, hNew
        <5>3. lag' >= MinAbsent + hNew
          BY <5>1, <5>2
        <5>4. QED BY <5>3 DEF hNew
      <4>4. QED BY <4>2, <4>3 DEF Held
    <3>3. LooksInTime'
      BY <1>1, <2>2, SysTickSamples DEF HInv, LooksInTime
    <3>4. CardWaits'
      BY <1>1, <2>2, SysTickSamples DEF HInv, CardWaits
    <3>5. CardHeld'
      BY <2>2, <3>2, SysTickSamples DEF HInv, CardHeld, Held
    <3>6. OnlyOwnIdentity'
      BY SysTickSamples DEF HInv, OnlyOwnIdentity
    <3>7. QED BY <3>3, <3>4, <3>5, <3>6 DEF HInv
  <2>3. QED BY <2>1, <2>2, SysTickSamples
<1>3. CASE \E f \in Cards \cup {Blank} : RadioFrame(f)
  BY <1>3, HoldingUntouched DEF RadioFrame, HInv, CardWaits
<1>4. CASE \E c \in Cards : InsertCard(c)
  <2>1. /\ UNCHANGED <<pc, rf, card, io, lag, absent, nvm, sel, conf>>
        /\ present = NoCard /\ absent = MinAbsent /\ present' \in Cards
    BY <1>4 DEF InsertCard
  <2>2. io[3] = 0 /\ Highs = 0 /\ Highs' = Highs
    BY <2>1 DEF HInv, LooksInTime, Highs
  <2>3. \A x : Held(x) => x = NoCard \/ lag' >= MinAbsent + Highs'
    BY <1>1, <2>1, <2>2 DEF Held
  <2>4. CardHeld'
    <3>1. /\ pc \in {"selected", "halt", "launch", "launched"} \/ rf = 1
             \/ (pc = "dispatch" /\ card \in {3, 4, 5})
             => sel # NoCard
          /\ pc \in {"read", "verify", "write"} => conf # NoCard
      BY DEF IInv, CardChosen, BurnUnderWay
    <3>2. QED BY <2>1, <2>3, <3>1 DEF HInv, CardHeld, Held
  <2>5. CardWaits'
    <3>1. card \in {3, 4, 5} => sel # NoCard
      BY DEF IInv, CardChosen
    <3>2. QED BY <2>1, <3>1 DEF HInv, CardWaits
  <2>6. LooksInTime' /\ OnlyOwnIdentity'
    BY <2>1 DEF HInv, LooksInTime, OnlyOwnIdentity
  <2>7. QED BY <2>4, <2>5, <2>6 DEF HInv
<1>5. CASE RemoveCard
  <2>1. /\ UNCHANGED <<pc, rf, card, io, lag, nvm, sel, conf>>
        /\ present' = NoCard /\ absent' = 0
    BY <1>5 DEF RemoveCard
  <2>2. \A x : Held(x)'
    BY <1>1, <2>1 DEF Held
  <2>3. QED BY <1>1, <2>1, <2>2 DEF HInv, LooksInTime, CardWaits, CardHeld, OnlyOwnIdentity, Held
<1>6. CASE Reset
  <2>1. OnlyOwnIdentity'
    BY <1>1, <1>6 DEF Reset, HInv, OnlyOwnIdentity
  <2>2. /\ pc' = "clickers" /\ rf' = 0 /\ card' = 0 /\ lag' = 0 /\ io' = <<0, 0, 0>>
    BY <1>6 DEF Reset
  <2>3. QED BY <2>1, <2>2 DEF HInv, LooksInTime, CardWaits, CardHeld
<1>7. CASE UNCHANGED vars
  BY <1>7, HoldingUntouched DEF vars, HInv, CardWaits
<1>8. QED BY <1>2, <1>3, <1>4, <1>5, <1>6, <1>7

LEMMA StepHInv == IInv /\ HInv /\ [Next]_vars => HInv'
  BY BurnTaskHInv, OtherTaskHInv, InterruptHInv DEF Next, MainLoop

\* No card ever gets the identity of another one, see OnlyOwnIdentity.
THEOREM OwnIdentity == Spec => []OnlyOwnIdentity
<1>1. Init => IInv /\ HInv
  BY InitIInv, InitHInv
<1>2. (IInv /\ HInv) /\ [Next]_vars => (IInv /\ HInv)'
  BY StepIInv, StepHInv
<1>3. IInv /\ HInv => OnlyOwnIdentity
  BY DEF HInv
<1>4. QED BY <1>1, <1>2, <1>3, PTL DEF Spec

-----------------------------------------------------------------------------
(* The burner implements BurnCycle                                         *)

LEMMA PhaseFacts ==
  /\ rf = 0 => Phase = "idle"
  /\ rf = 1 => Phase = "burning"
  /\ rf = 2 => Phase = "listening"
  /\ rf \in 3..6 => Phase = "showing"
  BY DEF Phase

LEMMA PhaseNextFacts ==
  /\ rf' = 0 => Phase' = "idle"
  /\ rf' = 1 => Phase' = "burning"
  /\ rf' = 2 => Phase' = "listening"
  /\ rf' \in 3..6 => Phase' = "showing"
  /\ rf' = rf => Phase' = Phase
  BY DEF Phase

\* Each step of the burner, told by the two variables the cycle sees.
LEMMA CycleSteps ==
  ASSUME IInv, RInv, [Next]_vars
  PROVE  \/ rf' = rf /\ armed' \in {armed, TRUE}
         \/ rf = 0 /\ rf' = 1 /\ armed /\ armed' = FALSE
         \/ rf = 1 /\ rf' \in {2, 3} /\ armed' = armed
         \/ rf = 2 /\ rf' = 3 /\ armed' \in {armed, TRUE}
         \/ rf = 5 /\ rf' = 6 /\ armed' \in {armed, TRUE}
         \/ rf \in 3..6 /\ rf' \in 3..6 /\ armed' = armed
         \/ rf = 4 /\ rf' = 0 /\ armed' = armed
         \/ rf' = 0 /\ armed' = FALSE
<1> USE DEF mainVars, burnVars, boardVars, histVars, Goto
<1>1. armed \in BOOLEAN /\ rf \in 0..6
  BY DEF IInv, TypeOK
<1>2. CASE Clickers \/ ReadNvm \/ Verify \/ WriteNvm \/ BeepOk \/ FlagOk \/ ClearTimer
           \/ FlagFail \/ Receive
  BY <1>2 DEF Clickers, ReadNvm, Verify, WriteNvm, BeepOk, FlagOk, ClearTimer, FlagFail, Receive
<1>3. CASE ListenOn \/ Failed
  BY <1>3 DEF ListenOn, Failed, IInv, RequestServed, BurnUnderWay
<1>4. CASE CheckRssi
  BY <1>4 DEF CheckRssi, RInv, HeardIsTold
<1>5. CASE Show
  BY <1>1, <1>5 DEF Show, Report
<1>6. CASE SerialTask
  BY <1>1, <1>6 DEF SerialTask, NoCommand, StopBurn, StartBurn
<1>7. CASE CardLaunch
  BY <1>7 DEF CardLaunch, IInv, Permission, SeekingCard
<1>8. CASE Gate \/ Dispatch \/ FindCard \/ SelectCard \/ CardSelected \/ CardHalt \/ CardLaunched
  BY <1>8 DEF Gate, Dispatch, FindCard, SelectCard, CardSelected, CardHalt, CardLaunched
<1>9. CASE \E pin \in {0, 1} : SysTick(pin)
  <2> PICK pin \in {0, 1} : SysTick(pin)
    BY <1>9
  <2>1. armed' \in {armed, TRUE}
    BY <1>1 DEF SysTick
  <2>2. QED BY <2>1, SysTickRadio
<1>10. CASE \/ \E f \in Cards \cup {Blank} : RadioFrame(f)
            \/ \E c \in Cards : InsertCard(c)
            \/ RemoveCard \/ UNCHANGED vars
  BY <1>10 DEF RadioFrame, InsertCard, RemoveCard, vars
<1>11. CASE Reset
  BY <1>11 DEF Reset
<1>12. QED
  BY <1>2, <1>3, <1>4, <1>5, <1>6, <1>7, <1>8, <1>9, <1>10, <1>11
     DEF Next, MainLoop, BurnTask, CardTask

LEMMA StepCycle ==
  ASSUME IInv, RInv, [Next]_vars
  PROVE  [Cycle!Next]_(Cycle!cycle)
<1> USE DEF Cycle!Next, Cycle!cycle
<1>1. CASE rf' = rf /\ armed' \in {armed, TRUE}
  <2>1. Phase' = Phase
    BY <1>1, PhaseNextFacts
  <2>2. QED BY <1>1, <2>1 DEF Cycle!Arm
<1>2. CASE rf = 0 /\ rf' = 1 /\ armed /\ armed' = FALSE
  <2>1. Phase = "idle" /\ Phase' = "burning"
    BY <1>2, PhaseFacts, PhaseNextFacts
  <2>2. QED BY <1>2, <2>1 DEF Cycle!Burn
<1>3. CASE rf = 1 /\ rf' \in {2, 3} /\ armed' = armed
  <2>1. Phase = "burning" /\ Phase' \in {"listening", "showing"}
    BY <1>3, PhaseFacts, PhaseNextFacts
  <2>2. QED BY <1>3, <2>1 DEF Cycle!Burned, Cycle!Rejected
<1>4. CASE rf = 2 /\ rf' = 3 /\ armed' \in {armed, TRUE}
  <2>1. Phase = "listening" /\ Phase' = "showing"
    BY <1>4, PhaseFacts, PhaseNextFacts
  <2>2. QED BY <1>4, <2>1 DEF Cycle!Listened
<1>5. CASE rf = 5 /\ rf' = 6 /\ armed' \in {armed, TRUE}
  <2>1. Phase = "showing" /\ Phase' = "showing"
    BY <1>5, PhaseFacts, PhaseNextFacts
  <2>2. QED BY <1>5, <2>1 DEF Cycle!Arm
<1>6. CASE rf \in 3..6 /\ rf' \in 3..6 /\ armed' = armed
  <2>1. Phase = "showing" /\ Phase' = "showing"
    BY <1>6, PhaseFacts, PhaseNextFacts
  <2>2. QED BY <1>6, <2>1
<1>7. CASE rf = 4 /\ rf' = 0 /\ armed' = armed
  <2>1. Phase = "showing" /\ Phase' = "idle"
    BY <1>7, PhaseFacts, PhaseNextFacts
  <2>2. QED BY <1>7, <2>1 DEF Cycle!Reported
<1>8. CASE rf' = 0 /\ armed' = FALSE
  <2>1. Phase' = "idle"
    BY <1>8, PhaseNextFacts
  <2>2. QED BY <1>8, <2>1 DEF Cycle!Restart
<1>9. QED BY <1>1, <1>2, <1>3, <1>4, <1>5, <1>6, <1>7, <1>8, CycleSteps

\* The main loop, its timers and its interrupts keep the promise of BurnCycle: one
\* burn per permission, and a report before the next, see CycleSpec.
THEOREM CycleKept == Spec => CycleSpec
<1>1. Init => Cycle!Init
  BY PhaseFacts DEF Init, Cycle!Init
<1>2. IInv /\ RInv /\ [Next]_vars => [Cycle!Next]_(Cycle!cycle)
  BY StepCycle
<1>3. QED BY <1>1, <1>2, ReportInvariance, PTL DEF Spec, CycleSpec, Cycle!Spec
=============================================================================

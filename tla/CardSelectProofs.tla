-------------------------- MODULE CardSelectProofs --------------------------
(***************************************************************************)
(* The identity that is burned is that of one card, for every set of cards, *)
(* of long and of short numbers and of prefixes, and any number of faults.  *)
(***************************************************************************)
EXTENDS CardSelect, FiniteSetTheorems, TLAPS

USE CardAssumption, BoundAssumption

\* A pass runs through its exchanges while a card is sought and none is burned.
PassState ==
  /\ pc \in Exchanges => status = 1 /\ ~busy
  /\ pc \in {"halt", "launch"} => ~busy
  /\ busy => pc = "idle"
  /\ pc \in {"anticoll2", "select2"} => uidLen = 8

\* The cards that answered the request and still take part all have numbers of the
\* length it announced, unless the request misled.
LengthIsRight ==
  ~misled /\ pc \in {"anticoll1", "select1"} =>
    \A c \in Cards : st[c] = "ready1" => (c \in Double <=> uidLen = 8)

\* Wherever the identity is going to be used it is that of the card chosen.
IdentityHeld ==
  busy \/ status \in {3, 4, 5} \/ pc \in {"halt", "launch"} => misled \/ chosen = {Identity}

IInv == TypeOK /\ PassState /\ LengthIsRight /\ IdentityHeld

LEMMA InitIInv == Init => IInv
<1> SUFFICES ASSUME Init PROVE IInv
  OBVIOUS
<1>1. TypeOK
  <2>1. snr \in Numbers \X Numbers
    BY DEF Init, Numbers
  <2>2. faults \in 0..MaxFaults /\ chosen \subseteq Cards
    BY DEF Init
  <2>3. st \in [Cards -> {"out", "idle", "ready1", "ready2", "active"}]
    BY DEF Init
  <2>4. status \in {0, 1, 3, 4, 5} /\ findOk \in 0..2 /\ uidLen \in {0, 4, 8}
        /\ pc \in {"idle", "halt", "launch"} \cup Exchanges /\ busy \in BOOLEAN /\ misled \in BOOLEAN
    <3>1. status = 0 /\ findOk = 0 /\ uidLen = 0
      BY DEF Init
    <3>2. status \in {0, 1, 3, 4, 5} /\ findOk \in 0..2 /\ uidLen \in {0, 4, 8}
      BY <3>1, SMT
    <3>3. QED BY <3>2, Zenon DEF Init
  <2>5. QED BY <2>1, <2>2, <2>3, <2>4 DEF TypeOK
<1>2. PassState /\ LengthIsRight /\ IdentityHeld
  BY DEF Init, PassState, LengthIsRight, IdentityHeld, Exchanges
<1>3. QED BY <1>1, <1>2 DEF IInv

-----------------------------------------------------------------------------
(* Exchanges                                                               *)

\* An answer that is received comes from some card.
LEMMA SomeoneAnswers ==
  ASSUME NEW f, Received(f)
  PROVE  Answering(f) # {} /\ Answers(f) # {} /\ f.answer # "noise"
<1>1. Answers(f) # {} /\ f.answer # "noise"
  BY FS_EmptySet DEF Received
<1>2. QED BY <1>1 DEF Answers

\* What an exchange leaves of the state of a card.
LEMMA ExchangeFacts ==
  ASSUME TypeOK, NEW f \in Faults, Exchange(f), pc \in Exchanges
  PROVE  /\ faults' \in 0..MaxFaults
         /\ st' \in [Cards -> {"out", "idle", "ready1", "ready2", "active"}]
         /\ Answering(f) \subseteq Cards
         /\ \A c \in Cards : st'[c] = "ready1" /\ st[c] # "ready1" =>
              pc = "request" /\ c \in Answering(f)
         /\ \A c \in Cards : pc = "request" /\ st'[c] = "ready1" /\ c \notin Answering(f) =>
              c \in f.deaf
<1>1. faults' \in 0..MaxFaults
  BY DEF TypeOK, Exchange
<1>2. Answering(f) \subseteq InField /\ InField \subseteq Cards
  BY DEF Answering, InField
<1>3. /\ st' = [c \in Cards |-> IF c \in Answering(f) THEN Becomes(c)
                               ELSE IF c \in InField \ f.deaf THEN "idle" ELSE st[c]]
      /\ \A c \in Cards : st[c] \in {"out", "idle", "ready1", "ready2", "active"}
  BY DEF Exchange, TypeOK
<1>4. \A c \in Cards :
        /\ Becomes(c) \in {"out", "idle", "ready1", "ready2", "active"}
        /\ Becomes(c) = "ready1" => pc = "request" \/ st[c] = "ready1"
  BY <1>3 DEF Becomes
<1>5. \A c \in Cards : c \notin Answering(f) /\ st'[c] = "ready1" => st[c] = "ready1"
  BY <1>3
<1>6. \A c \in Cards : c \notin InField => st[c] = "out"
  BY DEF InField
<1>7. \A c \in Cards : c \notin Answering(f) /\ st'[c] = "ready1" => c \in f.deaf
  BY <1>3, <1>6
<1>8. QED BY <1>1, <1>2, <1>3, <1>4, <1>5, <1>7

\* The size bit and the cascade bit are those of all cards that answer.
LEMMA BitOfAll ==
  ASSUME NEW f \in Faults, Received(f), f.answer # "wrong", pc \in {"request", "select1"}
  PROVE  \A c \in Answering(f) : c \in Double <=> Bit(f)
<1>1. \A c \in Answering(f) : Answer(c) = (c \in Double)
  BY DEF Answer
<1>2. \A b \in Answers(f) : b = TRUE \/ b = FALSE
  <2>1. \A c : (c \in Double) \in BOOLEAN
    OBVIOUS
  <2>2. \A c \in Answering(f) : Answer(c) \in BOOLEAN
    BY <1>1, <2>1, Zenon
  <2>3. \A b \in Answers(f) : b \in BOOLEAN
    BY <2>2, Zenon DEF Answers
  <2>4. QED BY <2>3, SMT
<1>3. \A c \in Answering(f) : (c \in Double) \in Answers(f)
  BY <1>1, Zenon DEF Answers
<1>4. ~(TRUE \in Answers(f) /\ FALSE \in Answers(f))
  <2> SUFFICES ASSUME TRUE \in Answers(f), FALSE \in Answers(f)
               PROVE  FALSE
    OBVIOUS
  <2>1. Answers(f) = {TRUE} \cup {FALSE}
    BY <1>2, Zenon
  <2>2. Cardinality({TRUE} \cup {FALSE}) = 2
    <3>1. IsFiniteSet({TRUE}) /\ Cardinality({TRUE}) = 1 /\ FALSE \notin {TRUE}
      BY FS_Singleton
    <3>2. Cardinality({TRUE} \cup {FALSE})
            = IF FALSE \in {TRUE} THEN Cardinality({TRUE}) ELSE Cardinality({TRUE}) + 1
      BY <3>1, FS_AddElement, Zenon
    <3>3. Cardinality({TRUE} \cup {FALSE}) = 1 + 1
      BY <3>1, <3>2, Zenon
    <3>4. QED BY <3>3, SMT
  <2>3. QED BY <2>1, <2>2 DEF Received
<1>5. Bit(f) <=> TRUE \in Answers(f)
  BY Zenon DEF Bit
<1>6. ASSUME NEW c \in Answering(f), c \in Double PROVE Bit(f)
  <2>1. (c \in Double) = TRUE
    BY <1>6, Zenon
  <2>2. QED BY <1>3, <1>5, <2>1, Zenon
<1>7. ASSUME NEW c \in Answering(f), c \notin Double PROVE ~Bit(f)
  <2>1. (c \in Double) = FALSE
    BY <1>7, SMT
  <2>2. QED BY <1>3, <1>4, <1>5, <2>1, Zenon
<1>8. QED BY <1>6, <1>7, Zenon

-----------------------------------------------------------------------------
(* The steps of a pass                                                     *)

\* An exchange that fails ends the pass.
LEMMA GivenUp ==
  ASSUME IInv, NEW f \in Faults, Exchange(f), pc \in Exchanges, GiveUp
  PROVE  IInv'
<1>1. TypeOK'
  BY ExchangeFacts DEF IInv, TypeOK, GiveUp, readerVars
<1>2. (PassState /\ LengthIsRight /\ IdentityHeld)'
  BY DEF IInv, PassState, LengthIsRight, IdentityHeld, Identity, GiveUp, readerVars, Exchanges
<1>3. QED BY <1>1, <1>2 DEF IInv

LEMMA RequestStep ==
  ASSUME IInv, Request
  PROVE  IInv'
<1>1. PICK f \in Faults :
        /\ Exchange(f)
        /\ \/ GiveUp
           \/ /\ Received(f) /\ ~SecondFind
              /\ pc' = "anticoll1" /\ findOk' = 0 /\ uidLen' = Length(f)
              /\ chosen' = {} /\ misled' = (f.answer = "wrong" \/ f.deaf # {})
              /\ UNCHANGED <<status, snr, busy>>
  BY DEF Request
<1>2. pc = "request" /\ pc \in Exchanges
  BY DEF Request, Exchanges
<1>3. CASE GiveUp
  BY <1>1, <1>2, <1>3, GivenUp
<1>4. CASE ~GiveUp
  <2>1. /\ Received(f) /\ pc' = "anticoll1" /\ findOk' = 0 /\ uidLen' = Length(f)
        /\ chosen' = {} /\ misled' = (f.answer = "wrong" \/ f.deaf # {})
        /\ UNCHANGED <<status, snr, busy>>
    BY <1>1, <1>4
  <2>2. TypeOK'
    <3>1. uidLen' \in {0, 4, 8}
      BY <2>1 DEF Length
    <3>2. misled' \in BOOLEAN
      BY <2>1
    <3>3. QED BY <1>1, <1>2, <2>1, <3>1, <3>2, ExchangeFacts DEF IInv, TypeOK, Exchanges
  <2>3. LengthIsRight'
    <3> SUFFICES ASSUME f.answer # "wrong", f.deaf = {}, NEW c \in Cards, st'[c] = "ready1"
                 PROVE  c \in Double <=> uidLen' = 8
      BY <2>1 DEF LengthIsRight
    <3>1. c \in Answering(f)
      BY <1>1, <1>2, ExchangeFacts DEF IInv
    <3>2. c \in Double <=> Bit(f)
      BY <1>2, <2>1, <3>1, BitOfAll
    <3>3. QED BY <2>1, <3>2 DEF Length
  <2>4. PassState' /\ IdentityHeld'
    BY <1>2, <2>1 DEF IInv, PassState, IdentityHeld, Exchanges
  <2>5. QED BY <2>2, <2>3, <2>4 DEF IInv
<1>5. QED BY <1>3, <1>4

\* What a card answers to an anticollision is a number there is.
LEMMA NumberType ==
  ASSUME TypeOK, NEW f \in Faults, Received(f), pc \in {"anticoll1", "anticoll2"}
  PROVE  Number(f) \in Numbers
<1>1. \A c \in Cards : Answer(c) \in Numbers
  BY DEF Answer, First, Numbers, Prefixes
<1>2. Answering(f) \subseteq Cards
  BY DEF Answering, InField
<1>3. Answers(f) \subseteq Numbers
  BY <1>1, <1>2 DEF Answers
<1>4. (CHOOSE n \in Answers(f) : TRUE) \in Answers(f)
  BY SomeoneAnswers
<1>5. QED BY <1>3, <1>4 DEF Number, Numbers

LEMMA AnticollStep ==
  ASSUME IInv,
         NEW from, NEW to, NEW i \in {1, 2}, Anticoll(from, to, i),
         \/ from = "anticoll1" /\ to = "select1" /\ i = 1
         \/ from = "anticoll2" /\ to = "select2" /\ i = 2
  PROVE  IInv'
<1>1. PICK f \in Faults :
        /\ Exchange(f)
        /\ \/ GiveUp
           \/ /\ Received(f)
              /\ pc' = to /\ snr' = [snr EXCEPT ![i] = Number(f)]
              /\ UNCHANGED <<status, findOk, uidLen, busy, chosen, misled>>
  BY DEF Anticoll
<1>2. pc = from /\ pc \in {"anticoll1", "anticoll2"} /\ pc \in Exchanges
  BY DEF Anticoll, Exchanges
<1>3. CASE GiveUp
  BY <1>1, <1>2, <1>3, GivenUp
<1>4. CASE ~GiveUp
  <2>1. /\ Received(f) /\ pc' = to /\ snr' = [snr EXCEPT ![i] = Number(f)]
        /\ UNCHANGED <<status, findOk, uidLen, busy, chosen, misled>>
    BY <1>1, <1>4
  <2>2. snr' \in Numbers \X Numbers
    <3>1. Number(f) \in Numbers
      BY <1>2, <2>1, NumberType DEF IInv
    <3>2. snr \in Numbers \X Numbers
      BY DEF IInv, TypeOK
    <3>3. QED BY <2>1, <3>1, <3>2
  <2>3. TypeOK'
    BY <1>1, <1>2, <2>1, <2>2, ExchangeFacts DEF IInv, TypeOK, Exchanges
  <2>4. LengthIsRight'
    <3>1. pc' \in {"anticoll1", "select1"} => pc = "anticoll1"
      BY <1>2, <2>1
    <3>2. \A c \in Cards : st'[c] = "ready1" => st[c] = "ready1"
      BY <1>1, <1>2, ExchangeFacts DEF IInv
    <3>3. QED BY <2>1, <3>1, <3>2 DEF IInv, LengthIsRight
  <2>5. PassState' /\ IdentityHeld'
    BY <1>2, <2>1 DEF IInv, PassState, IdentityHeld, Exchanges
  <2>6. QED BY <2>3, <2>4, <2>5 DEF IInv
<1>5. QED BY <1>3, <1>4

\* The pass ends with a card when exactly one card can have answered.
LEMMA FoundStep ==
  ASSUME IInv, NEW f \in Faults, Exchange(f), pc \in {"select1", "select2"}, Found(f),
         misled' \in BOOLEAN, ~misled' => Answering(f) = {Identity}
  PROVE  IInv'
<1>1. pc \in Exchanges
  BY DEF Exchanges
<1>2. TypeOK'
  BY <1>1, ExchangeFacts DEF IInv, TypeOK, Found
<1>3. Identity' = Identity
  BY DEF Found, Identity
<1>4. (PassState /\ LengthIsRight /\ IdentityHeld)'
  BY <1>1, <1>3 DEF IInv, PassState, LengthIsRight, IdentityHeld, Found, Exchanges
<1>5. QED BY <1>2, <1>4 DEF IInv

LEMMA Select1Step ==
  ASSUME IInv, Select1
  PROVE  IInv'
<1>1. PICK f \in Faults :
        /\ Exchange(f)
        /\ \/ GiveUp
           \/ /\ Received(f)
              /\ misled' = (misled \/ f.answer = "wrong")
              /\ IF uidLen = 8 /\ Bit(f)
                 THEN pc' = "anticoll2" /\ UNCHANGED <<readerVars, chosen>>
                 ELSE Found(f)
  BY DEF Select1
<1>2. pc = "select1" /\ pc \in Exchanges
  BY DEF Select1, Exchanges
<1>3. CASE GiveUp
  BY <1>1, <1>2, <1>3, GivenUp
<1>4. CASE ~GiveUp
  <2>1. Received(f) /\ misled' = (misled \/ f.answer = "wrong")
    BY <1>1, <1>4
  <2>2. CASE uidLen = 8 /\ Bit(f)
    <3>1. pc' = "anticoll2" /\ UNCHANGED <<readerVars, chosen>>
      BY <1>1, <1>4, <2>2
    <3>2. TypeOK'
      BY <1>1, <1>2, <2>1, <3>1, ExchangeFacts DEF IInv, TypeOK, readerVars, Exchanges
    <3>3. (PassState /\ LengthIsRight /\ IdentityHeld)'
      BY <1>2, <2>1, <2>2, <3>1
         DEF IInv, PassState, LengthIsRight, IdentityHeld, readerVars, Exchanges
    <3>4. QED BY <3>2, <3>3 DEF IInv
  <2>3. CASE ~(uidLen = 8 /\ Bit(f))
    <3>1. Found(f)
      BY <1>1, <1>4, <2>3
    <3>2. ~misled' => Answering(f) = {Identity}
      <4> SUFFICES ASSUME ~misled, f.answer # "wrong"
                   PROVE  Answering(f) = {Identity}
        BY <2>1
      <4>1. \A c \in Answering(f) : c \in Cards /\ st[c] = "ready1" /\ First(c) = snr[1]
        BY <1>2 DEF Answering, InField
      <4>2. \A c \in Answering(f) : c \in Double <=> uidLen = 8
        BY <1>2, <4>1 DEF IInv, LengthIsRight
      <4>3. \A c \in Answering(f) : c \in Double <=> Bit(f)
        BY <1>2, <2>1, BitOfAll
      <4>4. \A c \in Answering(f) : c \notin Double /\ uidLen # 8
        BY <2>3, <4>2, <4>3
      <4>5. \A c \in Answering(f) : c = Identity
        BY <4>1, <4>4 DEF First, Identity
      <4>6. QED BY <2>1, <4>5, SomeoneAnswers
    <3>3. QED BY <1>1, <1>2, <2>1, <3>1, <3>2, FoundStep
  <2>4. QED BY <2>2, <2>3
<1>5. QED BY <1>3, <1>4

LEMMA Select2Step ==
  ASSUME IInv, Select2
  PROVE  IInv'
<1>1. PICK f \in Faults : Exchange(f) /\ (GiveUp \/ (Received(f) /\ Found(f) /\ misled' = misled))
  BY DEF Select2
<1>2. pc = "select2" /\ pc \in Exchanges
  BY DEF Select2, Exchanges
<1>3. CASE GiveUp
  BY <1>1, <1>2, <1>3, GivenUp
<1>4. CASE ~GiveUp
  <2>1. Received(f) /\ Found(f) /\ misled' = misled
    BY <1>1, <1>4
  <2>2. \A c \in Answering(f) : c = Identity
    BY <1>2 DEF IInv, PassState, Answering, Identity
  <2>3. Answering(f) = {Identity}
    BY <2>1, <2>2, SomeoneAnswers
  <2>4. QED BY <1>1, <1>2, <2>1, <2>3, FoundStep DEF IInv, TypeOK
<1>5. QED BY <1>3, <1>4

\* The steps that exchange nothing.
LEMMA QuietStep ==
  ASSUME IInv, \/ Dispatch \/ Halt \/ Launch
               \/ Permit \/ Stop \/ BuzzerExpires \/ SecondFindExpires \/ BurnOver
               \/ \E c \in Cards : Come(c) \/ Go(c)
               \/ UNCHANGED vars
  PROVE  IInv'
<1> USE DEF readerVars, Exchanges, PassState, LengthIsRight, IdentityHeld
<1>1. Identity' = Identity
  BY DEF Identity, Dispatch, Halt, Launch, Permit, Stop, BuzzerExpires, SecondFindExpires,
         BurnOver, Come, Go, vars
<1>2. CASE Dispatch
  BY <1>1, <1>2 DEF IInv, TypeOK, Dispatch
<1>3. CASE Halt
  BY <1>1, <1>3 DEF IInv, TypeOK, Halt, FieldOff
<1>4. CASE Launch
  BY <1>1, <1>4 DEF IInv, TypeOK, Launch
<1>5. CASE Permit
  BY <1>1, <1>5 DEF IInv, TypeOK, Permit
<1>6. CASE Stop
  BY <1>1, <1>6 DEF IInv, TypeOK, Stop, FieldOff
<1>7. CASE BuzzerExpires
  BY <1>1, <1>7 DEF IInv, TypeOK, BuzzerExpires
<1>8. CASE SecondFindExpires
  BY <1>1, <1>8 DEF IInv, TypeOK, SecondFindExpires
<1>9. CASE BurnOver
  BY <1>1, <1>9 DEF IInv, TypeOK, BurnOver
<1>10. CASE \E c \in Cards : Come(c) \/ Go(c)
  BY <1>1, <1>10 DEF IInv, TypeOK, Come, Go
<1>11. CASE UNCHANGED vars
  BY <1>1, <1>11 DEF IInv, TypeOK, vars
<1>12. QED
  BY <1>2, <1>3, <1>4, <1>5, <1>6, <1>7, <1>8, <1>9, <1>10, <1>11

-----------------------------------------------------------------------------
(* The theorems                                                            *)

LEMMA StepIInv == IInv /\ [Next]_vars => IInv'
  BY RequestStep, AnticollStep, Select1Step, Select2Step, QuietStep DEF Next, Pass

\* The cards that may still answer and the identity assembled fit together, at every exchange.
THEOREM Invariance == Spec => []IInv
  BY InitIInv, StepIInv, PTL DEF Spec

\* The reader's variables and the states of the cards keep their types; in
\* particular what lies in g_cSNR is always a number.
THEOREM TypeCorrect == Spec => []TypeOK
<1>1. IInv => TypeOK
  BY DEF IInv
<1>2. QED BY <1>1, Invariance, PTL

\* The identity that is burned is that of the one card selected last, see
\* IdentityIsWhole.
THEOREM IdentityOfOneCard == Spec => []IdentityIsWhole
<1>1. IInv => IdentityIsWhole
  BY DEF IInv, IdentityHeld, IdentityIsWhole
<1>2. QED BY <1>1, Invariance, PTL
=============================================================================

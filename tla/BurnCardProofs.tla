--------------------------- MODULE BurnCardProofs ---------------------------
(***************************************************************************)
(* What a call of the burn protocol promises, for every program limit, every *)
(* retry limit of at least two, and any number of start commands and losses *)
(* of contact.                                                             *)
(***************************************************************************)
EXTENDS BurnCard, TLAPS

USE ConstantAssumption

\* The call programs with the radio words of a start command, reads back in one
\* part of the loop only, and has returned when it has a result.
CallState ==
  /\ pc # "idle" => txbuf = "set" /\ want \in Periods
  /\ pc = "idle" => retry = 0
  /\ result # 1 => pc = "idle"
  /\ rd => pc \in {"readCount", "compare"} /\ Matches
  /\ ~dipped => power

\* A chip in a programming session holds every word that was written in it.
SessionState ==
  /\ session => pc \in WordSet /\ power /\ sound
  /\ session /\ pc # "config" => torn /\ nvm["config"] = "set"
  /\ session /\ pc \in {"period", "number"} => nvm["radio"] = "set"
  /\ session /\ pc = "number" => nvm["period"] = want

\* A card on which no programming was left half done is new or has its radio words.
WholeCard ==
  ~torn => \/ nvm["number"] = "blank"
           \/ nvm["config"] = "set" /\ nvm["radio"] = "set"

\* A word 0 that is blank is one of a card never programmed.
BlankCard == nvm["config"] = "blank" => nvm["number"] = "blank"

\* Where contact was kept, what the call knows of the card is true: a sound chip
\* holds the data after the first write, and is written only if it did not.
Knowledge ==
  ~dipped =>
    /\ pc \in {"readCount", "compare"} /\ Matches => rd
    /\ pc \in {"compare", "unlock", "config"} => worn < Full
    /\ pc \in {"unlock", "config"} => ~Matches
    /\ sound /\ pc = "readData" /\ retry > 0 => Matches
    /\ sound /\ pc \in {"readCount", "compare"} /\ retry > 0 => rd
    /\ sound /\ pc \in {"unlock"} \cup WordSet => retry = 0
    /\ sound /\ pc \in WordSet => session

IInv ==
  /\ TypeOK /\ CallState /\ SessionState /\ WholeCard /\ BlankCard /\ Knowledge
  /\ SuccessIsWhole /\ FailureIsReal

\* The program limit, the word after each, and what a word is set to.
LEMMA WordFacts ==
  /\ DOMAIN Words = 1..4 /\ Len(Words) = 4
  /\ Words[1] = "config" /\ Words[2] = "radio" /\ Words[3] = "period" /\ Words[4] = "number"
  /\ WordSet = {"config", "radio", "period", "number"}
  /\ Value("config") = txbuf /\ Value("radio") = txbuf
  /\ Value("period") = want /\ Value("number") = "own"
<1>1. /\ DOMAIN Words = 1..4 /\ Len(Words) = 4
      /\ Words[1] = "config" /\ Words[2] = "radio" /\ Words[3] = "period" /\ Words[4] = "number"
  BY DEF Words
<1>2. WordSet = {"config", "radio", "period", "number"}
  <2>1. \A i \in 1..4 : i = 1 \/ i = 2 \/ i = 3 \/ i = 4
    OBVIOUS
  <2>2. QED BY <1>1, <2>1 DEF WordSet
<1>3. QED BY <1>1, <1>2 DEF Value

LEMMA MatchesFacts == Matches <=> nvm["period"] = want /\ nvm["number"] = "own"
  BY WordFacts DEF Matches, DataWords

LEMMA InitIInv == Init => IInv
<1> SUFFICES ASSUME Init PROVE IInv
  OBVIOUS
<1>1. nvm \in Contents
  BY DEF Init, Contents
<1>2. \A w \in WordSet : nvm[w] = "blank"
  BY DEF Init
<1>3. TypeOK
  <2>1. retry \in 0..LastRetry /\ worn \in 0..Full + 1 /\ starts \in 0..MaxStarts /\ dips \in 0..MaxDips
    BY DEF Init
  <2>2. result \in {0, -1, -2, -3, 1}
    BY DEF Init
  <2>3. QED BY <1>1, <2>1, <2>2 DEF Init, TypeOK, Pcs
<1>4. CallState /\ SessionState /\ WholeCard /\ BlankCard /\ Knowledge
  BY <1>2, WordFacts DEF Init, CallState, SessionState, WholeCard, BlankCard, Knowledge
<1>5. SuccessIsWhole /\ FailureIsReal
  BY DEF Init, SuccessIsWhole, FailureIsReal
<1>6. QED BY <1>3, <1>4, <1>5 DEF IInv

\* A step outside the chip: nothing that the properties say of the card changes.
LEMMA StartStep ==
  ASSUME IInv, NEW p \in Periods, Start(p)
  PROVE  IInv'
<1> USE DEF callVars, cardVars
<1>1. Matches' <=> Matches
  BY DEF Start, Matches, DataWords, Value
<1>2. TypeOK'
  BY DEF IInv, TypeOK, Start
<1>3. (CallState /\ SessionState /\ WholeCard /\ BlankCard /\ Knowledge)'
  BY <1>1 DEF IInv, Start, CallState, SessionState, WholeCard, BlankCard, Knowledge
<1>4. (SuccessIsWhole /\ FailureIsReal)'
  BY DEF IInv, Start, SuccessIsWhole, FailureIsReal
<1>5. QED BY <1>2, <1>3, <1>4 DEF IInv

LEMMA SynchroniseStep ==
  ASSUME IInv, Synchronise
  PROVE  IInv'
<1> USE DEF cardVars
<1>1. TypeOK'
  BY DEF IInv, TypeOK, Synchronise, Pcs
<1>2. retry = 0 /\ ~rd /\ ~session /\ rtc \in Periods
  BY WordFacts DEF IInv, TypeOK, CallState, SessionState, Synchronise
<1>3. (CallState /\ SessionState /\ WholeCard /\ BlankCard /\ Knowledge)'
  BY <1>2, WordFacts DEF IInv, Synchronise, CallState, SessionState, WholeCard, BlankCard, Knowledge
<1>4. (SuccessIsWhole /\ FailureIsReal)'
  BY DEF IInv, Synchronise, SuccessIsWhole, FailureIsReal
<1>5. QED BY <1>1, <1>3, <1>4 DEF IInv

LEMMA Returned ==
  ASSUME NEW r \in {0, -1, -2, -3}, Return(r)
  PROVE  pc' = "idle" /\ retry' \in 0..LastRetry /\ rd' = FALSE /\ result' \in {0, -1, -2, -3, 1}
  BY DEF Return

LEMMA ReadStep ==
  ASSUME IInv, ReadData \/ ReadCount \/ Compare
  PROVE  IInv'
<1> USE DEF cardVars, Return
<1>1. Matches' <=> Matches
  BY WordFacts, MatchesFacts DEF ReadData, ReadCount, Compare, Matches, DataWords, Value
<1>2. ~session /\ worn \in Nat /\ 0 \in 0..LastRetry
  <2>1. pc \notin WordSet
    BY WordFacts DEF ReadData, ReadCount, Compare
  <2>2. QED BY <2>1 DEF IInv, TypeOK, SessionState
<1>3. CASE ReadData
  <2>1. TypeOK'
    BY <1>3 DEF IInv, TypeOK, ReadData, Pcs
  <2>2. (CallState /\ SessionState /\ WholeCard /\ BlankCard /\ Knowledge)'
    BY <1>1, <1>2, <1>3, WordFacts
       DEF IInv, TypeOK, ReadData, CallState, SessionState, WholeCard, BlankCard, Knowledge
  <2>3. (SuccessIsWhole /\ FailureIsReal)'
    BY <1>3 DEF IInv, ReadData, SuccessIsWhole, FailureIsReal
  <2>4. QED BY <2>1, <2>2, <2>3 DEF IInv
<1>4. CASE ReadCount
  <2>1. TypeOK'
    BY <1>2, <1>4, Returned DEF IInv, TypeOK, ReadCount, Pcs
  <2>2. (CallState /\ SessionState /\ WholeCard /\ BlankCard /\ Knowledge)'
    BY <1>1, <1>2, <1>4, WordFacts
       DEF IInv, TypeOK, ReadCount, CallState, SessionState, WholeCard, BlankCard, Knowledge
  <2>3. (SuccessIsWhole /\ FailureIsReal)'
    <3>1. result = 1 /\ (~dipped => power) /\ dipped' = dipped /\ worn' = worn
      BY <1>4 DEF IInv, CallState, ReadCount
    <3>2. result' # 0
      BY <3>1, <1>4 DEF ReadCount
    <3>3. ~dipped => result' = 1 \/ worn >= Full
      <4> SUFFICES ASSUME ~dipped PROVE result' = 1 \/ worn >= Full
        OBVIOUS
      <4>1. \/ worn > Full \/ worn = Full
            \/ UNCHANGED <<rd, retry, result>>
        BY <1>4, <3>1 DEF ReadCount
      <4>2. QED BY <1>2, <3>1, <4>1
    <3>4. QED BY <3>1, <3>2, <3>3 DEF SuccessIsWhole, FailureIsReal
  <2>4. QED BY <2>1, <2>2, <2>3 DEF IInv
<1>5. CASE Compare
  <2>1. TypeOK'
    BY <1>2, <1>5, Returned DEF IInv, TypeOK, Compare, Pcs
  <2>2. (CallState /\ SessionState /\ WholeCard /\ BlankCard /\ Knowledge)'
    BY <1>1, <1>2, <1>5, WordFacts
       DEF IInv, TypeOK, Compare, CallState, SessionState, WholeCard, BlankCard, Knowledge
  <2>3. (SuccessIsWhole /\ FailureIsReal)'
    BY <1>5, MatchesFacts
       DEF IInv, TypeOK, CallState, WholeCard, Compare, SuccessIsWhole, FailureIsReal
  <2>4. QED BY <2>1, <2>2, <2>3 DEF IInv
<1>6. QED BY <1>3, <1>4, <1>5

LEMMA UnlockStep ==
  ASSUME IInv, Unlock
  PROVE  IInv'
<1> USE DEF callVars
<1>1. /\ nvm \in Contents /\ nvm' \in Contents
      /\ nvm'["radio"] = nvm["radio"] /\ nvm'["period"] = nvm["period"]
      /\ nvm'["number"] = nvm["number"]
  BY WordFacts DEF IInv, TypeOK, Unlock, Contents
<1>2. Matches' <=> Matches
  BY <1>1, MatchesFacts DEF Unlock, Matches, DataWords, Value
<1>3. TypeOK'
  BY <1>1, WordFacts DEF IInv, TypeOK, Unlock, Pcs
<1>4. ~session /\ result = 1
  BY WordFacts DEF IInv, SessionState, CallState, Unlock
<1>5. nvm' = nvm \/ (nvm'["config"] = "open" /\ torn')
  BY WordFacts DEF IInv, TypeOK, Unlock, Contents
<1>6. (CallState /\ SessionState /\ Knowledge)'
  BY <1>2, <1>4, WordFacts DEF IInv, TypeOK, Unlock, CallState, SessionState, Knowledge
<1>7. (WholeCard /\ BlankCard)'
  BY <1>1, <1>5, WordFacts DEF IInv, Unlock, WholeCard, BlankCard
<1>8. (SuccessIsWhole /\ FailureIsReal)'
  BY <1>4 DEF Unlock, SuccessIsWhole, FailureIsReal
<1>9. QED BY <1>3, <1>6, <1>7, <1>8 DEF IInv

\* One programmed word, and what the chip then holds.
LEMMA WordStep ==
  ASSUME IInv, WriteWord, NEW i \in 1..4, pc = Words[i]
  PROVE  /\ nvm'  = IF session THEN [nvm EXCEPT ![Words[i]] = Value(Words[i])] ELSE nvm
         /\ worn' = IF session /\ i = 1 /\ worn <= Full THEN worn + 1 ELSE worn
         /\ torn' = IF session THEN i < 4 ELSE torn
         /\ i < 4 => /\ pc' = Words[i + 1] /\ session' = session
                     /\ UNCHANGED <<rd, retry, result>>
         /\ i = 4 => session' = FALSE /\ AfterWrite
         /\ UNCHANGED <<txbuf, rtc, want, sound, power, dipped, starts, dips>>
<1>1. \A j \in 1..4 : pc = Words[j] => j = i
  <2>1. \A j \in 1..4 : j = 1 \/ j = 2 \/ j = 3 \/ j = 4
    OBVIOUS
  <2>2. QED BY <2>1, WordFacts
<1>2. PICK j \in 1..4 :
         /\ pc = Words[j]
         /\ nvm'  = IF session THEN [nvm EXCEPT ![Words[j]] = Value(Words[j])] ELSE nvm
         /\ worn' = IF session /\ j = 1 /\ worn <= Full THEN worn + 1 ELSE worn
         /\ torn' = IF session THEN j < Len(Words) ELSE torn
         /\ IF j < Len(Words)
            THEN /\ pc' = Words[j + 1] /\ session' = session
                 /\ UNCHANGED <<rd, retry, result>>
            ELSE session' = FALSE /\ AfterWrite
  BY WordFacts DEF WriteWord
<1>3. j = i
  BY <1>1, <1>2
<1>4. Len(Words) = 4
  BY WordFacts
<1>5. UNCHANGED <<txbuf, rtc, want, sound, power, dipped, starts, dips>>
  BY DEF WriteWord
<1>6. QED BY <1>2, <1>3, <1>4, <1>5

LEMMA WriteTypes ==
  ASSUME IInv, WriteWord
  PROVE  TypeOK'
<1>1. PICK i \in 1..4 : pc = Words[i]
  BY WordFacts DEF WriteWord
<1>2. nvm' \in Contents
  <2>1. Words[i] \in WordSet /\ Value(Words[i]) \in {"blank", "open", "boot", "set", "own"} \cup Periods
    <3>1. want \in Periods /\ txbuf \in {"boot", "set"}
      BY <1>1, WordFacts DEF IInv, TypeOK, CallState
    <3>2. i = 1 \/ i = 2 \/ i = 3 \/ i = 4
      OBVIOUS
    <3>3. QED BY <3>1, <3>2, WordFacts
  <2>2. nvm' = IF session THEN [nvm EXCEPT ![Words[i]] = Value(Words[i])] ELSE nvm
    BY <1>1, WordStep, Zenon
  <2>3. nvm \in Contents
    BY DEF IInv, TypeOK
  <2>4. QED BY <2>1, <2>2, <2>3 DEF Contents
<1>3. worn' \in 0..Full + 1 /\ torn' \in BOOLEAN /\ session' \in BOOLEAN
  <2>1. worn \in 0..Full + 1 /\ torn \in BOOLEAN /\ session \in BOOLEAN /\ Full \in Nat
    BY DEF IInv, TypeOK
  <2>2. worn' = worn \/ (worn <= Full /\ worn' = worn + 1)
    BY <1>1, WordStep
  <2>3. torn' \in BOOLEAN
    <3>1. torn' = IF session THEN i < 4 ELSE torn
      BY <1>1, WordStep
    <3>2. (i < 4) \in BOOLEAN
      BY SMT
    <3>3. QED BY <2>1, <3>1, <3>2, Zenon
  <2>4. session' \in BOOLEAN
    <3>1. i < 4 \/ i = 4
      OBVIOUS
    <3>2. CASE i < 4
      BY <1>1, <2>1, <3>2, WordStep
    <3>3. CASE i = 4
      BY <1>1, <3>3, WordStep
    <3>4. QED BY <3>1, <3>2, <3>3
  <2>5. worn' \in 0..Full + 1
    BY <2>1, <2>2
  <2>6. QED BY <2>3, <2>4, <2>5
<1>4. /\ UNCHANGED <<txbuf, rtc, want, sound, power, dipped, starts, dips>>
      /\ i < 4 => pc' = Words[i + 1] /\ UNCHANGED <<rd, retry, result>>
      /\ i = 4 => AfterWrite
  BY <1>1, WordStep
<1>5. CASE i < 4
  <2>1. Words[i + 1] \in WordSet
    BY <1>5, WordFacts DEF WordSet
  <2>2. QED BY <1>2, <1>3, <1>4, <1>5, <2>1 DEF IInv, TypeOK, Pcs
<1>6. CASE i = 4
  <2>1. retry \in 0..LastRetry /\ LastRetry \in Nat
    BY DEF IInv, TypeOK
  <2>2. \/ Return(-1)
        \/ pc' = "readData" /\ retry' \in 0..LastRetry /\ UNCHANGED <<rd, result>>
    BY <1>4, <1>6, <2>1 DEF AfterWrite
  <2>3. /\ pc' \in Pcs /\ retry' \in 0..LastRetry /\ rd' \in BOOLEAN
        /\ result' \in {0, -1, -2, -3, 1}
    BY <2>2, Returned DEF IInv, TypeOK, Pcs
  <2>4. QED BY <1>2, <1>3, <1>4, <2>3 DEF IInv, TypeOK
<1>7. QED BY <1>5, <1>6

LEMMA WriteStep ==
  ASSUME IInv, WriteWord
  PROVE  IInv'
<1>1. PICK i \in 1..4 : pc = Words[i]
  BY WordFacts DEF WriteWord
<1>2. TypeOK'
  BY WriteTypes
<1>3. /\ pc \in WordSet /\ i \in 1..4 /\ result = 1 /\ ~rd /\ txbuf = "set" /\ want \in Periods
      /\ nvm \in Contents /\ session \in BOOLEAN /\ worn \in Nat /\ Full \in Nat
  BY <1>1, WordFacts DEF IInv, TypeOK, CallState, WordSet
<1>4. /\ worn' = IF session /\ i = 1 /\ worn <= Full THEN worn + 1 ELSE worn
      /\ torn' = IF session THEN i < 4 ELSE torn
      /\ i < 4 => pc' = Words[i + 1] /\ session' = session /\ UNCHANGED <<rd, retry, result>>
      /\ i = 4 => session' = FALSE /\ AfterWrite
      /\ UNCHANGED <<txbuf, rtc, want, sound, power, dipped, starts, dips>>
  BY <1>1, WordStep
<1>5. /\ ~session => nvm' = nvm
      /\ session => nvm' = [nvm EXCEPT ![Words[i]] = Value(Words[i])]
  BY <1>1, WordStep
<1>6. CASE i = 1
  <2>1. pc = "config" /\ pc' = "radio" /\ Words[1] = "config" /\ Value("config") = "set"
    BY <1>1, <1>3, <1>4, <1>6, WordFacts
  <2>2. /\ session => nvm'["config"] = "set" /\ torn'
        /\ nvm'["number"] = nvm["number"] /\ nvm'["period"] = nvm["period"]
    BY <1>3, <1>4, <1>5, <1>6, <2>1, WordFacts DEF Contents
  <2>3. CallState' /\ SessionState'
    BY <1>3, <1>4, <1>6, <2>1, <2>2, WordFacts DEF IInv, CallState, SessionState
  <2>4. WholeCard' /\ BlankCard'
    BY <1>4, <1>5, <1>6, <2>2 DEF IInv, WholeCard, BlankCard
  <2>5. Knowledge'
    BY <1>3, <1>4, <1>6, <2>1, WordFacts DEF IInv, Knowledge
  <2>6. SuccessIsWhole' /\ FailureIsReal'
    BY <1>3, <1>4, <1>6 DEF SuccessIsWhole, FailureIsReal
  <2>7. QED BY <1>2, <2>3, <2>4, <2>5, <2>6 DEF IInv
<1>7. CASE i = 2
  <2>1. pc = "radio" /\ pc' = "period" /\ Words[2] = "radio" /\ Value("radio") = "set"
    BY <1>1, <1>3, <1>4, <1>7, WordFacts
  <2>2. /\ session => nvm'["radio"] = "set" /\ torn'
        /\ nvm'["config"] = nvm["config"] /\ nvm'["number"] = nvm["number"]
        /\ nvm'["period"] = nvm["period"]
    BY <1>3, <1>4, <1>5, <1>7, <2>1, WordFacts DEF Contents
  <2>3. CallState' /\ SessionState'
    BY <1>3, <1>4, <1>7, <2>1, <2>2, WordFacts DEF IInv, CallState, SessionState
  <2>4. WholeCard' /\ BlankCard'
    BY <1>4, <1>5, <1>7, <2>2 DEF IInv, WholeCard, BlankCard
  <2>5. Knowledge'
    BY <1>3, <1>4, <1>7, <2>1, WordFacts DEF IInv, Knowledge
  <2>6. SuccessIsWhole' /\ FailureIsReal'
    BY <1>3, <1>4, <1>7 DEF SuccessIsWhole, FailureIsReal
  <2>7. QED BY <1>2, <2>3, <2>4, <2>5, <2>6 DEF IInv
<1>8. CASE i = 3
  <2>1. pc = "period" /\ pc' = "number" /\ Words[3] = "period" /\ Value("period") = want
    BY <1>1, <1>3, <1>4, <1>8, WordFacts
  <2>2. /\ session => nvm'["period"] = want /\ torn'
        /\ nvm'["config"] = nvm["config"] /\ nvm'["number"] = nvm["number"]
        /\ nvm'["radio"] = nvm["radio"]
    BY <1>3, <1>4, <1>5, <1>8, <2>1, WordFacts DEF Contents
  <2>3. CallState' /\ SessionState'
    BY <1>3, <1>4, <1>8, <2>1, <2>2, WordFacts DEF IInv, CallState, SessionState
  <2>4. WholeCard' /\ BlankCard'
    BY <1>4, <1>5, <1>8, <2>2 DEF IInv, WholeCard, BlankCard
  <2>5. Knowledge'
    BY <1>3, <1>4, <1>8, <2>1, WordFacts DEF IInv, Knowledge
  <2>6. SuccessIsWhole' /\ FailureIsReal'
    BY <1>3, <1>4, <1>8 DEF SuccessIsWhole, FailureIsReal
  <2>7. QED BY <1>2, <2>3, <2>4, <2>5, <2>6 DEF IInv
<1>9. CASE i = 4
  <2>1. pc = "number" /\ Words[4] = "number" /\ Value("number") = "own"
    BY <1>1, <1>9, WordFacts
  <2>2. /\ session => nvm'["number"] = "own"
        /\ nvm'["config"] = nvm["config"] /\ nvm'["period"] = nvm["period"]
        /\ nvm'["radio"] = nvm["radio"]
    BY <1>3, <1>5, <1>9, <2>1, WordFacts DEF Contents
  <2>3. session => nvm["config"] = "set" /\ nvm["radio"] = "set" /\ nvm["period"] = want
    BY <2>1 DEF IInv, SessionState
  <2>4. /\ retry \in Nat /\ LastRetry \in Nat \ {0, 1}
        /\ ~dipped /\ sound => retry = 0 /\ session
    BY <1>3, <2>1, WordFacts DEF IInv, TypeOK, Knowledge
  <2>5. \/ Return(-1) /\ retry # 0
        \/ pc' = "readData" /\ retry' = retry + 2 /\ UNCHANGED <<rd, result>>
    BY <1>4, <1>9, <2>4 DEF AfterWrite
  <2>6. CallState' /\ SessionState'
    BY <1>3, <1>4, <1>9, <2>5 DEF IInv, CallState, SessionState, Return
  <2>7. WholeCard' /\ BlankCard'
    BY <1>4, <1>5, <1>9, <2>2, <2>3 DEF IInv, WholeCard, BlankCard
  <2>8. Knowledge'
    <3>1. ~dipped /\ sound => Matches'
      BY <1>4, <1>9, <2>2, <2>3, <2>4, WordFacts DEF Matches, DataWords, Value
    <3>2. pc' \in {"readData", "idle"}
      BY <2>5 DEF Return
    <3>3. QED BY <1>4, <3>1, <3>2, WordFacts DEF Knowledge
  <2>9. SuccessIsWhole' /\ FailureIsReal'
    BY <1>3, <1>4, <1>9, <2>4, <2>5 DEF SuccessIsWhole, FailureIsReal, Return
  <2>10. QED BY <1>2, <2>6, <2>7, <2>8, <2>9 DEF IInv
<1>10. QED BY <1>6, <1>7, <1>8, <1>9

LEMMA FixtureStep ==
  ASSUME IInv, Dip \/ Contact
  PROVE  IInv'
<1> USE DEF callVars, cardVars
<1>1. Matches' <=> Matches
  BY WordFacts, MatchesFacts DEF Dip, Contact, Matches, DataWords, Value
<1>2. TypeOK'
  <2>1. dips \in 0..MaxDips /\ MaxDips \in Nat
    BY DEF IInv, TypeOK
  <2>2. CASE Dip
    <3>1. dips' \in 0..MaxDips
      BY <2>1, <2>2 DEF Dip
    <3>2. QED BY <2>2, <3>1 DEF IInv, TypeOK, Dip
  <2>3. CASE Contact
    BY <2>3 DEF IInv, TypeOK, Contact
  <2>4. QED BY <2>2, <2>3
<1>3. (CallState /\ SessionState /\ WholeCard /\ BlankCard /\ Knowledge)'
  BY <1>1 DEF IInv, TypeOK, Dip, Contact, CallState, SessionState, WholeCard, BlankCard, Knowledge
<1>4. (SuccessIsWhole /\ FailureIsReal)'
  BY DEF IInv, Dip, Contact, SuccessIsWhole, FailureIsReal
<1>5. QED BY <1>2, <1>3, <1>4 DEF IInv

LEMMA StepIInv == IInv /\ [Next]_vars => IInv'
<1> SUFFICES ASSUME IInv, [Next]_vars
             PROVE  IInv'
  OBVIOUS
<1>1. CASE UNCHANGED vars
  <2>1. Matches' <=> Matches
    BY <1>1 DEF vars, callVars, cardVars, Matches, DataWords, Value
  <2>2. QED
    BY <1>1, <2>1 DEF IInv, TypeOK, CallState, SessionState, WholeCard, BlankCard, Knowledge,
                      SuccessIsWhole, FailureIsReal, vars, callVars, cardVars
<1>2. QED
  BY <1>1, StartStep, SynchroniseStep, ReadStep, UnlockStep, WriteStep, FixtureStep DEF Next, Call

-----------------------------------------------------------------------------
(* The theorems                                                            *)

THEOREM Invariance == Spec => []IInv
  BY InitIInv, StepIInv, PTL DEF Spec

\* Every variable of the call and of the card keeps its type: among it, the chip
\* counts at most one programming more than the limit.
THEOREM TypeCorrect == Spec => []TypeOK
<1>1. IInv => TypeOK
  BY DEF IInv
<1>2. QED BY <1>1, Invariance, PTL

\* A reported success is a card with the wanted data, and with the radio words
\* unless a programming was cut short and not repeated, see SuccessIsWhole.
THEOREM SuccessIsTrue == Spec => []SuccessIsWhole
<1>1. IInv => SuccessIsWhole
  BY DEF IInv
<1>2. QED BY <1>1, Invariance, PTL

\* A card that could be burned is not refused, see FailureIsReal.
THEOREM FailureIsTrue == Spec => []FailureIsReal
<1>1. IInv => FailureIsReal
  BY DEF IInv
<1>2. QED BY <1>1, Invariance, PTL

\* Only the first word of a session is counted, and a session has a reason.
LEMMA WearStep ==
  ASSUME IInv, Next, worn' > worn
  PROVE  dipped \/ (worn < Full /\ ~Matches)
<1>1. worn \in Nat
  BY DEF IInv, TypeOK
<1>2. CASE WriteWord
  <2>1. PICK i \in 1..4 : pc = Words[i]
    BY <1>2, WordFacts DEF WriteWord
  <2>2. worn' = IF session /\ i = 1 /\ worn <= Full THEN worn + 1 ELSE worn
    BY <1>2, <2>1, WordStep
  <2>3. pc = "config"
    BY <1>1, <2>1, <2>2, WordFacts
  <2>4. QED BY <2>3 DEF IInv, Knowledge
<1>3. CASE ~WriteWord
  <2>1. worn' = worn
    BY <1>3 DEF Next, Call, Start, Synchronise, ReadData, ReadCount, Compare, Unlock, Dip, Contact, cardVars
  <2>2. QED BY <1>1, <2>1
<1>4. QED BY <1>2, <1>3

\* No programming is spent needlessly, see WearIsNeeded.
THEOREM WearIsJustified == Spec => WearIsNeeded
<1>1. IInv /\ [Next]_vars => [worn' > worn => dipped \/ (worn < Full /\ ~Matches)]_vars
  BY WearStep
<1>2. QED BY <1>1, Invariance, PTL DEF Spec, WearIsNeeded
=============================================================================

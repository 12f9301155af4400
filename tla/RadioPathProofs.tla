--------------------------- MODULE RadioPathProofs ---------------------------
(***************************************************************************)
(* What the way of a radio frame promises, for any number of frames and any *)
(* room in the frame buffer.                                               *)
(***************************************************************************)
EXTENDS RadioPath, SequenceTheorems, TLAPS

USE LinkAssumption, RoomAssumption

\* The pulse that is pending will still be answered by reading a message.
Awaited == pending /\ pc # "leaving"

\* The messages of the window, taken or not.
Came == taken \o queue

\* A frame is read whole while it is in m_tx_buf, and for a pulse that came with it.
ReadOnce ==
  \A i \in 1 .. Len(got) :
    got[i].kind = "whole" => got[i].frame <= buf /\ (Awaited => got[i].frame < buf)

\* nrf_data.rbuf is older than a frame the pending pulse came with.
Behind == rbuf <= buf /\ (Awaited => rbuf < buf)

\* No frame of the window is newer than nrf_data.rbuf, and once one came the next
\* pulse has a frame of the window.
CameBefore == listening =>
  \A i \in 1 .. Len(Came) : /\ Came[i].kind # "phantom" => Came[i].frame <= rbuf
                            /\ Awaited => opened < buf

\* What WindowIsFresh says of the messages taken, for those in the queue too.
CameInOrder == listening =>
  \A i, j \in 1 .. Len(Came) : i < j =>
    /\ Came[j].kind = "whole" => Came[j].frame > opened
    /\ Came[i].kind # "phantom" /\ Came[j].kind # "phantom" =>
         /\ Came[i].frame <= Came[j].frame
         /\ Came[j].kind = "whole" => Came[i].frame < Came[j].frame

\* Every message of the window was or will be paid for by a frame that arrived in it,
\* but one.
Paid == listening =>
  Len(taken) + Len(queue) + (IF Awaited THEN 1 ELSE 0) <= air - opened + 1

TakenInWindow == ~listening => taken = << >>

\* How full the buffer is when the reader is at rest, before it stores BUF_USEING,
\* and before it stores BUF_EMPTY.
Filled ==
  /\ reader = "test" => /\ status = "empty" => Len(queue) <= Room
                        /\ status = "using" => Len(queue) \in 1 .. Room + 1
                        /\ status = "full" => Len(queue) \in 2 .. Room + 2
  /\ reader \in {"look", "using"} =>
       /\ status = "using" => Len(queue) <= Room /\ (reader = "using" => Len(queue) >= 1)
       /\ status = "full" => Len(queue) \in 1 .. Room + 1
       /\ status # "empty"
  /\ reader \in {"again", "empty"} => /\ status = "using" => Len(queue) < Room
                                      /\ status = "full" => Len(queue) \in 1 .. Room
                                      /\ status # "empty"
  /\ reader = "astray" => status = "empty" /\ queue = << >>

IInv ==
  /\ PathTypeOK /\ FramesInOrder /\ ReadOnce /\ Behind /\ CameBefore /\ CameInOrder
  /\ Paid /\ TakenInWindow /\ Filled

LEMMA LinkUnchanged ==
  ASSUME TypeOK, UNCHANGED vars
  PROVE  TypeOK'
<1>1. Messages' = Messages
  BY DEF Messages, vars
<1>2. QED BY <1>1 DEF TypeOK, vars, slave, master, Def

LEMMA InitIInv == PathInit => IInv
<1> SUFFICES ASSUME PathInit PROVE IInv
  OBVIOUS
<1>1. /\ got = << >> /\ taken = << >> /\ queue = << >> /\ air = 0 /\ ~pending /\ ~listening
      /\ Came = << >> /\ rbuf = 0 /\ buf = 0 /\ status = "empty" /\ reader = "test"
  BY DEF PathInit, Init, Came
<1>2. << >> \in Seq(Messages) /\ Len(<< >>) = 0
  BY EmptySeq
<1>3. PathTypeOK
  <2>1. /\ buf \in 0 .. air /\ rbuf \in 0 .. air /\ air \in 0 .. MaxFrames /\ opened \in 0 .. air
        /\ first \in 0 .. air \cup {Def}
    BY DEF PathInit, Init
  <2>2. TypeOK
    BY <1>1, <1>2, <2>1 DEF PathInit, Init, TypeOK
  <2>3. listening \in BOOLEAN
    BY Zenon DEF PathInit
  <2>4. Len(queue) <= Room + 2
    BY <1>1, <1>2, RoomAssumption
  <2>5. QED BY <1>1, <1>2, <2>1, <2>2, <2>3, <2>4 DEF PathTypeOK
<1>4. FramesInOrder /\ ReadOnce /\ CameBefore /\ CameInOrder /\ Paid
  BY <1>1 DEF FramesInOrder, ReadOnce, CameBefore, CameInOrder, Paid
<1>5. Behind /\ Filled /\ TakenInWindow
  BY <1>1, <1>2, RoomAssumption DEF Behind, Awaited, Filled, TakenInWindow
<1>6. QED BY <1>3, <1>4, <1>5 DEF IInv

\* The messages of a window are a sequence, and every one of them is either taken or queued.
LEMMA CameFacts ==
  ASSUME IInv
  PROVE  /\ taken \in Seq(Messages) /\ queue \in Seq(Messages) /\ Came \in Seq(Messages)
         /\ Len(taken) \in Nat /\ Len(queue) \in Nat /\ Len(Came) = Len(taken) + Len(queue)
         /\ \A i \in 1 .. Len(taken) : Came[i] = taken[i]
         /\ \A i \in 1 .. Len(Came) : Came[i].frame \in Nat
<1>1. taken \in Seq(Messages) /\ queue \in Seq(Messages) /\ air \in Nat
  BY DEF IInv, PathTypeOK, TypeOK
<1>2. /\ Came \in Seq(Messages) /\ Len(Came) = Len(taken) + Len(queue)
      /\ \A i \in 1 .. Len(taken) + Len(queue) :
           Came[i] = IF i <= Len(taken) THEN taken[i] ELSE queue[i - Len(taken)]
  BY <1>1, ConcatProperties DEF Came
<1>3. \A i \in 1 .. Len(Came) : Came[i] \in Messages
  BY <1>2, ElementOfSeq
<1>4. \A m \in Messages : m.frame \in Nat
  BY <1>1 DEF Messages
<1>5. Len(taken) \in Nat /\ Len(queue) \in Nat
  BY <1>1
<1>6. \A i \in 1 .. Len(taken) : Came[i] = taken[i]
  BY <1>2, <1>5
<1>7. \A i \in 1 .. Len(Came) : Came[i].frame \in Nat
  BY <1>3, <1>4
<1>8. QED BY <1>1, <1>2, <1>5, <1>6, <1>7

\* As frames arrive, messages stay messages.
LEMMA MessagesGrow ==
  ASSUME air \in Nat, air' \in Nat, air <= air', NEW s \in Seq(Messages)
  PROVE  s \in Seq(Messages')
<1>1. Messages \subseteq Messages'
  BY DEF Messages
<1>2. QED BY <1>1, SeqMonotonic

-----------------------------------------------------------------------------
(* The link and the interrupt                                              *)

\* The steps of the two chips that neither read nor write a frame.
LEMMA QuietStep ==
  ASSUME IInv,
         \/ (SpisIdle \/ SpisArm \/ Expire) /\ UNCHANGED windowVars
         \/ IsrEnter /\ UNCHANGED windowVars
         \/ UNCHANGED pathVars
  PROVE  IInv'
<1> USE DEF vars, slave, master, windowVars, pathVars
<1>1. /\ UNCHANGED <<spaced, air, buf, pending, rbuf, got, windowVars>>
      /\ Awaited' <=> Awaited
  BY DEF SpisIdle, SpisArm, Expire, IsrEnter, Awaited
<1>2. Came' = Came
  BY <1>1 DEF Came
<1>3. TypeOK'
  <2>1. Messages' = Messages
    BY <1>1 DEF Messages
  <2>2. CASE SpisIdle
    BY <2>1, <2>2 DEF IInv, PathTypeOK, TypeOK, SpisIdle, Def
  <2>3. CASE SpisArm
    BY <2>1, <2>3 DEF IInv, PathTypeOK, TypeOK, SpisArm, Def
  <2>4. CASE Expire
    BY <2>1, <2>4 DEF IInv, PathTypeOK, TypeOK, Expire, Def
  <2>5. CASE UNCHANGED pathVars
    BY <2>5, LinkUnchanged DEF IInv, PathTypeOK
  <2>6. CASE IsrEnter
    <3>1. first' \in 0 .. air \cup {Def}
      BY <2>6 DEF IInv, PathTypeOK, TypeOK, IsrEnter
    <3>2. QED BY <1>1, <2>1, <2>6, <3>1 DEF IInv, PathTypeOK, TypeOK, IsrEnter, Def
  <2>7. QED BY <2>2, <2>3, <2>4, <2>5, <2>6
<1>4. PathTypeOK'
  BY <1>1, <1>3 DEF IInv, PathTypeOK, Messages
<1>5. (FramesInOrder /\ ReadOnce /\ Behind /\ CameBefore /\ CameInOrder /\ Paid /\ TakenInWindow /\ Filled)'
  BY <1>1, <1>2 DEF IInv, FramesInOrder, ReadOnce, Behind, CameBefore, CameInOrder, Paid, TakenInWindow, Filled
<1>6. QED BY <1>4, <1>5 DEF IInv

LEMMA ReceiveStep ==
  ASSUME IInv, Receive, UNCHANGED windowVars
  PROVE  IInv'
<1> USE DEF slave, master, windowVars
<1>1. air \in Nat /\ air' = air + 1 /\ buf \in 0 .. air /\ opened \in 0 .. air
  BY DEF IInv, PathTypeOK, TypeOK, Receive
<1>2. UNCHANGED <<spaced, slave, pc, first, rbuf, got, windowVars>>
  BY DEF Receive
<1>3. \/ UNCHANGED <<buf, busy, timer, pending>>
      \/ buf' = air' /\ pending' = TRUE /\ busy' = TRUE /\ timer' \in {"own", "stale"}
  BY DEF Receive, Started
<1>4. PathTypeOK'
  <2>1. got' \in Seq(Messages') /\ queue' \in Seq(Messages') /\ taken' \in Seq(Messages')
    <3>1. got \in Seq(Messages) /\ queue \in Seq(Messages) /\ taken \in Seq(Messages)
      BY DEF IInv, PathTypeOK, TypeOK
    <3>2. QED BY <1>1, <1>2, <3>1, MessagesGrow
  <2>2. air' \in 0 .. MaxFrames
    BY <1>1 DEF Receive
  <2>3. TypeOK'
    <3>1. buf' \in 0 .. air' /\ rbuf' \in 0 .. air' /\ first' \in 0 .. air' \cup {Def}
      BY <1>1, <1>2, <1>3 DEF IInv, PathTypeOK, TypeOK
    <3>2. /\ timer' \in {"off", "own", "stale"} /\ busy' \in BOOLEAN /\ pending' \in BOOLEAN
          /\ pc' # "out" => pending'
      BY <1>2, <1>3 DEF IInv, PathTypeOK, TypeOK
    <3>3. QED BY <1>1, <1>2, <2>1, <2>2, <3>1, <3>2 DEF IInv, PathTypeOK, TypeOK, Def
  <2>4. QED BY <1>1, <1>2, <2>1, <2>3 DEF IInv, PathTypeOK
<1>5. Came' = Came
  BY <1>2 DEF Came
<1>6. FramesInOrder' /\ CameInOrder'
  BY <1>2, <1>5 DEF IInv, FramesInOrder, CameInOrder
<1>7. ReadOnce'
  <2>1. \A i \in 1 .. Len(got) : got[i].frame \in Nat
    <3>1. \A i \in 1 .. Len(got) : got[i] \in Messages
      BY ElementOfSeq DEF IInv, PathTypeOK, TypeOK, Messages
    <3>2. QED BY <1>1, <3>1 DEF Messages
  <2>2. QED BY <1>1, <1>2, <1>3, <2>1 DEF IInv, ReadOnce, Awaited
<1>8. (CameBefore /\ Behind /\ Filled /\ TakenInWindow)'
  <2>1. rbuf \in Nat
    BY <1>1 DEF IInv, PathTypeOK, TypeOK
  <2>2. CameBefore'
    BY <1>1, <1>2, <1>3, <1>5 DEF IInv, CameBefore, Awaited
  <2>3. Behind'
    BY <1>1, <1>2, <1>3, <2>1 DEF IInv, Behind, Awaited
  <2>4. QED BY <1>2, <2>2, <2>3 DEF IInv, Filled, TakenInWindow
<1>9. Paid'
  <2>1. Len(taken) \in Nat /\ Len(queue) \in Nat
    BY CameFacts
  <2>2. Len(taken') = Len(taken) /\ Len(queue') = Len(queue) /\ listening' = listening
        /\ opened' = opened
    BY <1>2
  <2>3. listening => Len(taken) + Len(queue) <= (air - opened) + 1
    BY <1>1, <2>1 DEF IInv, Paid
  <2>4. QED BY <1>1, <2>1, <2>2, <2>3 DEF Paid
<1>10. QED BY <1>4, <1>6, <1>7, <1>8, <1>9 DEF IInv

\* A message that is whole is the frame in m_tx_buf.
LEMMA MessageFacts ==
  ASSUME TypeOK, IsrRead
  PROVE  /\ Message \in Messages
         /\ Message.kind = "whole" => Message.frame = buf /\ rbuf' = buf
         /\ Message.kind = "left" => Message.frame = rbuf /\ rbuf' = rbuf
         /\ Message.kind = "phantom" => rbuf' = rbuf
<1>1. buf \in 0 .. air /\ rbuf \in 0 .. air /\ air \in 0 .. MaxFrames /\ buf # Def
  BY DEF TypeOK, Def
<1>2. Phantom \in Messages /\ Whole(buf) \in Messages /\ Left(rbuf) \in Messages
  BY <1>1 DEF Phantom, Whole, Left, Messages
<1>3. \/ Message = Phantom /\ rbuf' = rbuf
      \/ Message = Whole(buf) /\ rbuf' = buf
      \/ Message = Left(rbuf) /\ rbuf' = rbuf
  BY <1>1 DEF Message, IsrRead
<1>4. QED BY <1>2, <1>3 DEF Phantom, Whole, Left

\* A message put behind a queue.
LEMMA Queued ==
  ASSUME NEW S, NEW q \in Seq(S), NEW e \in S
  PROVE  Append(q, e) \in Seq(S) /\ Len(Append(q, e)) = Len(q) + 1 /\ Len(q) \in Nat
OBVIOUS

LEMMA IsrReadStep ==
  ASSUME IInv, IsrRead, Store(Message), UNCHANGED <<listening, reader, taken, opened>>
  PROVE  IInv'
<1> DEFINE m == Message
<1>1. /\ pc = "reading" /\ pc' = "leaving" /\ got' = Append(got, m)
      /\ UNCHANGED <<spaced, air, buf, busy, timer, pending, first>>
  BY DEF IsrRead
<1>2. /\ m \in Messages
      /\ m.kind = "whole" => m.frame = buf /\ rbuf' = buf
      /\ m.kind = "left" => m.frame = rbuf /\ rbuf' = rbuf
      /\ m.kind = "phantom" => rbuf' = rbuf
  BY <1>1, MessageFacts DEF IInv, PathTypeOK
<1>3. /\ got \in Seq(Messages) /\ queue \in Seq(Messages) /\ taken \in Seq(Messages)
      /\ Messages' = Messages /\ air \in Nat /\ buf \in 0 .. air /\ opened \in 0 .. air
      /\ rbuf \in 0 .. air /\ m.kind \in {"whole", "left", "phantom"} /\ m.frame \in Nat
  BY <1>1, <1>2 DEF IInv, PathTypeOK, TypeOK, Messages
<1>4. Awaited /\ ~Awaited'
  BY <1>1 DEF IInv, PathTypeOK, TypeOK, Awaited
<1> HIDE DEF m
<1>5. /\ got' \in Seq(Messages) /\ Len(got') = Len(got) + 1 /\ Len(got) \in Nat
      /\ got'[Len(got) + 1] = m /\ \A i \in 1 .. Len(got) : got'[i] = got[i]
  BY <1>1, <1>2, <1>3, AppendProperties
<1>6. \/ UNCHANGED <<queue, status>>
      \/ /\ listening /\ reader # "astray" /\ status \in {"empty", "using"}
         /\ queue' = Append(queue, m)
         /\ \/ status = "using" /\ Len(queue') >= Room /\ status' = "full"
            \/ (status = "empty" \/ Len(queue') < Room) /\ status' = "using"
  <2>1. status \in {"empty", "using", "full"} /\ Len(Append(queue, m)) \in Nat
    BY <1>2, <1>3 DEF IInv, PathTypeOK
  <2>2. QED BY <2>1, RoomAssumption DEF Store, m
<1>7. Filled' /\ PathTypeOK'
  <2>1. /\ Append(queue, m) \in Seq(Messages) /\ Len(Append(queue, m)) = Len(queue) + 1
        /\ Len(queue) \in Nat
    BY <1>2, <1>3, Queued, Zenon
  <2>2. reader' = reader /\ Room \in Nat /\ Room >= 2
    BY RoomAssumption
  <2>3. queue' \in Seq(Messages) /\ status' \in {"empty", "using", "full"}
    BY <1>3, <1>6, <2>1 DEF IInv, PathTypeOK
  <2>4. Filled'
    <3>1. CASE UNCHANGED <<queue, status>>
      BY <2>2, <3>1 DEF IInv, Filled
    <3>2. CASE queue' = Append(queue, m)
      <4>1. Len(queue') = Len(queue) + 1 /\ Len(queue) \in Nat
        BY <2>1, <3>2
      <4>2. CASE status = "using" /\ Len(queue') >= Room /\ status' = "full" /\ reader # "astray"
        BY <2>2, <4>1, <4>2 DEF IInv, Filled
      <4>3. CASE /\ status \in {"empty", "using"} /\ reader # "astray"
                 /\ (status = "empty" \/ Len(queue') < Room) /\ status' = "using"
        BY <2>2, <4>1, <4>3 DEF IInv, Filled
      <4>4. QED BY <1>6, <3>1, <4>2, <4>3
    <3>3. QED BY <1>6, <3>1, <3>2
  <2>5. Len(queue') <= Room + 2 /\ (reader' = "test" /\ status' # "empty" => queue' # << >>)
    <3>1. Len(queue') \in Nat
      BY <2>3
    <3>2. reader \in {"test", "look", "again", "empty", "using", "astray"}
      BY DEF IInv, PathTypeOK
    <3>3. QED BY <2>2, <2>3, <2>4, <3>1, <3>2, EmptySeq DEF Filled
  <2>6. /\ rbuf' \in 0 .. air /\ armed' \in BOOLEAN /\ done' \in {"none", "pending", "idle"}
        /\ armed' => done' = "none"
    BY DEF IInv, PathTypeOK, TypeOK, IsrRead, slave
  <2>7. TypeOK'
    BY <1>1, <1>3, <1>5, <2>6 DEF IInv, PathTypeOK, TypeOK, Messages, Def
  <2>8. QED BY <1>1, <1>3, <2>2, <2>3, <2>4, <2>5, <2>7 DEF IInv, PathTypeOK
<1>8. ReadOnce' /\ FramesInOrder'
  <2>1. \A i \in 1 .. Len(got) : got[i].kind = "whole" => got[i].frame < buf
    BY <1>4 DEF IInv, ReadOnce
  <2>2. \A i \in 1 .. Len(got') : i \in 1 .. Len(got) \/ i = Len(got) + 1
    BY <1>5
  <2>3. \A i \in 1 .. Len(got) : got[i].frame \in Nat
    <3>1. \A i \in 1 .. Len(got) : got[i] \in Messages
      BY <1>3, ElementOfSeq
    <3>2. QED BY <3>1 DEF Messages
  <2>4. ReadOnce'
    BY <1>1, <1>2, <1>3, <1>4, <1>5, <2>1, <2>2, <2>3 DEF ReadOnce
  <2>5. FramesInOrder'
    <3> SUFFICES ASSUME NEW i \in 1 .. Len(got'), NEW j \in 1 .. Len(got'), i < j,
                        got'[i].kind = "whole", got'[j].kind = "whole"
                 PROVE  got'[i].frame < got'[j].frame
      BY DEF FramesInOrder
    <3>1. CASE j \in 1 .. Len(got)
      BY <1>5, <3>1 DEF IInv, FramesInOrder
    <3>2. CASE j = Len(got) + 1
      BY <1>2, <1>5, <2>1, <3>2
    <3>3. QED BY <2>2, <3>1, <3>2
  <2>6. QED BY <2>4, <2>5
<1>9. Behind' /\ CameBefore' /\ CameInOrder'
  <2>1. rbuf < buf /\ rbuf' \in {rbuf, buf} /\ buf' = buf /\ opened' = opened
    BY <1>1, <1>2, <1>3, <1>4 DEF IInv, Behind
  <2>2. Behind'
    BY <1>3, <1>4, <2>1 DEF Behind
  <2>3. CASE queue' = queue
    <3>1. Came' = Came
      BY <2>3 DEF Came
    <3>2. CameBefore'
      BY <1>3, <1>4, <2>1, <3>1, CameFacts DEF IInv, CameBefore
    <3>3. CameInOrder'
      BY <2>1, <3>1 DEF IInv, CameInOrder
    <3>4. QED BY <2>2, <3>2, <3>3
  <2>4. CASE queue' = Append(queue, m) /\ listening
    <3>1. Came' = Append(Came, m)
      <4>1. taken' = taken /\ queue' = queue \o <<m>> /\ <<m>> \in Seq(Messages)
        BY <1>2, <1>3, <2>4, AppendIsConcat
      <4>2. Came' = Came \o <<m>>
        BY <1>3, <4>1, ConcatAssociative DEF Came
      <4>3. Came \in Seq(Messages)
        BY CameFacts
      <4>4. QED BY <1>2, <4>2, <4>3, AppendIsConcat
    <3>2. /\ Len(Came') = Len(Came) + 1 /\ Len(Came) \in Nat
          /\ Came'[Len(Came) + 1] = m /\ \A i \in 1 .. Len(Came) : Came'[i] = Came[i]
      BY <1>2, <3>1, CameFacts, AppendProperties
    <3>3. \A i \in 1 .. Len(Came) : /\ Came[i].kind # "phantom" => Came[i].frame <= rbuf
                                    /\ opened < buf /\ Came[i].frame \in Nat
      BY <1>4, <2>4, CameFacts DEF IInv, CameBefore
    <3>4. \A i \in 1 .. Len(Came') : i \in 1 .. Len(Came) \/ i = Len(Came) + 1
      BY <3>2
    <3>5. CameBefore'
      <4>1. \A i \in 1 .. Len(Came) : Came[i].kind # "phantom" => Came[i].frame <= rbuf'
        BY <1>3, <2>1, <3>3
      <4>2. m.kind # "phantom" => m.frame <= rbuf'
        BY <1>2, <1>3
      <4>3. \A i \in 1 .. Len(Came') : Came'[i].kind # "phantom" => Came'[i].frame <= rbuf'
        BY <3>2, <3>4, <4>1, <4>2
      <4>4. QED BY <1>4, <4>3 DEF CameBefore
    <3>6. CameInOrder'
      <4> SUFFICES ASSUME NEW i \in 1 .. Len(Came'), NEW j \in 1 .. Len(Came'), i < j
                   PROVE  /\ Came'[j].kind = "whole" => Came'[j].frame > opened
                          /\ Came'[i].kind # "phantom" /\ Came'[j].kind # "phantom" =>
                               /\ Came'[i].frame <= Came'[j].frame
                               /\ Came'[j].kind = "whole" => Came'[i].frame < Came'[j].frame
        BY <2>1 DEF CameInOrder
      <4>1. CASE j \in 1 .. Len(Came)
        BY <2>4, <3>2, <4>1 DEF IInv, CameInOrder
      <4>2. CASE j = Len(Came) + 1
        <5>1. i \in 1 .. Len(Came) /\ Came'[j] = m /\ Came'[i] = Came[i]
          BY <3>2, <4>2
        <5>2. CASE m.kind = "whole"
          <6>1. m.frame = buf /\ Came[i].frame \in Nat /\ opened < buf
            BY <1>2, <3>3, <5>1, <5>2
          <6>2. Came[i].kind # "phantom" => Came[i].frame < buf
            BY <1>3, <2>1, <3>3, <5>1, <6>1
          <6>3. QED BY <1>3, <2>1, <5>1, <6>1, <6>2
        <5>3. CASE m.kind = "left"
          BY <1>2, <1>3, <2>1, <3>3, <5>1, <5>3
        <5>4. QED BY <1>3, <5>1, <5>2, <5>3
      <4>3. QED BY <3>4, <4>1, <4>2
    <3>7. QED BY <2>2, <3>5, <3>6
  <2>5. QED BY <1>6, <2>3, <2>4
<1>10. Paid'
  <2>1. Len(queue') <= Len(queue) + 1 /\ Len(queue') \in Nat
    <3>1. Len(Append(queue, m)) = Len(queue) + 1 /\ Len(queue) \in Nat
      BY <1>2, <1>3, Queued, Zenon
    <3>2. QED BY <1>6, <3>1
  <2>2. QED BY <1>1, <1>3, <1>4, <2>1, CameFacts DEF IInv, Paid
<1>11. TakenInWindow'
  BY DEF IInv, TakenInWindow
<1>12. QED BY <1>7, <1>8, <1>9, <1>10, <1>11 DEF IInv

LEMMA IsrLeaveStep ==
  ASSUME IInv, IsrLeave, UNCHANGED windowVars
  PROVE  IInv'
<1> USE DEF slave, windowVars
<1>1. UNCHANGED <<spaced, air, buf, rbuf, got, windowVars>> /\ ~Awaited /\ ~Awaited'
  BY DEF IsrLeave, Awaited
<1>2. Came' = Came
  BY <1>1 DEF Came
<1>3. TypeOK'
  <2>1. Messages' = Messages
    BY <1>1 DEF Messages
  <2>2. QED BY <1>1, <2>1 DEF IInv, PathTypeOK, TypeOK, IsrLeave, Def
<1>4. PathTypeOK'
  BY <1>1, <1>3 DEF IInv, PathTypeOK, Messages
<1>5. (FramesInOrder /\ ReadOnce /\ Behind /\ CameBefore /\ CameInOrder /\ Paid /\ TakenInWindow /\ Filled)'
  BY <1>1, <1>2 DEF IInv, FramesInOrder, ReadOnce, Behind, CameBefore, CameInOrder, Paid, TakenInWindow, Filled
<1>6. QED BY <1>4, <1>5 DEF IInv

-----------------------------------------------------------------------------
(* The window                                                              *)

LEMMA OpenStep ==
  ASSUME IInv, Open
  PROVE  IInv'
<1>1. /\ UNCHANGED vars /\ listening' = TRUE /\ queue' = << >> /\ taken' = << >> /\ opened' = air
      /\ status' = "empty" /\ reader' = "test" /\ air \in Nat
  BY DEF IInv, PathTypeOK, TypeOK, Open
<1>2. UNCHANGED <<spaced, air, buf, rbuf, pending, pc, got>> /\ Awaited' = Awaited
  BY <1>1 DEF vars, slave, master, Awaited
<1>3. Came' = << >> /\ Len(<< >>) = 0
  BY <1>1 DEF Came
<1>4. TypeOK'
  BY <1>1, LinkUnchanged DEF IInv, PathTypeOK
<1>5. PathTypeOK' /\ Filled'
  BY <1>1, <1>2, <1>3, <1>4, RoomAssumption DEF PathTypeOK, Messages, Filled
<1>6. (FramesInOrder /\ ReadOnce /\ Behind /\ CameBefore /\ CameInOrder)'
  BY <1>2, <1>3 DEF IInv, FramesInOrder, ReadOnce, Behind, CameBefore, CameInOrder
<1>7. Paid' /\ TakenInWindow'
  BY <1>1, <1>2 DEF Paid, TakenInWindow
<1>8. QED BY <1>5, <1>6, <1>7 DEF IInv

LEMMA TakeStep ==
  ASSUME IInv, Take
  PROVE  IInv'
<1>1. /\ UNCHANGED <<vars, listening, status, opened>> /\ queue # << >>
      /\ reader = "test" /\ reader' = "look" /\ status \in {"using", "full"}
      /\ queue' = Tail(queue) /\ taken' = Append(taken, Head(queue))
      /\ taken \in Seq(Messages) /\ queue \in Seq(Messages) /\ Len(queue) <= Room + 2
  BY DEF IInv, PathTypeOK, Take
<1>2. /\ UNCHANGED <<spaced, air, buf, rbuf, pending, pc, got>> /\ Awaited' = Awaited
      /\ Messages' = Messages
  BY <1>1 DEF vars, slave, master, Awaited, Messages
<1>3. /\ Head(queue) \in Messages /\ Tail(queue) \in Seq(Messages)
      /\ Len(Tail(queue)) = Len(queue) - 1 /\ Len(queue) \in Nat
  BY <1>1, HeadTailProperties
<1>4. /\ taken' \in Seq(Messages) /\ Len(taken') = Len(taken) + 1 /\ Len(taken) \in Nat
  BY <1>1, <1>3, AppendProperties
<1>5. Came' = Came
  <2>1. taken' = taken \o <<Head(queue)>> /\ <<Head(queue)>> \in Seq(Messages)
    BY <1>1, <1>3, AppendIsConcat
  <2>2. queue = <<Head(queue)>> \o Tail(queue)
    BY <1>1, <1>3, SubSeqFull, SubSeqRecursiveFirst, TailIsSubSeq
  <2>3. QED BY <1>1, <1>3, <2>1, <2>2, ConcatAssociative DEF Came
<1>6. TypeOK'
  BY <1>1, LinkUnchanged DEF IInv, PathTypeOK
<1>7. PathTypeOK'
  <2>1. Len(queue') <= Room + 2
    BY <1>1, <1>3, RoomAssumption
  <2>2. QED BY <1>1, <1>2, <1>3, <1>4, <1>6, <2>1 DEF IInv, PathTypeOK
<1>8. Filled'
  BY <1>1, <1>3, RoomAssumption DEF IInv, Filled
<1>9. (FramesInOrder /\ ReadOnce /\ Behind /\ CameBefore /\ CameInOrder)'
  BY <1>1, <1>2, <1>5 DEF IInv, FramesInOrder, ReadOnce, Behind, CameBefore, CameInOrder
<1>10. Paid' /\ TakenInWindow'
  BY <1>1, <1>2, <1>3, <1>4 DEF IInv, Paid, TakenInWindow, Take
<1>11. QED BY <1>7, <1>8, <1>9, <1>10 DEF IInv

\* Where update_read_status only looks, or stores a status, no message moves.
LEMMA StatusStep ==
  ASSUME IInv,
         \/ Look
         \/ LookAgain /\ queue = << >>
         \/ StoreStatus("empty") \/ StoreStatus("using")
  PROVE  IInv'
<1>1. /\ UNCHANGED <<vars, listening, queue, taken, opened>>
      /\ queue \in Seq(Messages) /\ Len(queue) \in Nat /\ (queue # << >> => Len(queue) >= 1)
      /\ Len(queue) <= Room + 2 /\ status \in {"empty", "using", "full"}
      /\ Room \in Nat /\ Room >= 2 /\ (queue = << >> => Len(queue) = 0)
  BY RoomAssumption, EmptySeq DEF IInv, PathTypeOK, Look, LookAgain, StoreStatus
<1>2. /\ UNCHANGED <<spaced, air, buf, rbuf, pending, pc, got>> /\ Awaited' = Awaited
      /\ Messages' = Messages /\ Came' = Came
  BY <1>1 DEF vars, slave, master, Awaited, Messages, Came
<1>3. TypeOK'
  BY <1>1, LinkUnchanged DEF IInv, PathTypeOK
<1>4. /\ status' \in {"empty", "using", "full"}
      /\ reader' \in {"test", "look", "again", "empty", "using", "astray"}
      /\ Filled' /\ (reader' = "test" /\ status' # "empty" => queue' # << >>)
  <2>1. CASE Look
    BY <1>1, <2>1 DEF IInv, Filled, Look
  <2>2. CASE LookAgain /\ queue = << >>
    BY <1>1, <2>2 DEF IInv, Filled, LookAgain
  <2>3. CASE StoreStatus("empty")
    BY <1>1, <2>3 DEF IInv, Filled, StoreStatus
  <2>4. CASE StoreStatus("using")
    BY <1>1, <2>4 DEF IInv, Filled, StoreStatus
  <2>5. QED BY <2>1, <2>2, <2>3, <2>4
<1>5. PathTypeOK'
  BY <1>1, <1>2, <1>3, <1>4 DEF IInv, PathTypeOK
<1>6. (FramesInOrder /\ ReadOnce /\ Behind /\ CameBefore /\ CameInOrder /\ Paid /\ TakenInWindow)'
  BY <1>1, <1>2 DEF IInv, FramesInOrder, ReadOnce, Behind, CameBefore, CameInOrder, Paid, TakenInWindow
<1>7. QED BY <1>4, <1>5, <1>6 DEF IInv

\* The messages in a buffer that is set back are gone; those taken are as they were.
LEMMA AstrayStep ==
  ASSUME IInv, LookAgain, queue # << >>
  PROVE  IInv'
<1>1. /\ UNCHANGED <<vars, listening, taken, opened>>
      /\ queue' = << >> /\ status' = "empty" /\ reader' = "astray"
  BY DEF LookAgain
<1>2. /\ UNCHANGED <<spaced, air, buf, rbuf, pending, pc, got>> /\ Awaited' = Awaited
      /\ Messages' = Messages
  BY <1>1 DEF vars, slave, master, Awaited, Messages
<1>3. /\ taken \in Seq(Messages) /\ Len(taken) \in Nat /\ Len(queue) \in Nat
      /\ Len(Came) = Len(taken) + Len(queue)
      /\ \A i \in 1 .. Len(taken) : Came[i] = taken[i]
      /\ 1 .. Len(taken) \subseteq 1 .. Len(Came)
  <2>1. /\ taken \in Seq(Messages) /\ Len(taken) \in Nat /\ Len(queue) \in Nat
        /\ Len(Came) = Len(taken) + Len(queue)
        /\ \A i \in 1 .. Len(taken) : Came[i] = taken[i]
    BY CameFacts
  <2>2. QED BY <2>1
<1>4. Came' = taken
  BY <1>1, <1>3, ConcatEmptySeq DEF Came
<1>5. TypeOK'
  BY <1>1, LinkUnchanged DEF IInv, PathTypeOK
<1>6. << >> \in Seq(Messages) /\ Len(<< >>) = 0
  BY EmptySeq
<1>7. PathTypeOK' /\ Filled'
  BY <1>1, <1>2, <1>3, <1>5, <1>6, RoomAssumption DEF IInv, PathTypeOK, Filled
<1>8. (FramesInOrder /\ ReadOnce /\ Behind /\ TakenInWindow)'
  BY <1>1, <1>2 DEF IInv, FramesInOrder, ReadOnce, Behind, TakenInWindow
<1>9. CameBefore'
  BY <1>1, <1>2, <1>3, <1>4 DEF IInv, CameBefore
<1>10. CameInOrder'
  BY <1>1, <1>3, <1>4 DEF IInv, CameInOrder
<1>11. Paid'
  <2>1. air \in Nat /\ opened \in Nat
    BY DEF IInv, PathTypeOK, TypeOK
  <2>2. QED BY <1>1, <1>2, <1>3, <1>6, <2>1 DEF IInv, Paid
<1>12. QED BY <1>7, <1>8, <1>9, <1>10, <1>11 DEF IInv

LEMMA CloseStep ==
  ASSUME IInv, Close
  PROVE  IInv'
<1>1. /\ UNCHANGED <<vars, queue, status, reader>> /\ listening' = FALSE
      /\ taken' = << >> /\ opened' = 0
  BY DEF Close
<1>2. UNCHANGED <<spaced, air, buf, rbuf, pending, pc, got>> /\ Awaited' = Awaited
  BY <1>1 DEF vars, slave, master, Awaited
<1>3. TypeOK'
  BY <1>1, LinkUnchanged DEF IInv, PathTypeOK
<1>4. PathTypeOK'
  <2>1. 0 \in 0 .. air /\ << >> \in Seq(Messages)
    BY EmptySeq DEF IInv, PathTypeOK, TypeOK
  <2>2. QED BY <1>1, <1>2, <1>3, <2>1 DEF IInv, PathTypeOK, Messages
<1>5. (FramesInOrder /\ ReadOnce /\ Behind /\ CameBefore /\ CameInOrder /\ Paid /\ TakenInWindow /\ Filled)'
  BY <1>1, <1>2 DEF IInv, FramesInOrder, ReadOnce, Behind, CameBefore, CameInOrder, Paid, TakenInWindow, Filled
<1>6. QED BY <1>4, <1>5 DEF IInv

-----------------------------------------------------------------------------
(* The theorems                                                            *)

LEMMA StepIInv == IInv /\ [PathNext]_pathVars => IInv'
<1>1. ASSUME IInv, Reader PROVE IInv'
  BY <1>1, TakeStep, StatusStep, AstrayStep DEF Reader
<1>2. QED
  BY <1>1, QuietStep, ReceiveStep, IsrReadStep, IsrLeaveStep, OpenStep, CloseStep
     DEF PathNext, Interrupt, Receiver

\* Every message of the window has a frame it came from, wherever transfer and timer stand.
THEOREM Invariance == PathSpec => []IInv
  BY InitIInv, StepIInv, PTL DEF PathSpec

\* The variables of the two chips and of the window keep their types; in particular
\* the frame buffer holds at most two messages more than make it BUF_FULL, and the
\* reader finds a message in one that is not BUF_EMPTY.
THEOREM TypeCorrect == PathSpec => []PathTypeOK
<1>1. IInv => PathTypeOK
  BY DEF IInv
<1>2. QED BY <1>1, Invariance, PTL

\* Whole frames are handed on in order and once, see FramesInOrder.
THEOREM OrderKept == PathSpec => []FramesInOrder
<1>1. IInv => FramesInOrder
  BY DEF IInv
<1>2. QED BY <1>1, Invariance, PTL

\* Every message of a window but one costs a frame of it, and no frame in it is
\* followed by an older one, see WindowIsFresh.
THEOREM FreshWindow == PathSpec => []WindowIsFresh
<1>1. ASSUME IInv PROVE WindowIsFresh
  <2>1. CASE listening
    <3>1. Len(taken) + Len(queue) <= air - opened + 1
      <4>1. air \in Nat /\ opened \in Nat /\ Len(taken) \in Nat /\ Len(queue) \in Nat
        BY <1>1, CameFacts DEF IInv, PathTypeOK, TypeOK
      <4>2. QED BY <1>1, <2>1, <4>1 DEF IInv, Paid
    <3>2. \A i \in 1 .. Len(taken) : i \in 1 .. Len(Came) /\ Came[i] = taken[i]
      BY <1>1, CameFacts
    <3>3. QED BY <1>1, <2>1, <3>1, <3>2 DEF IInv, CameInOrder, WindowIsFresh
  <2>2. CASE ~listening
    BY <1>1, <2>2 DEF IInv, TakenInWindow, WindowIsFresh
  <2>3. QED BY <2>1, <2>2
<1>2. QED BY <1>1, Invariance, PTL
=============================================================================

----------------------- MODULE SessionTransport_proofs -----------------------
(***************************************************************************)
(* Proofs about SessionTransport, for chunks of any number of pieces, a    *)
(* channel of any size, any number of chunks, losses and restarts.  While  *)
(* the sender does not restart, its session numbers never repeat, and what *)
(* the receiver passes on is whole, at most once and in order.  When it    *)
(* does, the sequence numbers alone still keep the pieces consecutive.     *)
(***************************************************************************)
EXTENDS SessionTransport, TLAPS, SequenceTheorems

-----------------------------------------------------------------------------
(* Sequences.                                                              *)

LEMMA AppendElements ==
  ASSUME NEW S, NEW q \in Seq(S), NEW e \in S
  PROVE  /\ Append(q, e) \in Seq(S) /\ Len(Append(q, e)) = Len(q) + 1
         /\ \A i \in 1..Len(q) : Append(q, e)[i] = q[i]
         /\ Append(q, e)[Len(q) + 1] = e
BY AppendProperties

LEMMA TailElements ==
  ASSUME NEW S, NEW q \in Seq(S), q # <<>>
  PROVE  /\ Tail(q) \in Seq(S) /\ Len(Tail(q)) = Len(q) - 1 /\ Head(q) = q[1]
         /\ Len(q) \in Nat \ {0}
         /\ \A i \in 1..Len(Tail(q)) : Tail(q)[i] = q[i + 1]
BY HeadTailProperties, EmptySeq

(* The beginning of a chunk, as the receiver's buffer holds it.            *)
Beginning(id, n) == [p \in 1..n |-> [id |-> id, piece |-> p]]

LEMMA BeginningGrows ==
  ASSUME NEW id \in Nat \ {0}, NEW n \in Nat, n < MaxPieces
  PROVE  /\ Beginning(id, n) \in Seq(Piece)
         /\ Append(Beginning(id, n), [id |-> id, piece |-> n + 1]) = Beginning(id, n + 1)
         /\ Beginning(id, n + 1) \in Seq(Piece)
<1>1. MaxPieces \in Nat
  BY SizesAssumption
<1>2. \A p \in 1..n + 1 : [id |-> id, piece |-> p] \in Piece
  BY <1>1 DEF Piece
<1>3. Beginning(id, n) \in [1..n -> Piece] /\ Beginning(id, n + 1) \in [1..n + 1 -> Piece]
  BY <1>2 DEF Beginning
<1>4. Beginning(id, n) \in Seq(Piece) /\ Beginning(id, n + 1) \in Seq(Piece)
  BY <1>3, SeqDef
<1>5. Len(Beginning(id, n)) = n /\ Len(Beginning(id, n + 1)) = n + 1
  BY <1>3, <1>4, LenProperties DEF Beginning
<1> DEFINE e == [id |-> id, piece |-> n + 1]
<1>6. e \in Piece
  BY <1>2
<1>7. \A p \in 1..n + 1 : Append(Beginning(id, n), e)[p] = Beginning(id, n + 1)[p]
  <2>1. /\ \A p \in 1..n : Append(Beginning(id, n), e)[p] = Beginning(id, n)[p]
        /\ Append(Beginning(id, n), e)[n + 1] = e
    BY <1>4, <1>5, <1>6, AppendElements
  <2> QED
    BY <2>1 DEF Beginning
<1>8. Append(Beginning(id, n), e) \in Seq(Piece) /\ Len(Append(Beginning(id, n), e)) = n + 1
  BY <1>4, <1>5, <1>6, AppendElements
<1>9. Append(Beginning(id, n), e) = Beginning(id, n + 1)
  BY <1>4, <1>5, <1>7, <1>8, SeqEqual
<1> QED
  BY <1>4, <1>9

-----------------------------------------------------------------------------
(* The inductive invariant, one lemma per action.                          *)

LEMMA IInvInit == Init => IInv
<1> SUFFICES ASSUME Init PROVE IInv
  OBVIOUS
<1>1. TypeOK
  <2>1. /\ <<>> \in Seq(1..MaxPieces) /\ <<>> \in Seq(Segment)
        /\ <<>> \in Seq(Piece) /\ <<>> \in Seq(Seq(Piece))
    BY EmptySeq
  <2>2. /\ <<>> = offered /\ <<>> = channel /\ <<>> = buffer /\ <<>> = delivered
        /\ 0 \in 0..MaxPieces /\ damaged = {}
    BY SizesAssumption DEF Init
  <2>3. previous \in [session : Nat, sequence : Nat] /\ taken \in Piece \cup {Nothing}
    BY DEF Init, FreshState
  <2> QED
    BY <2>1, <2>2, <2>3 DEF Init, TypeOK
<1>2. Len(<<>>) = 0
  OBVIOUS
<1> QED
  BY <1>1, <1>2 DEF Init, IInv, SenderNumbers, ChannelNumbers, TakenNumbers, BufferPrefix,
     BehindSender, DeliveredWhole, DeliveredBehind, Nothing, current

LEMMA OfferedType ==
  ASSUME TypeOK
  PROVE  /\ offered \in Seq(1..MaxPieces) /\ current \in Nat
         /\ \A id \in 1..current : offered[id] \in 1..MaxPieces /\ offered[id] \in Nat \ {0}
<1>1. offered \in Seq(1..MaxPieces) /\ MaxPieces \in Nat
  BY SizesAssumption DEF TypeOK
<1>2. \A id \in 1..Len(offered) : offered[id] \in 1..MaxPieces
  BY <1>1, ElementOfSeq
<1> QED
  BY <1>1, <1>2 DEF current

LEMMA BeginKeeps ==
  ASSUME IInv, BeginChunk
  PROVE  IInv'
<1>1. /\ TypeOK /\ current \in Nat /\ MaxPieces \in Nat
      /\ offered \in Seq(1..MaxPieces)
  BY OfferedType, SizesAssumption DEF IInv
<1>2. PICK n \in 1..MaxPieces : offered' = Append(offered, n)
  BY DEF BeginChunk
<1>3. /\ offered' \in Seq(1..MaxPieces) /\ current' = current + 1
      /\ \A id \in 1..current : offered'[id] = offered[id]
      /\ offered'[current + 1] = n
  BY <1>1, <1>2, AppendElements DEF current
<1>4. TypeOK'
  <2>1. damaged' \subseteq 1..Len(offered')
    BY <1>1, <1>3 DEF BeginChunk, TypeOK, current
  <2> QED
    BY <1>1, <1>3, <2>1 DEF BeginChunk, TypeOK, receiverVars, restarts
<1>5. SenderNumbers'
  BY <1>1, <1>2, <1>3 DEF BeginChunk, IInv, SenderNumbers
<1>6. ChannelNumbers'
  <2>1. ASSUME NEW i \in 1..Len(channel)
        PROVE  WellNumbered(channel[i])' /\ BehindSender(channel[i].data)'
    <3>1. channel' = channel
      BY DEF BeginChunk
    <3>2. WellNumbered(channel[i])
      BY DEF IInv, ChannelNumbers
    <3>3. channel[i].data.id \in 1..current
      BY <3>2 DEF WellNumbered
    <3>4. WellNumbered(channel[i])'
      <4>1. offered'[channel[i].data.id] = offered[channel[i].data.id]
        BY <1>3, <3>3
      <4>2. channel[i].data.id \in 1..current'
        BY <1>1, <1>3, <3>3
      <4> QED
        BY <3>1, <3>2, <4>1, <4>2 DEF WellNumbered
    <3>5. BehindSender(channel[i].data)'
      BY <1>1, <1>3, <3>1, <3>3 DEF BehindSender
    <3> QED
      BY <3>4, <3>5
  <2> QED
    BY <2>1 DEF IInv, ChannelNumbers, BeginChunk, receiverVars, Before
<1>7. TakenNumbers'
  <2>1. taken.id \in Nat /\ taken.id <= current
    BY <1>1 DEF IInv, TypeOK, TakenNumbers, BehindSender, Piece, Nothing
  <2>2. BehindSender(taken)'
    BY <1>1, <1>3, <2>1 DEF BehindSender, BeginChunk, receiverVars
  <2>3. taken # Nothing => taken.id \in 1..current' /\ offered'[taken.id] = offered[taken.id]
    BY <1>1, <1>3 DEF IInv, TakenNumbers
  <2> QED
    BY <2>2, <2>3 DEF IInv, TakenNumbers, BeginChunk, receiverVars
<1>8. BufferPrefix'
  BY <1>1, <1>3 DEF IInv, TypeOK, TakenNumbers, BufferPrefix, BeginChunk, receiverVars,
     Nothing, Piece, FreshState
<1>9. DeliveredWhole'
  <2>1. \A id \in 1..current : Relay!Whole(id)' = Relay!Whole(id)
    BY <1>1, <1>3 DEF Relay!Whole
  <2> QED
    <3>1. delivered' = delivered
      BY DEF BeginChunk, receiverVars
    <3>2. \A i \in 1..Len(delivered) : \E id \in 1..current : delivered[i] = Relay!Whole(id)
      BY DEF IInv, DeliveredWhole, current
    <3>3. 1..current \subseteq 1..current'
      BY <1>1, <1>3
    <3>4. \A i \in 1..Len(delivered) : \E id \in 1..current' : delivered[i] = Relay!Whole(id)'
      BY <2>1, <3>2, <3>3
    <3> QED
      BY <3>1, <3>4 DEF DeliveredWhole, current
<1>10. DeliveredBehind'
  <2>1. \A i \in 1..Len(delivered) : delivered[i][1].id < taken.id \/
            (delivered[i][1].id = taken.id /\ taken.piece = offered[taken.id])
    BY DEF IInv, DeliveredBehind
  <2>2. taken # Nothing => offered'[taken.id] = offered[taken.id]
    BY <1>1, <1>3 DEF IInv, TakenNumbers
  <2>3. \A i \in 1..Len(delivered) : taken # Nothing
    <3>1. SUFFICES ASSUME NEW i \in 1..Len(delivered), taken = Nothing PROVE FALSE
      OBVIOUS
    <3>2. PICK id \in 1..current : delivered[i] = Relay!Whole(id)
      BY DEF IInv, DeliveredWhole, current
    <3>3. offered[id] \in Nat \ {0}
      BY <1>1, OfferedType
    <3>4. delivered[i][1].id = id
      BY <3>2, <3>3 DEF Relay!Whole
    <3>5. id <= 0
      BY <2>1, <3>1, <3>4 DEF Nothing
    <3> QED
      BY <1>1, <3>2, <3>5
  <2> QED
    BY <2>1, <2>2, <2>3 DEF DeliveredBehind, BeginChunk, receiverVars
<1> QED
  BY <1>4, <1>5, <1>6, <1>7, <1>8, <1>9, <1>10 DEF IInv

LEMMA TransmitKeeps ==
  ASSUME IInv, TransmitSegment
  PROVE  IInv'
<1>0. PICK h : h = NextSegment
  OBVIOUS
<1>1. /\ TypeOK /\ current \in Nat \ {0} /\ MaxPieces \in Nat
      /\ offered[current] \in 1..MaxPieces /\ offered[current] \in Nat \ {0}
      /\ transmitted \in Nat /\ transmitted < offered[current]
      /\ session = current - 1 /\ sequence = transmitted
      /\ channel \in Seq(Segment) /\ Len(channel) \in Nat
  <2>1. TypeOK /\ SenderNumbers /\ sending
    BY DEF IInv, TransmitSegment
  <2>2. /\ MaxPieces \in Nat /\ offered \in Seq(1..MaxPieces) /\ transmitted \in 0..MaxPieces
        /\ channel \in Seq(Segment)
    BY <2>1, SizesAssumption DEF TypeOK
  <2>3. /\ current > 0 /\ sequence = transmitted /\ transmitted < offered[current]
        /\ session = current - 1
    BY <2>1 DEF SenderNumbers
  <2>4. current \in Nat \ {0} /\ Len(channel) \in Nat
    BY <2>2, <2>3, LenProperties DEF current
  <2>5. offered[current] \in 1..MaxPieces
    BY <2>2, <2>4, ElementOfSeq DEF current
  <2> QED
    BY <2>1, <2>2, <2>3, <2>4, <2>5
<1>2. /\ offered' = offered /\ current' = current /\ transmitted' = transmitted + 1
      /\ UNCHANGED <<previous, hasBuffer, buffer, delivered, taken>>
  BY DEF TransmitSegment, receiverVars, current
<1>3. /\ h.data = [id |-> current, piece |-> transmitted + 1]
      /\ h.session = current - 1 /\ h.sequence = transmitted
      /\ h.last <=> transmitted + 1 = offered[current]
      /\ h.last = LastTransmission
      /\ h \in Segment /\ h.data \in Piece
  <2>1. h = [session |-> current - 1, sequence |-> transmitted, last |-> LastTransmission,
             data |-> [id |-> current, piece |-> transmitted + 1]]
    BY <1>0, <1>1 DEF NextSegment
  <2>2. LastTransmission <=> transmitted + 1 = offered[current]
    BY <1>1 DEF LastTransmission
  <2>3. LastTransmission \in BOOLEAN
    BY DEF LastTransmission
  <2>4. [id |-> current, piece |-> transmitted + 1] \in Piece
    BY <1>1 DEF Piece
  <2>5. h \in Segment
    BY <1>1, <2>1, <2>3, <2>4 DEF Segment
  <2> QED
    BY <2>1, <2>2, <2>4, <2>5
<1>4. \/ /\ channel' = Append(channel, h) /\ UNCHANGED damaged
      \/ /\ channel' = channel /\ damaged' = damaged \cup {current}
  BY <1>0 DEF TransmitSegment
<1>5. TypeOK'
  <2>1. damaged' \subseteq 1..Len(offered')
    <3>1. damaged \subseteq 1..current /\ current \in 1..current
      BY <1>1 DEF TypeOK, current
    <3> QED
      BY <1>2, <1>4, <3>1 DEF current
  <2>2. channel' \in Seq(Segment)
    <3>1. Append(channel, h) \in Seq(Segment)
      BY <1>1, <1>3, AppendElements
    <3> QED
      BY <1>1, <1>4, <3>1
  <2>3. session' \in Nat /\ sequence' \in Nat /\ sending' \in BOOLEAN
    BY <1>1, <1>3 DEF TransmitSegment, LastTransmission
  <2> QED
    <3>1. transmitted' \in 0..MaxPieces
      BY <1>1, <1>2
    <3>2. UNCHANGED <<senderRestarts, receiverRestarts>>
      BY DEF TransmitSegment, restarts
    <3> QED
      BY <1>1, <1>2, <2>1, <2>2, <2>3, <3>1, <3>2 DEF TypeOK
<1>6. SenderNumbers'
  <2>1. CASE LastTransmission
    <3>1. sending' = FALSE /\ session' = session + 1 /\ sequence' = 0
      BY <2>1 DEF TransmitSegment
    <3> QED
      BY <1>1, <1>2, <3>1 DEF SenderNumbers
  <2>2. CASE ~LastTransmission
    <3>1. sending' = TRUE /\ session' = session /\ sequence' = sequence + 1
      BY <2>2 DEF TransmitSegment
    <3>2. transmitted + 1 < offered[current]
      BY <1>1, <2>2 DEF LastTransmission
    <3> QED
      BY <1>1, <1>2, <3>1, <3>2 DEF SenderNumbers
  <2> QED
    BY <2>1, <2>2
<1>7. \A d \in Piece \cup {Nothing} : BehindSender(d) => BehindSender(d)'
  BY <1>1, <1>2 DEF BehindSender, TransmitSegment, Piece, Nothing
<1>8. ASSUME NEW d \in Piece \cup {Nothing}, BehindSender(d)
      PROVE  Before(d, h.data)
  BY <1>1, <1>3, <1>8 DEF BehindSender, Before, TransmitSegment, Piece, Nothing
<1>9. ChannelNumbers'
  <2>1. \A i \in 1..Len(channel) : channel[i] \in Segment /\ channel[i].data \in Piece
    <3>1. \A i \in 1..Len(channel) : channel[i] \in Segment
      BY <1>1, ElementOfSeq
    <3> QED
      BY <3>1 DEF Segment
  <2>2. CASE channel' = channel
    <3>1. \A i \in 1..Len(channel) : BehindSender(channel[i].data)'
      BY <2>1, <2>2, <1>7 DEF IInv, ChannelNumbers
    <3>2. \A i \in 1..Len(channel) : WellNumbered(channel[i])'
      BY <1>2, <2>2 DEF IInv, ChannelNumbers, WellNumbered
    <3> QED
      BY <1>2, <2>2, <3>1, <3>2 DEF IInv, ChannelNumbers
  <2>3. CASE channel' = Append(channel, h)
    <3>1. /\ Len(channel') = Len(channel) + 1 /\ channel'[Len(channel) + 1] = h
          /\ \A i \in 1..Len(channel) : channel'[i] = channel[i]
      BY <1>1, <1>3, <2>3, AppendElements
    <3>2. ASSUME NEW i \in 1..Len(channel)
          PROVE  /\ WellNumbered(channel[i])' /\ BehindSender(channel[i].data)'
                 /\ Before(taken, channel[i].data) /\ Before(channel[i].data, h.data)
                 /\ \A j \in 1..Len(channel) : i < j => Before(channel[i].data, channel[j].data)
      <4>1. BehindSender(channel[i].data) /\ WellNumbered(channel[i])
        BY DEF IInv, ChannelNumbers
      <4>2. channel'[i] = channel[i]
        BY <3>1
      <4> QED
        BY <4>1, <4>2, <1>2, <1>7, <1>8, <2>1 DEF IInv, ChannelNumbers, WellNumbered
    <3>3. WellNumbered(h)' /\ BehindSender(h.data)' /\ Before(taken, h.data)
      <4>1. Before(taken, h.data)
        BY <1>8 DEF IInv, TakenNumbers, TypeOK
      <4>2. h.data.id = current /\ h.data.piece = transmitted + 1
        BY <1>3
      <4> QED
        BY <4>1, <4>2, <1>1, <1>2, <1>3 DEF WellNumbered, BehindSender
    <3> QED
      <4>1. ASSUME NEW i \in 1..Len(channel')
            PROVE  /\ WellNumbered(channel[i])' /\ BehindSender(channel[i].data)'
                   /\ Before(taken, channel'[i].data)
                   /\ \A j \in 1..Len(channel') :
                        i < j => Before(channel'[i].data, channel'[j].data)
        <5>1. CASE i \in 1..Len(channel)
          <6>1. channel'[i] = channel[i]
            BY <3>1, <5>1
          <6>2. ASSUME NEW j \in 1..Len(channel'), i < j
                PROVE  Before(channel[i].data, channel'[j].data)
            <7>1. CASE j = Len(channel) + 1
              BY <3>1, <3>2, <5>1, <7>1
            <7>2. CASE j \in 1..Len(channel)
              BY <3>1, <3>2, <5>1, <6>2, <7>2
            <7> QED
              BY <1>1, <3>1, <7>1, <7>2
          <6> QED
            BY <3>2, <5>1, <6>1, <6>2
        <5>2. CASE i = Len(channel) + 1
          <6>1. \A j \in 1..Len(channel') : ~(i < j)
            BY <1>1, <3>1, <5>2
          <6>2. channel'[i] = h
            BY <3>1, <5>2
          <6>3. WellNumbered(channel[i])' /\ BehindSender(channel[i].data)'
            BY <3>3, <6>2 DEF WellNumbered, BehindSender
          <6> QED
            BY <3>3, <6>1, <6>2, <6>3
        <5> QED
          BY <1>1, <3>1, <5>1, <5>2
      <4> QED
        BY <1>2, <4>1 DEF ChannelNumbers
  <2> QED
    BY <1>4, <2>2, <2>3
<1>10. TakenNumbers'
  <2>1. BehindSender(taken)'
    BY <1>2, <1>7 DEF IInv, TypeOK, TakenNumbers
  <2> QED
    BY <1>2, <2>1 DEF IInv, TakenNumbers
<1>11. BufferPrefix' /\ DeliveredWhole' /\ DeliveredBehind'
  BY <1>2 DEF IInv, BufferPrefix, DeliveredWhole, DeliveredBehind, Relay!Whole
<1> QED
  BY <1>5, <1>6, <1>9, <1>10, <1>11 DEF IInv

(* What the receiver knows of the segment it takes.                        *)
Taking(h) ==
  /\ channel # <<>> /\ h = Head(channel) /\ channel' = Tail(channel)
  /\ h \in Segment /\ WellNumbered(h) /\ BehindSender(h.data) /\ Before(taken, h.data)

LEMMA TakingFacts ==
  ASSUME IInv, Process_ByteChunk
  PROVE  \E h : /\ Taking(h) /\ taken' = h.data
                /\ \/ TakeOnlySegment(h) \/ TakeFirstSegment(h) \/ TakeMiddleSegment(h)
                   \/ TakeLastSegment(h) \/ MissSegment(h)
<1>1. channel \in Seq(Segment) /\ channel # <<>> /\ channel' = Tail(channel)
  BY DEF IInv, TypeOK, Process_ByteChunk
<1>2. Head(channel) = channel[1] /\ 1 \in 1..Len(channel)
  BY <1>1, TailElements
<1>3. Head(channel) \in Segment
  BY <1>1, HeadTailProperties
<1>4. Taking(Head(channel))
  BY <1>1, <1>2, <1>3 DEF Taking, IInv, ChannelNumbers
<1> QED
  BY <1>4 DEF Process_ByteChunk

(* A segment that continues what the receiver holds is the next piece of   *)
(* the chunk whose beginning is in the buffer, or the buffer is missing.   *)
LEMMA ContinuesBeginning ==
  ASSUME IInv, NEW h, Taking(h), ~StartSequence(h), Continues(h), hasBuffer
  PROVE  /\ taken # Nothing /\ h.data = [id |-> taken.id, piece |-> taken.piece + 1]
         /\ buffer = Beginning(taken.id, taken.piece)
<1>1. /\ h.data \in Piece /\ h.data = [id |-> h.data.id, piece |-> h.data.piece]
      /\ h.data.id \in Nat \ {0} /\ h.data.piece \in Nat \ {0}
      /\ h.session = h.data.id - 1 /\ h.sequence = h.data.piece - 1
      /\ h.data.piece <= offered[h.data.id] /\ h.data.id \in 1..current
  BY SizesAssumption DEF Taking, Segment, Piece, WellNumbered
<1>2. /\ h.session = previous.session \/ h.session = 0
      /\ h.sequence = previous.sequence + 1
  BY DEF Continues, SameSession, SequenceContinuous
<1>3. taken # Nothing
  BY DEF IInv, BufferPrefix
<1>4. /\ taken \in Piece /\ taken.id \in Nat \ {0} /\ taken.piece \in Nat \ {0}
      /\ taken.id < h.data.id \/ (taken.id = h.data.id /\ taken.piece < h.data.piece)
  BY <1>3, SizesAssumption DEF IInv, TypeOK, Piece, Taking, Before
<1>5. ASSUME previous = FreshState, taken.id > 1 \/ taken.piece > 2 PROVE FALSE
  BY <1>1, <1>2, <1>4, <1>5 DEF FreshState
<1>6. ASSUME previous = [session |-> taken.id - 1, sequence |-> taken.piece - 1]
      PROVE  h.data.id = taken.id /\ h.data.piece = taken.piece + 1
  <2>1. previous.session = taken.id - 1 /\ previous.sequence = taken.piece - 1
    BY <1>6
  <2> QED
    BY <1>1, <1>2, <1>4, <2>1
<1>7. ASSUME previous = [session |-> taken.id - 1, sequence |-> taken.piece - 1],
             taken.piece = offered[taken.id]
      PROVE  FALSE
  <2>1. offered[taken.id] \in Nat
    BY <1>4, <1>7
  <2> QED
    BY <1>1, <1>4, <1>6, <1>7, <2>1
<1>8. /\ previous = [session |-> taken.id - 1, sequence |-> taken.piece - 1]
      /\ buffer = [p \in 1..taken.piece |-> [id |-> taken.id, piece |-> p]]
  BY <1>5, <1>7 DEF IInv, BufferPrefix
<1> QED
  BY <1>1, <1>3, <1>6, <1>8 DEF Beginning

(* The buffer with the next piece copied to its end.                       *)
LEMMA CopiedBeginning ==
  ASSUME IInv, NEW h, Taking(h), ~StartSequence(h), Continues(h), hasBuffer
  PROVE  /\ Copied(h) = Beginning(h.data.id, h.data.piece)
         /\ Copied(h) \in Seq(Piece)
<1>1. /\ taken # Nothing /\ h.data = [id |-> taken.id, piece |-> taken.piece + 1]
      /\ buffer = Beginning(taken.id, taken.piece)
  BY ContinuesBeginning
<1>2. h.data \in Piece /\ taken \in Piece
  BY <1>1 DEF Taking, Segment, IInv, TypeOK
<1>3. h.data.id = taken.id /\ h.data.piece = taken.piece + 1
  BY <1>1
<1>4. taken.id \in Nat \ {0} /\ taken.piece \in Nat /\ taken.piece < MaxPieces
  BY <1>2, <1>3, SizesAssumption DEF Piece
<1>5. Copied(h) = Append(Beginning(taken.id, taken.piece), [id |-> taken.id, piece |-> taken.piece + 1])
  BY <1>1 DEF Copied
<1> QED
  BY <1>3, <1>4, <1>5, BeginningGrows

(* Whatever the receiver does with a segment, the segments behind it and   *)
(* the sender's numbers stay as they were.                                 *)
LEMMA TakingKeepsNumbers ==
  ASSUME IInv, NEW h, Taking(h), taken' = h.data,
         UNCHANGED <<offered, senderVars, damaged, restarts>>,
         previous' \in {FreshState, UpdatePreviousSessionState(h)}
  PROVE  SenderNumbers' /\ ChannelNumbers' /\ TakenNumbers'
<1>1. offered' = offered /\ sending' = sending /\ transmitted' = transmitted
      /\ session' = session /\ sequence' = sequence /\ current' = current
  BY DEF senderVars, current
<1>2. SenderNumbers'
  BY <1>1 DEF IInv, SenderNumbers
<1>3. /\ channel \in Seq(Segment) /\ channel # <<>>
      /\ h = channel[1] /\ Len(channel') = Len(channel) - 1 /\ Len(channel) \in Nat \ {0}
      /\ \A i \in 1..Len(channel') : channel'[i] = channel[i + 1]
  BY TailElements DEF IInv, TypeOK, Taking
<1>4. ASSUME NEW i \in 1..Len(channel')
      PROVE  /\ WellNumbered(channel[i])' /\ BehindSender(channel[i].data)'
             /\ Before(h.data, channel'[i].data)
             /\ \A j \in 1..Len(channel') : i < j => Before(channel'[i].data, channel'[j].data)
  <2>1. i + 1 \in 1..Len(channel) /\ 1 \in 1..Len(channel) /\ channel'[i] = channel[i + 1]
        /\ 1 < i + 1
    BY <1>3
  <2>2. /\ WellNumbered(channel[i + 1]) /\ BehindSender(channel[i + 1].data)
        /\ Before(h.data, channel[i + 1].data)
    BY <1>3, <2>1 DEF IInv, ChannelNumbers
  <2>3. WellNumbered(channel[i])' /\ BehindSender(channel[i].data)'
    BY <1>1, <2>1, <2>2 DEF WellNumbered, BehindSender
  <2>4. ASSUME NEW j \in 1..Len(channel'), i < j
        PROVE  Before(channel'[i].data, channel'[j].data)
    <3>1. j + 1 \in 1..Len(channel) /\ i + 1 < j + 1 /\ channel'[j] = channel[j + 1]
      BY <1>3, <2>4
    <3> QED
      BY <2>1, <3>1 DEF IInv, ChannelNumbers
  <2> QED
    BY <2>1, <2>2, <2>3, <2>4
<1>5. ChannelNumbers'
  BY <1>4 DEF ChannelNumbers
<1>6. TakenNumbers'
  <2>1. BehindSender(taken)'
    BY <1>1 DEF Taking, BehindSender
  <2>2. taken'.id \in 1..current' /\ taken'.piece \in 1..offered'[taken'.id]
    BY <1>1 DEF Taking, WellNumbered
  <2>3. UpdatePreviousSessionState(h) = [session |-> taken'.id - 1, sequence |-> taken'.piece - 1]
    BY DEF Taking, WellNumbered, UpdatePreviousSessionState
  <2> QED
    BY <2>1, <2>2, <2>3 DEF TakenNumbers
<1> QED
  BY <1>2, <1>5, <1>6

(* The receiver's buffer after a segment.                                  *)
LEMMA TakingKeepsBuffer ==
  ASSUME IInv, NEW h, Taking(h), taken' = h.data, UNCHANGED offered,
         \/ TakeOnlySegment(h) \/ TakeFirstSegment(h) \/ TakeMiddleSegment(h)
         \/ TakeLastSegment(h) \/ MissSegment(h)
  PROVE  /\ BufferPrefix' /\ buffer' \in Seq(Piece) /\ hasBuffer' \in BOOLEAN
         /\ previous' \in {FreshState, UpdatePreviousSessionState(h)}
<1>1. /\ h.data \in Piece /\ h.data = [id |-> h.data.id, piece |-> h.data.piece]
      /\ h.data.id \in Nat \ {0} /\ h.data.piece \in Nat \ {0} /\ h.data # Nothing
      /\ h.session = h.data.id - 1 /\ h.sequence = h.data.piece - 1
      /\ offered[h.data.id] \in Nat \ {0} /\ h.data.piece <= offered[h.data.id]
      /\ h.last <=> h.data.piece = offered[h.data.id]
  <2>1. h \in Segment /\ WellNumbered(h)
    BY DEF Taking
  <2>2. /\ h.data \in Piece /\ h.data = [id |-> h.data.id, piece |-> h.data.piece]
        /\ h.data.id \in Nat \ {0} /\ h.data.piece \in 1..MaxPieces
    BY <2>1 DEF Segment, Piece
  <2>3. /\ h.data.id \in 1..current /\ h.data.piece \in 1..offered[h.data.id]
        /\ h.session = h.data.id - 1 /\ h.sequence = h.data.piece - 1
        /\ h.last <=> h.data.piece = offered[h.data.id]
    BY <2>1 DEF WellNumbered
  <2>4. offered[h.data.id] \in Nat \ {0}
    BY <2>3, OfferedType DEF IInv
  <2>5. h.data.piece \in Nat \ {0}
    BY <2>2, SizesAssumption
  <2> QED
    BY <2>2, <2>3, <2>4, <2>5 DEF Nothing
<1>2. UpdatePreviousSessionState(h) = [session |-> h.data.id - 1, sequence |-> h.data.piece - 1]
  BY <1>1 DEF UpdatePreviousSessionState
<1>3. <<>> \in Seq(Piece) /\ buffer \in Seq(Piece) /\ hasBuffer \in BOOLEAN
  BY EmptySeq DEF IInv, TypeOK
<1>4. ASSUME h.last, hasBuffer' = TRUE, buffer' = <<>>,
             previous' = UpdatePreviousSessionState(h)
      PROVE  BufferPrefix'
  BY <1>1, <1>2, <1>4 DEF BufferPrefix
<1>5. ASSUME ~h.last, hasBuffer' = TRUE, buffer' = Beginning(h.data.id, h.data.piece),
             previous' = UpdatePreviousSessionState(h), buffer' # <<>>
      PROVE  BufferPrefix'
  <2>1. h.data.piece < offered[h.data.id]
    BY <1>1, <1>5
  <2> QED
    BY <1>1, <1>2, <1>5, <2>1 DEF BufferPrefix, Beginning
<1>6. ASSUME hasBuffer' = FALSE, buffer' = <<>> PROVE BufferPrefix'
  BY <1>6 DEF BufferPrefix
<1>7. \A id \in Nat \ {0}, n \in Nat \ {0} : Beginning(id, n) # <<>>
  BY DEF Beginning
<1>8. CASE TakeOnlySegment(h)
  BY <1>3, <1>4, <1>8 DEF TakeOnlySegment
<1>9. CASE TakeFirstSegment(h)
  <2>1. h.data.piece = 1
    BY <1>1, <1>9 DEF TakeFirstSegment, StartSequence
  <2>2. <<h.data>> = Beginning(h.data.id, 1)
    BY <1>1, <2>1 DEF Beginning
  <2>3. <<h.data>> \in Seq(Piece)
    BY <1>1
  <2> QED
    BY <1>1, <1>5, <1>7, <1>9, <2>1, <2>2, <2>3 DEF TakeFirstSegment
<1>10. CASE TakeMiddleSegment(h)
  <2>1. CASE hasBuffer
    <3>1. Copied(h) = Beginning(h.data.id, h.data.piece) /\ Copied(h) \in Seq(Piece)
      BY <1>10, <2>1, CopiedBeginning DEF TakeMiddleSegment
    <3> QED
      BY <1>1, <1>5, <1>7, <1>10, <2>1, <3>1 DEF TakeMiddleSegment
  <2>2. CASE ~hasBuffer
    BY <1>3, <1>6, <1>10, <2>2 DEF TakeMiddleSegment, Copied, IInv, BufferPrefix
  <2> QED
    BY <2>1, <2>2
<1>11. CASE TakeLastSegment(h)
  <2>1. CASE hasBuffer
    BY <1>3, <1>4, <1>11, <2>1 DEF TakeLastSegment
  <2>2. CASE ~hasBuffer
    BY <1>3, <1>6, <1>11, <2>2 DEF TakeLastSegment, IInv, BufferPrefix
  <2> QED
    BY <2>1, <2>2
<1>12. CASE MissSegment(h)
  <2>1. previous' = FreshState /\ hasBuffer' = TRUE /\ buffer' = <<>>
    BY <1>12 DEF MissSegment
  <2>2. h.data.id > 1 \/ h.data.piece > 2
    <3> SUFFICES ASSUME h.data.id = 1, h.data.piece = 2 PROVE FALSE
      BY <1>1, <1>12 DEF MissSegment, StartSequence
    <3>1. h.session = 0 /\ h.sequence = 1
      BY <1>1
    <3>2. previous.sequence # 0
      BY <1>12, <3>1 DEF MissSegment, Continues, SameSession, SequenceContinuous
    <3>3. previous = [session |-> taken.id - 1, sequence |-> taken.piece - 1]
      BY <3>2 DEF IInv, TakenNumbers, FreshState
    <3>4. taken.id - 1 \in Nat /\ taken.piece - 1 \in Nat /\ taken.piece - 1 # 0
      BY <3>2, <3>3 DEF IInv, TypeOK
    <3>5. taken \in Piece
      BY <3>4 DEF IInv, TypeOK, Nothing
    <3>6. taken.id \in Nat /\ taken.piece \in Nat
      BY <3>5, SizesAssumption DEF Piece
    <3>7. taken.id < 1 \/ (taken.id = 1 /\ taken.piece < 2)
      BY DEF Taking, Before
    <3> QED
      BY <3>4, <3>6, <3>7
  <2> QED
    BY <1>1, <1>3, <2>1, <2>2 DEF BufferPrefix
<1> QED
  BY <1>8, <1>9, <1>10, <1>11, <1>12

(* What the receiver passes on, if anything, is the whole chunk its last   *)
(* segment ends.                                                           *)
LEMMA TakingDelivers ==
  ASSUME IInv, NEW h, Taking(h),
         \/ TakeOnlySegment(h) \/ TakeFirstSegment(h) \/ TakeMiddleSegment(h)
         \/ TakeLastSegment(h) \/ MissSegment(h)
  PROVE  \/ delivered' = delivered
         \/ /\ delivered' = Append(delivered, Relay!Whole(h.data.id))
            /\ h.data.piece = offered[h.data.id]
            /\ Relay!Whole(h.data.id) \in Seq(Piece)
<1>1. /\ h.data \in Piece /\ h.data = [id |-> h.data.id, piece |-> h.data.piece]
      /\ h.data.id \in Nat \ {0} /\ h.data.piece \in Nat \ {0}
      /\ h.sequence = h.data.piece - 1
      /\ h.last <=> h.data.piece = offered[h.data.id]
  BY SizesAssumption DEF Taking, Segment, Piece, WellNumbered
<1>2. Relay!Whole(h.data.id) = Beginning(h.data.id, offered[h.data.id])
  BY DEF Relay!Whole, Beginning
<1>3. CASE TakeOnlySegment(h)
  <2>1. h.data.piece = 1 /\ offered[h.data.id] = 1
    BY <1>1, <1>3 DEF TakeOnlySegment, StartSequence
  <2>2. <<h.data>> = Beginning(h.data.id, 1)
    BY <1>1, <2>1 DEF Beginning
  <2>3. <<h.data>> \in Seq(Piece)
    BY <1>1
  <2> QED
    BY <1>2, <1>3, <2>1, <2>2, <2>3 DEF TakeOnlySegment
<1>4. CASE TakeLastSegment(h) /\ hasBuffer
  <2>1. Copied(h) = Beginning(h.data.id, h.data.piece) /\ Copied(h) \in Seq(Piece)
    BY <1>4, CopiedBeginning DEF TakeLastSegment
  <2>2. h.data.piece = offered[h.data.id]
    BY <1>1, <1>4 DEF TakeLastSegment
  <2> QED
    BY <1>2, <1>4, <2>1, <2>2 DEF TakeLastSegment
<1> QED
  BY <1>3, <1>4 DEF TakeFirstSegment, TakeMiddleSegment, TakeLastSegment, MissSegment

(* Every chunk passed on before lies behind the segment now taken.         *)
LEMMA DeliveredBefore ==
  ASSUME IInv, NEW h, Taking(h), NEW i \in 1..Len(delivered)
  PROVE  /\ delivered[i][1].id < h.data.id
         /\ \E id \in 1..current : delivered[i] = Relay!Whole(id)
<1>1. PICK id \in 1..current : delivered[i] = Relay!Whole(id)
  BY DEF IInv, DeliveredWhole, current
<1>2. offered[id] \in Nat \ {0} /\ current \in Nat
  BY OfferedType DEF IInv
<1>3. delivered[i][1].id = id
  BY <1>1, <1>2 DEF Relay!Whole
<1>4. \/ id < taken.id
      \/ id = taken.id /\ taken.piece = offered[taken.id]
  BY <1>3 DEF IInv, DeliveredBehind
<1>5. /\ taken.id \in Nat /\ taken.piece \in Nat
      /\ h.data.id \in Nat /\ h.data.piece \in Nat
      /\ h.data.piece <= offered[h.data.id]
      /\ taken.id < h.data.id \/ (taken.id = h.data.id /\ taken.piece < h.data.piece)
  <2>1. taken \in Piece \cup {Nothing} /\ h.data \in Piece
    BY DEF IInv, TypeOK, Taking, Segment
  <2>2. taken.id \in Nat /\ taken.piece \in Nat /\ h.data.id \in Nat /\ h.data.piece \in Nat
    BY <2>1, SizesAssumption DEF Piece, Nothing
  <2> QED
    BY <2>2 DEF Taking, Before, WellNumbered
<1>6. id < h.data.id
  BY <1>2, <1>4, <1>5
<1> QED
  BY <1>1, <1>3, <1>6

LEMMA ProcessKeeps ==
  ASSUME IInv, Process_ByteChunk
  PROVE  IInv'
<1>1. PICK h : /\ Taking(h) /\ taken' = h.data
               /\ \/ TakeOnlySegment(h) \/ TakeFirstSegment(h) \/ TakeMiddleSegment(h)
                  \/ TakeLastSegment(h) \/ MissSegment(h)
  BY TakingFacts
<1>2. /\ UNCHANGED <<offered, senderVars, damaged, restarts>> /\ offered' = offered
      /\ current' = current
  BY DEF Process_ByteChunk, current
<1>3. /\ BufferPrefix' /\ buffer' \in Seq(Piece) /\ hasBuffer' \in BOOLEAN
      /\ previous' \in {FreshState, UpdatePreviousSessionState(h)}
  BY <1>1, <1>2, TakingKeepsBuffer
<1>4. SenderNumbers' /\ ChannelNumbers' /\ TakenNumbers'
  BY <1>1, <1>2, <1>3, TakingKeepsNumbers
<1>5. \/ delivered' = delivered
      \/ /\ delivered' = Append(delivered, Relay!Whole(h.data.id))
         /\ h.data.piece = offered[h.data.id]
         /\ Relay!Whole(h.data.id) \in Seq(Piece)
  BY <1>1, TakingDelivers
<1>6. delivered \in Seq(Seq(Piece)) /\ Len(delivered) \in Nat
  BY DEF IInv, TypeOK
<1>7. TypeOK'
  <2>1. channel' \in Seq(Segment)
    BY <1>1, TailElements DEF IInv, TypeOK, Taking
  <2>2. previous' \in [session : Nat, sequence : Nat]
    BY <1>1, <1>3 DEF FreshState, UpdatePreviousSessionState, Taking, Segment
  <2>3. delivered' \in Seq(Seq(Piece))
    <3>1. ASSUME NEW e \in Seq(Piece) PROVE Append(delivered, e) \in Seq(Seq(Piece))
      BY <1>6, AppendElements
    <3> QED
      BY <1>5, <1>6, <3>1
  <2>4. taken' \in Piece
    BY <1>1 DEF Taking, Segment
  <2> QED
    BY <1>2, <1>3, <2>1, <2>2, <2>3, <2>4 DEF IInv, TypeOK, senderVars, restarts
<1>8. \A id : Relay!Whole(id)' = Relay!Whole(id)
  BY <1>2 DEF Relay!Whole
<1>9. /\ h.data.id \in 1..current /\ offered[h.data.id] \in Nat \ {0}
  BY <1>1, OfferedType DEF Taking, WellNumbered, IInv
<1>10. Relay!Whole(h.data.id)[1].id = h.data.id
  BY <1>9 DEF Relay!Whole
<1>11. ASSUME NEW i \in 1..Len(delivered')
       PROVE  /\ \E id \in 1..current : delivered'[i] = Relay!Whole(id)
              /\ \/ delivered'[i][1].id < h.data.id
                 \/ delivered'[i][1].id = h.data.id /\ h.data.piece = offered[h.data.id]
  <2>1. CASE delivered' = delivered
    BY <1>1, <2>1, DeliveredBefore
  <2>2. CASE /\ delivered' = Append(delivered, Relay!Whole(h.data.id))
             /\ h.data.piece = offered[h.data.id]
             /\ Relay!Whole(h.data.id) \in Seq(Piece)
    <3>1. /\ Len(delivered') = Len(delivered) + 1
          /\ \A j \in 1..Len(delivered) : delivered'[j] = delivered[j]
          /\ delivered'[Len(delivered) + 1] = Relay!Whole(h.data.id)
      BY <1>6, <2>2, AppendElements
    <3>2. CASE i \in 1..Len(delivered)
      BY <1>1, <3>1, <3>2, DeliveredBefore
    <3>3. CASE i = Len(delivered) + 1
      BY <1>9, <1>10, <2>2, <3>1, <3>3
    <3> QED
      BY <1>6, <3>1, <3>2, <3>3
  <2> QED
    BY <1>5, <2>1, <2>2
<1>12. DeliveredWhole'
  BY <1>2, <1>8, <1>11 DEF DeliveredWhole, current
<1>13. DeliveredBehind'
  BY <1>1, <1>2, <1>11 DEF DeliveredBehind
<1> QED
  BY <1>3, <1>4, <1>7, <1>12, <1>13 DEF IInv

LEMMA ReceiverRestartKeeps ==
  ASSUME IInv, ReceiverRestart
  PROVE  IInv'
<1>1. /\ offered' = offered /\ current' = current /\ channel' = <<>>
      /\ UNCHANGED senderVars
      /\ UNCHANGED <<sending, transmitted, session, sequence, delivered, taken>>
      /\ previous' = FreshState /\ hasBuffer' = FALSE /\ buffer' = <<>>
  BY DEF ReceiverRestart, current, senderVars
<1>2. TypeOK'
  <2>1. damaged' \subseteq 1..Len(offered')
    <3>1. \A i \in 1..Len(channel) : channel[i].data.id \in 1..Len(offered)
      BY DEF IInv, ChannelNumbers, WellNumbered, current
    <3>2. taken.id # 0 => taken.id \in 1..Len(offered)
      BY DEF IInv, TakenNumbers, Nothing, current
    <3>3. damaged \subseteq 1..Len(offered)
      BY DEF IInv, TypeOK
    <3> QED
      BY <1>1, <3>1, <3>2, <3>3 DEF ReceiverRestart
  <2>2. <<>> \in Seq(Segment) /\ <<>> \in Seq(Piece)
    BY EmptySeq
  <2>3. FreshState \in [session : Nat, sequence : Nat]
    BY DEF FreshState
  <2>4. receiverRestarts' \in Nat /\ senderRestarts' \in Nat
    BY DEF ReceiverRestart, IInv, TypeOK
  <2> QED
    BY <1>1, <2>1, <2>2, <2>3, <2>4 DEF IInv, TypeOK
<1>3. SenderNumbers'
  BY <1>1 DEF IInv, SenderNumbers
<1>4. ChannelNumbers'
  <2>1. Len(channel') = 0
    BY <1>1
  <2> QED
    BY <2>1 DEF ChannelNumbers
<1>5. TakenNumbers'
  <2>1. BehindSender(taken)'
    BY <1>1 DEF IInv, TakenNumbers, BehindSender
  <2> QED
    BY <1>1, <2>1 DEF IInv, TakenNumbers
<1>6. BufferPrefix'
  BY <1>1 DEF BufferPrefix
<1>7. DeliveredWhole' /\ DeliveredBehind'
  BY <1>1 DEF IInv, DeliveredWhole, DeliveredBehind, Relay!Whole
<1> QED
  BY <1>2, <1>3, <1>4, <1>5, <1>6, <1>7 DEF IInv

LEMMA IInvNext ==
  ASSUME MaxSenderRestarts = 0, IInv, [Next]_vars
  PROVE  IInv'
<1>1. ~SenderRestart
  BY DEF SenderRestart, IInv, TypeOK
<1>2. CASE UNCHANGED vars
  BY <1>2 DEF vars, senderVars, receiverVars, restarts, IInv, TypeOK, SenderNumbers,
     ChannelNumbers, TakenNumbers, BufferPrefix, DeliveredWhole, DeliveredBehind,
     BehindSender, WellNumbered, Relay!Whole, current
<1> QED
  BY <1>1, <1>2, BeginKeeps, TransmitKeeps, ProcessKeeps, ReceiverRestartKeeps DEF Next

(* While the sender keeps running, IInv holds in every state.              *)
THEOREM SessionInvariant == ASSUME MaxSenderRestarts = 0 PROVE Spec => []IInv
BY IInvInit, IInvNext, PTL DEF Spec

(* While the sender keeps running, what Process_ByteChunk passes on is     *)
(* always one whole chunk, whatever TryPassChunk and the network drop and  *)
(* however often the receiver restarts.                                    *)
THEOREM ChunksWhole == ASSUME MaxSenderRestarts = 0 PROVE Spec => []DeliveredWhole
<1>1. IInv => DeliveredWhole
  BY DEF IInv
<1> QED
  BY <1>1, SessionInvariant, PTL

-----------------------------------------------------------------------------
(* The session layer implements the relay.                                 *)

LEMMA RelayInitial == Init => Relay!RelayInit
BY DEF Init, Relay!RelayInit

LEMMA RelayStep ==
  ASSUME MaxSenderRestarts = 0, IInv, [Next]_vars
  PROVE  [Relay!RelayNext]_(Relay!relayVars)
<1>1. CASE BeginChunk
  BY <1>1 DEF BeginChunk, receiverVars, Relay!RelayNext, Relay!Offer
<1>2. CASE Process_ByteChunk
  <2>1. PICK h : /\ Taking(h)
                 /\ \/ TakeOnlySegment(h) \/ TakeFirstSegment(h) \/ TakeMiddleSegment(h)
                    \/ TakeLastSegment(h) \/ MissSegment(h)
    BY <1>2, TakingFacts
  <2>2. offered' = offered
    BY <1>2 DEF Process_ByteChunk
  <2>3. CASE delivered' = delivered
    BY <2>2, <2>3 DEF Relay!relayVars
  <2>4. CASE delivered' = Append(delivered, Relay!Whole(h.data.id))
    <3>1. h.data.id \in 1..Len(offered)
      BY <2>1 DEF Taking, WellNumbered, current
    <3>2. \A i \in 1..Len(delivered) : delivered[i][1].id < h.data.id
      BY <2>1, DeliveredBefore
    <3> QED
      BY <2>2, <2>4, <3>1, <3>2 DEF Relay!RelayNext, Relay!Deliver
  <2> QED
    BY <2>1, <2>3, <2>4, TakingDelivers
<1>3. CASE TransmitSegment \/ ReceiverRestart \/ UNCHANGED vars
  BY <1>3 DEF TransmitSegment, ReceiverRestart, vars, receiverVars, Relay!relayVars
<1>4. ~SenderRestart
  BY DEF SenderRestart, IInv, TypeOK
<1> QED
  BY <1>1, <1>2, <1>3, <1>4 DEF Next

(* While the sender keeps running, the session layer is a relay: chunks    *)
(* arrive whole, at most once each and in the order they were handed over. *)
THEOREM SessionImplementsRelay == ASSUME MaxSenderRestarts = 0 PROVE Spec => RefinesRelay
BY RelayInitial, RelayStep, SessionInvariant, PTL DEF Spec, RefinesRelay, Relay!RelaySpec

-----------------------------------------------------------------------------
(* Restarts of both ends.  The session numbers repeat then, and say        *)
(* nothing; the sequence numbers still say which piece a segment has.      *)

SenderPlace ==
  IF sending THEN current > 0 /\ sequence = transmitted /\ transmitted < offered[current]
  ELSE sequence = 0

Placed(h) ==
  /\ h.data.id \in 1..current /\ h.data.piece \in 1..offered[h.data.id]
  /\ h.sequence = h.data.piece - 1
  /\ h.last <=> h.data.piece = offered[h.data.id]

ChannelPlaces ==
  \A i \in 1..Len(channel) :
    /\ Placed(channel[i]) /\ taken.id <= channel[i].data.id
    /\ \A j \in 1..Len(channel) : i < j => channel[i].data.id <= channel[j].data.id

(* The pieces held are consecutive up to the last segment's.               *)
BufferRun ==
  buffer # <<>> =>
    /\ hasBuffer /\ Consecutive(buffer)
    /\ buffer[Len(buffer)].piece = previous.sequence + 1
    /\ buffer[Len(buffer)].id <= taken.id

DeliveredRun(d) ==
  /\ d # <<>> /\ Consecutive(d)
  /\ d[Len(d)].id \in 1..current /\ d[Len(d)].piece = offered[d[Len(d)].id]

RestartInv ==
  /\ TypeOK /\ SenderPlace /\ ChannelPlaces /\ taken.id <= current /\ BufferRun
  /\ \A i \in 1..Len(delivered) : DeliveredRun(delivered[i])

LEMMA ConsecutiveGrows ==
  ASSUME NEW d \in Seq(Piece), NEW e \in Piece,
         d # <<>> => Consecutive(d) /\ e.piece = d[Len(d)].piece + 1 /\ d[Len(d)].id <= e.id
  PROVE  /\ Append(d, e) \in Seq(Piece) /\ Append(d, e) # <<>> /\ Consecutive(Append(d, e))
         /\ Append(d, e)[Len(Append(d, e))] = e
<1>1. PICK t : t = Append(d, e)
  OBVIOUS
<1>2. /\ t \in Seq(Piece) /\ Len(t) = Len(d) + 1 /\ Len(d) \in Nat
      /\ \A i \in 1..Len(d) : t[i] = d[i]
      /\ t[Len(d) + 1] = e
  BY <1>1, AppendElements, LenProperties
<1>3. t # <<>>
  BY <1>2, EmptySeq
<1>4. ASSUME NEW k \in 1..Len(t) - 1
      PROVE  t[k + 1].piece = t[k].piece + 1 /\ t[k].id <= t[k + 1].id
  <2>1. CASE k = Len(d)
    <3>1. d # <<>> /\ k \in 1..Len(d)
      BY <1>2, <1>4, <2>1, EmptySeq
    <3> QED
      BY <1>2, <2>1, <3>1
  <2>2. CASE k # Len(d)
    <3>1. k \in 1..Len(d) - 1 /\ k \in 1..Len(d) /\ k + 1 \in 1..Len(d) /\ d # <<>>
      BY <1>2, <1>4, <2>2, EmptySeq
    <3>2. d[k + 1].piece = d[k].piece + 1 /\ d[k].id <= d[k + 1].id
      BY <3>1 DEF Consecutive
    <3> QED
      BY <1>2, <3>1, <3>2
  <2> QED
    BY <2>1, <2>2
<1>5. Consecutive(t)
  BY <1>4 DEF Consecutive
<1> QED
  BY <1>1, <1>2, <1>3, <1>5

LEMMA RestartInvInit == Init => RestartInv
<1> SUFFICES ASSUME Init PROVE RestartInv
  OBVIOUS
<1>1. TypeOK
  BY IInvInit DEF IInv
<1>2. Len(<<>>) = 0 /\ \A i : i \notin 1..0
  OBVIOUS
<1>3. SenderPlace /\ BufferRun
  BY DEF Init, SenderPlace, BufferRun
<1>4. ChannelPlaces /\ taken.id <= current /\ \A i \in 1..Len(delivered) : DeliveredRun(delivered[i])
  BY <1>2 DEF Init, ChannelPlaces, Nothing, current
<1> QED
  BY <1>1, <1>3, <1>4 DEF RestartInv

LEMMA BeginPlaces ==
  ASSUME RestartInv, BeginChunk
  PROVE  RestartInv'
<1>1. /\ TypeOK /\ current \in Nat /\ MaxPieces \in Nat
      /\ offered \in Seq(1..MaxPieces)
  BY OfferedType, SizesAssumption DEF RestartInv
<1>2. PICK n \in 1..MaxPieces : offered' = Append(offered, n)
  BY DEF BeginChunk
<1>3. /\ offered' \in Seq(1..MaxPieces) /\ current' = current + 1
      /\ \A id \in 1..current : id \in 1..current' /\ offered'[id] = offered[id]
      /\ offered'[current + 1] = n
  BY <1>1, <1>2, AppendElements DEF current
<1>4. /\ sending' = TRUE /\ transmitted' = 0
      /\ UNCHANGED <<session, sequence, channel, previous, hasBuffer, buffer, delivered, taken,
                     damaged, senderRestarts, receiverRestarts>>
  BY DEF BeginChunk, receiverVars, restarts
<1>5. TypeOK'
  <2>1. damaged' \subseteq 1..Len(offered')
    BY <1>1, <1>3, <1>4 DEF TypeOK, current
  <2> QED
    BY <1>1, <1>3, <1>4, <2>1 DEF TypeOK
<1>6. SenderPlace'
  <2>1. sequence = 0
    BY DEF BeginChunk, RestartInv, SenderPlace
  <2> QED
    BY <1>1, <1>2, <1>3, <1>4, <2>1 DEF SenderPlace
<1>7. ChannelPlaces'
  <2>1. ASSUME NEW i \in 1..Len(channel) PROVE Placed(channel[i])'
    BY <1>3, <1>4 DEF RestartInv, ChannelPlaces, Placed
  <2> QED
    BY <1>4, <2>1 DEF RestartInv, ChannelPlaces
<1>8. taken.id <= current'
  <2>1. taken.id \in Nat /\ taken.id <= current
    BY <1>1 DEF RestartInv, TypeOK, Piece, Nothing
  <2> QED
    BY <1>1, <1>3, <2>1
<1>9. BufferRun'
  BY <1>4 DEF RestartInv, BufferRun, Consecutive
<1>10. ASSUME NEW i \in 1..Len(delivered) PROVE DeliveredRun(delivered[i])'
  BY <1>3, <1>4 DEF RestartInv, DeliveredRun, Consecutive
<1> QED
  BY <1>4, <1>5, <1>6, <1>7, <1>8, <1>9, <1>10 DEF RestartInv

LEMMA TransmitPlaces ==
  ASSUME RestartInv, TransmitSegment
  PROVE  RestartInv'
<1>0. PICK h : h = NextSegment
  OBVIOUS
<1>1. /\ TypeOK /\ current \in Nat \ {0} /\ MaxPieces \in Nat
      /\ offered[current] \in 1..MaxPieces /\ offered[current] \in Nat \ {0}
      /\ transmitted \in Nat /\ transmitted < offered[current] /\ sequence = transmitted
      /\ session \in Nat /\ channel \in Seq(Segment) /\ Len(channel) \in Nat
  <2>1. TypeOK /\ SenderPlace /\ sending
    BY DEF RestartInv, TransmitSegment
  <2>2. /\ MaxPieces \in Nat /\ offered \in Seq(1..MaxPieces) /\ transmitted \in 0..MaxPieces
        /\ channel \in Seq(Segment) /\ session \in Nat
    BY <2>1, SizesAssumption DEF TypeOK
  <2>3. current > 0 /\ sequence = transmitted /\ transmitted < offered[current]
    BY <2>1 DEF SenderPlace
  <2>4. current \in Nat \ {0} /\ Len(channel) \in Nat
    BY <2>2, <2>3, LenProperties DEF current
  <2>5. offered[current] \in 1..MaxPieces
    BY <2>2, <2>4, ElementOfSeq DEF current
  <2> QED
    BY <2>1, <2>2, <2>3, <2>4, <2>5
<1>2. /\ offered' = offered /\ current' = current /\ transmitted' = transmitted + 1
      /\ UNCHANGED <<previous, hasBuffer, buffer, delivered, taken, senderRestarts, receiverRestarts>>
  BY DEF TransmitSegment, receiverVars, restarts, current
<1>3. /\ h.data.id = current /\ h.data.piece = transmitted + 1 /\ h.sequence = transmitted
      /\ h.last <=> transmitted + 1 = offered[current]
      /\ h \in Segment
  <2>1. h = [session |-> session, sequence |-> transmitted, last |-> LastTransmission,
             data |-> [id |-> current, piece |-> transmitted + 1]]
    BY <1>0, <1>1 DEF NextSegment
  <2>2. LastTransmission <=> transmitted + 1 = offered[current]
    BY <1>1 DEF LastTransmission
  <2>3. LastTransmission \in BOOLEAN
    BY DEF LastTransmission
  <2>4. [id |-> current, piece |-> transmitted + 1] \in Piece
    BY <1>1 DEF Piece
  <2>5. h \in Segment
    BY <1>1, <2>1, <2>3, <2>4 DEF Segment
  <2> QED
    BY <2>1, <2>2, <2>5
<1>4. \/ /\ channel' = Append(channel, h) /\ UNCHANGED damaged
      \/ /\ channel' = channel /\ damaged' = damaged \cup {current}
  BY <1>0 DEF TransmitSegment
<1>5. TypeOK'
  <2>1. damaged' \subseteq 1..Len(offered')
    <3>1. damaged \subseteq 1..current /\ current \in 1..current
      BY <1>1 DEF TypeOK, current
    <3> QED
      BY <1>2, <1>4, <3>1 DEF current
  <2>2. channel' \in Seq(Segment)
    <3>1. Append(channel, h) \in Seq(Segment)
      BY <1>1, <1>3, AppendElements
    <3> QED
      BY <1>1, <1>4, <3>1
  <2>3. session' \in Nat /\ sequence' \in Nat /\ sending' \in BOOLEAN
    BY <1>1 DEF TransmitSegment, LastTransmission
  <2>4. transmitted' \in 0..MaxPieces
    BY <1>1, <1>2
  <2> QED
    BY <1>1, <1>2, <2>1, <2>2, <2>3, <2>4 DEF TypeOK
<1>6. SenderPlace'
  <2>1. CASE LastTransmission
    <3>1. sending' = FALSE /\ sequence' = 0
      BY <2>1 DEF TransmitSegment
    <3> QED
      BY <3>1 DEF SenderPlace
  <2>2. CASE ~LastTransmission
    <3>1. sending' = TRUE /\ sequence' = sequence + 1
      BY <2>2 DEF TransmitSegment
    <3>2. transmitted + 1 < offered[current]
      BY <1>1, <2>2 DEF LastTransmission
    <3> QED
      BY <1>1, <1>2, <3>1, <3>2 DEF SenderPlace
  <2> QED
    BY <2>1, <2>2
<1>7. ChannelPlaces'
  <2>1. ASSUME NEW i \in 1..Len(channel)
        PROVE  /\ channel[i].data.id \in 1..current /\ channel[i].data.piece \in 1..offered[channel[i].data.id]
               /\ channel[i].sequence = channel[i].data.piece - 1
               /\ channel[i].last <=> channel[i].data.piece = offered[channel[i].data.id]
               /\ taken.id <= channel[i].data.id
               /\ \A j \in 1..Len(channel) : i < j => channel[i].data.id <= channel[j].data.id
    BY DEF RestartInv, ChannelPlaces, Placed
  <2>2. CASE channel' = channel
    BY <1>2, <2>1, <2>2 DEF ChannelPlaces, Placed
  <2>3. CASE channel' = Append(channel, h)
    <3>1. /\ Len(channel') = Len(channel) + 1 /\ channel'[Len(channel) + 1] = h
          /\ \A i \in 1..Len(channel) : channel'[i] = channel[i]
      BY <1>1, <1>3, <2>3, AppendElements
    <3>2. h.data.id \in 1..current /\ h.data.piece \in 1..offered[h.data.id] /\ taken.id <= h.data.id
      <4>1. taken.id <= current
        BY DEF RestartInv
      <4> QED
        BY <1>1, <1>3, <4>1
    <3>3. h.sequence = h.data.piece - 1 /\ (h.last <=> h.data.piece = offered[h.data.id])
      BY <1>1, <1>3
    <3>4. ASSUME NEW i \in 1..Len(channel')
          PROVE  /\ Placed(channel[i])' /\ taken'.id <= channel'[i].data.id
                 /\ \A j \in 1..Len(channel') : i < j => channel'[i].data.id <= channel'[j].data.id
      <4>1. CASE i \in 1..Len(channel)
        <5>1. channel'[i] = channel[i]
          BY <3>1, <4>1
        <5>2. Placed(channel[i])'
          BY <1>2, <2>1, <4>1, <5>1 DEF Placed
        <5>3. ASSUME NEW j \in 1..Len(channel'), i < j
              PROVE  channel[i].data.id <= channel'[j].data.id
          <6>1. CASE j \in 1..Len(channel)
            BY <2>1, <3>1, <4>1, <5>3, <6>1
          <6>2. CASE j = Len(channel) + 1
            BY <1>1, <1>3, <2>1, <3>1, <4>1, <6>2
          <6> QED
            BY <1>1, <3>1, <6>1, <6>2
        <5> QED
          BY <1>2, <2>1, <4>1, <5>1, <5>2, <5>3
      <4>2. CASE i = Len(channel) + 1
        <5>1. channel'[i] = h /\ \A j \in 1..Len(channel') : ~(i < j)
          BY <1>1, <3>1, <4>2
        <5>2. Placed(channel[i])'
          BY <1>2, <3>2, <3>3, <5>1 DEF Placed
        <5> QED
          BY <1>2, <3>2, <5>1, <5>2
      <4> QED
        BY <1>1, <3>1, <4>1, <4>2
    <3> QED
      BY <3>4 DEF ChannelPlaces
  <2> QED
    BY <1>4, <2>2, <2>3
<1>8. taken'.id <= current' /\ BufferRun'
  BY <1>2 DEF RestartInv, BufferRun, Consecutive
<1>9. ASSUME NEW i \in 1..Len(delivered) PROVE DeliveredRun(delivered[i])'
  BY <1>2 DEF RestartInv, DeliveredRun, Consecutive
<1> QED
  BY <1>2, <1>5, <1>6, <1>7, <1>8, <1>9 DEF RestartInv

(* What the receiver knows of the segment it takes.                        *)
TakingPlaced(h) ==
  /\ h = Head(channel) /\ channel # <<>> /\ h \in Segment /\ h.data \in Piece
  /\ Placed(h) /\ taken.id <= h.data.id

LEMMA TakingPlacedFacts ==
  ASSUME RestartInv, Process_ByteChunk
  PROVE  \E h : /\ TakingPlaced(h) /\ taken' = h.data /\ channel' = Tail(channel)
                /\ \/ TakeOnlySegment(h) \/ TakeFirstSegment(h) \/ TakeMiddleSegment(h)
                   \/ TakeLastSegment(h) \/ MissSegment(h)
<1>1. channel \in Seq(Segment) /\ channel # <<>> /\ channel' = Tail(channel)
  BY DEF RestartInv, TypeOK, Process_ByteChunk
<1>2. Head(channel) = channel[1] /\ 1 \in 1..Len(channel)
  BY <1>1, TailElements
<1>3. Head(channel) \in Segment /\ Head(channel).data \in Piece
  <2>1. Head(channel) \in Segment
    BY <1>1, HeadTailProperties
  <2> QED
    BY <2>1 DEF Segment
<1>4. TakingPlaced(Head(channel))
  BY <1>1, <1>2, <1>3 DEF TakingPlaced, RestartInv, ChannelPlaces
<1> QED
  BY <1>1, <1>4 DEF Process_ByteChunk

(* The pieces held, with the next one copied to their end.                 *)
LEMMA CopiedRun ==
  ASSUME RestartInv, NEW h, TakingPlaced(h), Continues(h), hasBuffer
  PROVE  /\ Copied(h) \in Seq(Piece) /\ Copied(h) # <<>> /\ Consecutive(Copied(h))
         /\ Copied(h)[Len(Copied(h))] = h.data
<1>1. buffer \in Seq(Piece) /\ h.data \in Piece /\ Copied(h) = Append(buffer, h.data)
  BY DEF RestartInv, TypeOK, TakingPlaced, Copied
<1>2. ASSUME buffer # <<>>
      PROVE  /\ Consecutive(buffer) /\ h.data.piece = buffer[Len(buffer)].piece + 1
             /\ buffer[Len(buffer)].id <= h.data.id
  <2>1. /\ Consecutive(buffer) /\ buffer[Len(buffer)].piece = previous.sequence + 1
        /\ buffer[Len(buffer)].id <= taken.id
    BY <1>2 DEF RestartInv, BufferRun
  <2>2. h.sequence = previous.sequence + 1 /\ h.sequence = h.data.piece - 1
        /\ taken.id <= h.data.id
    BY DEF Continues, SequenceContinuous, TakingPlaced, Placed
  <2>3. /\ h.data.piece \in Nat /\ h.data.id \in Nat /\ taken.id \in Nat
        /\ previous.sequence \in Nat
    BY <1>1, SizesAssumption DEF RestartInv, TypeOK, Piece, Nothing
  <2>4. buffer[Len(buffer)] \in Piece
    <3>1. Len(buffer) \in 1..Len(buffer)
      BY <1>1, <1>2, EmptySeq
    <3> QED
      BY <1>1, <3>1, ElementOfSeq
  <2>5. buffer[Len(buffer)].id \in Nat
    BY <2>4 DEF Piece
  <2> QED
    BY <2>1, <2>2, <2>3, <2>5
<1> QED
  BY <1>1, <1>2, ConsecutiveGrows

LEMMA SinglePiece ==
  ASSUME NEW e \in Piece
  PROVE  /\ <<e>> \in Seq(Piece) /\ <<e>> # <<>> /\ Consecutive(<<e>>)
         /\ <<e>>[Len(<<e>>)] = e /\ Len(<<e>>) = 1
<1>1. <<e>> \in Seq(Piece) /\ Len(<<e>>) = 1 /\ <<e>> # <<>>
  OBVIOUS
<1> QED
  BY <1>1 DEF Consecutive

(* What the receiver holds after a segment.                                *)
LEMMA TakingKeepsRun ==
  ASSUME RestartInv, NEW h, TakingPlaced(h), taken' = h.data,
         \/ TakeOnlySegment(h) \/ TakeFirstSegment(h) \/ TakeMiddleSegment(h)
         \/ TakeLastSegment(h) \/ MissSegment(h)
  PROVE  /\ buffer' \in Seq(Piece) /\ hasBuffer' \in BOOLEAN /\ BufferRun'
         /\ previous' \in [session : Nat, sequence : Nat]
<1>1. /\ h.data \in Piece /\ h.data.piece \in Nat /\ h.sequence = h.data.piece - 1
      /\ h.data.id \in Nat
  BY SizesAssumption DEF TakingPlaced, Placed, Piece
<1>2. /\ UpdatePreviousSessionState(h) \in [session : Nat, sequence : Nat]
      /\ UpdatePreviousSessionState(h).sequence = h.sequence
      /\ FreshState \in [session : Nat, sequence : Nat]
  BY DEF UpdatePreviousSessionState, FreshState, TakingPlaced, Segment
<1>3. <<>> \in Seq(Piece) /\ buffer \in Seq(Piece) /\ hasBuffer \in BOOLEAN
  BY EmptySeq DEF RestartInv, TypeOK
<1>4. ASSUME buffer' \in Seq(Piece), buffer' # <<>>, Consecutive(buffer)',
             buffer'[Len(buffer')] = h.data, hasBuffer' = TRUE,
             previous' = UpdatePreviousSessionState(h)
      PROVE  BufferRun'
  BY <1>1, <1>2, <1>4 DEF BufferRun
<1>5. CASE TakeOnlySegment(h) \/ MissSegment(h)
  BY <1>2, <1>3, <1>5 DEF TakeOnlySegment, MissSegment, BufferRun
<1>6. CASE TakeFirstSegment(h)
  <2>1. buffer' = <<h.data>> /\ hasBuffer' = TRUE /\ previous' = UpdatePreviousSessionState(h)
    BY <1>6 DEF TakeFirstSegment
  <2>2. buffer' \in Seq(Piece) /\ buffer' # <<>> /\ buffer'[Len(buffer')] = h.data
    BY <1>1, <2>1, SinglePiece
  <2>3. Consecutive(buffer)'
    <3>1. Len(buffer') = 1
      BY <1>1, <2>1, SinglePiece
    <3> QED
      BY <3>1 DEF Consecutive
  <2>4. BufferRun'
    BY <2>1, <2>2, <2>3, <1>4
  <2> QED
    BY <1>2, <2>1, <2>2, <2>4
<1>7. CASE TakeMiddleSegment(h) /\ hasBuffer
  <2>1. /\ buffer' = Copied(h) /\ hasBuffer' = hasBuffer /\ Continues(h)
        /\ previous' = UpdatePreviousSessionState(h)
    BY <1>7 DEF TakeMiddleSegment
  <2>2. PICK t : t = Copied(h)
    OBVIOUS
  <2>3. t \in Seq(Piece) /\ t # <<>> /\ Consecutive(t) /\ t[Len(t)] = h.data
    BY <1>7, <2>1, <2>2, CopiedRun
  <2>4. Consecutive(buffer)'
    BY <2>1, <2>2, <2>3 DEF Consecutive
  <2>5. BufferRun'
    BY <1>4, <1>7, <2>1, <2>2, <2>3, <2>4
  <2> QED
    BY <1>2, <1>3, <2>1, <2>2, <2>3, <2>5
<1>8. CASE TakeMiddleSegment(h) /\ ~hasBuffer
  <2>1. buffer = <<>>
    BY <1>8 DEF RestartInv, BufferRun
  <2>2. buffer' = <<>> /\ hasBuffer' = hasBuffer /\ previous' = UpdatePreviousSessionState(h)
    BY <1>8, <2>1 DEF TakeMiddleSegment, Copied
  <2> QED
    BY <1>2, <1>3, <2>2 DEF BufferRun
<1>9. CASE TakeLastSegment(h)
  <2>1. ~hasBuffer => buffer = <<>>
    BY DEF RestartInv, BufferRun
  <2>2. buffer' = <<>> /\ hasBuffer' = hasBuffer /\ previous' = UpdatePreviousSessionState(h)
    BY <1>9, <2>1 DEF TakeLastSegment
  <2> QED
    BY <1>2, <1>3, <2>2 DEF BufferRun
<1> QED
  BY <1>5, <1>6, <1>7, <1>8, <1>9

(* What it passes on ends with the last piece of the segment's chunk.      *)
LEMMA TakingDeliversRun ==
  ASSUME RestartInv, NEW h, TakingPlaced(h),
         \/ TakeOnlySegment(h) \/ TakeFirstSegment(h) \/ TakeMiddleSegment(h)
         \/ TakeLastSegment(h) \/ MissSegment(h)
  PROVE  \/ delivered' = delivered
         \/ \E t \in Seq(Piece) : delivered' = Append(delivered, t) /\ DeliveredRun(t)
<1>1. /\ h.data \in Piece /\ h.data.id \in 1..current
      /\ h.last => h.data.piece = offered[h.data.id]
  BY DEF TakingPlaced, Placed
<1>2. CASE TakeOnlySegment(h)
  <2>1. h.last /\ delivered' = Append(delivered, <<h.data>>)
    BY <1>2 DEF TakeOnlySegment
  <2>2. PICK t : t = <<h.data>>
    OBVIOUS
  <2>3. t \in Seq(Piece) /\ t # <<>> /\ Consecutive(t) /\ t[Len(t)] = h.data
    BY <1>1, <2>2, SinglePiece
  <2>4. DeliveredRun(t)
    BY <1>1, <2>1, <2>3 DEF DeliveredRun
  <2> QED
    BY <2>1, <2>2, <2>3, <2>4
<1>3. CASE TakeLastSegment(h) /\ hasBuffer
  <2>1. h.last /\ Continues(h) /\ delivered' = Append(delivered, Copied(h))
    BY <1>3 DEF TakeLastSegment
  <2>2. PICK t : t = Copied(h)
    OBVIOUS
  <2>3. t \in Seq(Piece) /\ t # <<>> /\ Consecutive(t) /\ t[Len(t)] = h.data
    BY <1>3, <2>1, <2>2, CopiedRun
  <2>4. DeliveredRun(t)
    BY <1>1, <2>1, <2>3 DEF DeliveredRun
  <2> QED
    BY <2>1, <2>2, <2>3, <2>4
<1> QED
  BY <1>2, <1>3 DEF TakeFirstSegment, TakeMiddleSegment, TakeLastSegment, MissSegment

LEMMA ProcessPlaces ==
  ASSUME RestartInv, Process_ByteChunk
  PROVE  RestartInv'
<1>1. PICK h : /\ TakingPlaced(h) /\ taken' = h.data /\ channel' = Tail(channel)
               /\ \/ TakeOnlySegment(h) \/ TakeFirstSegment(h) \/ TakeMiddleSegment(h)
                  \/ TakeLastSegment(h) \/ MissSegment(h)
  BY TakingPlacedFacts
<1>2. /\ UNCHANGED <<offered, sending, transmitted, session, sequence, damaged,
                     senderRestarts, receiverRestarts>>
      /\ current' = current
  BY DEF Process_ByteChunk, senderVars, restarts, current
<1>3. /\ buffer' \in Seq(Piece) /\ hasBuffer' \in BOOLEAN /\ BufferRun'
      /\ previous' \in [session : Nat, sequence : Nat]
  BY <1>1, TakingKeepsRun
<1>4. /\ channel \in Seq(Segment) /\ channel # <<>> /\ h = channel[1]
      /\ channel' \in Seq(Segment)
      /\ Len(channel') = Len(channel) - 1 /\ Len(channel) \in Nat \ {0}
      /\ \A i \in 1..Len(channel') : channel'[i] = channel[i + 1]
  BY <1>1, TailElements DEF RestartInv, TypeOK, TakingPlaced
<1>5. delivered \in Seq(Seq(Piece)) /\ Len(delivered) \in Nat
  BY DEF RestartInv, TypeOK
<1>6. \/ delivered' = delivered
      \/ \E t \in Seq(Piece) : delivered' = Append(delivered, t) /\ DeliveredRun(t)
  BY <1>1, TakingDeliversRun
<1>7. TypeOK'
  <2>1. delivered' \in Seq(Seq(Piece))
    <3>1. ASSUME NEW t \in Seq(Piece) PROVE Append(delivered, t) \in Seq(Seq(Piece))
      BY <1>5, AppendElements
    <3> QED
      BY <1>5, <1>6, <3>1
  <2>2. taken' \in Piece
    BY <1>1 DEF TakingPlaced
  <2> QED
    BY <1>2, <1>3, <1>4, <2>1, <2>2 DEF RestartInv, TypeOK
<1>8. SenderPlace'
  BY <1>2 DEF RestartInv, SenderPlace
<1>9. ChannelPlaces'
  <2>1. ASSUME NEW i \in 1..Len(channel')
        PROVE  /\ Placed(channel[i])' /\ h.data.id <= channel'[i].data.id
               /\ \A j \in 1..Len(channel') : i < j => channel'[i].data.id <= channel'[j].data.id
    <3>1. i + 1 \in 1..Len(channel) /\ 1 \in 1..Len(channel) /\ channel'[i] = channel[i + 1]
          /\ 1 < i + 1
      BY <1>4
    <3>2. Placed(channel[i + 1]) /\ h.data.id <= channel[i + 1].data.id
      BY <1>4, <3>1 DEF RestartInv, ChannelPlaces
    <3>3. Placed(channel[i])'
      BY <1>2, <3>1, <3>2 DEF Placed
    <3>4. ASSUME NEW j \in 1..Len(channel'), i < j
          PROVE  channel'[i].data.id <= channel'[j].data.id
      <4>1. j + 1 \in 1..Len(channel) /\ i + 1 < j + 1 /\ channel'[j] = channel[j + 1]
        BY <1>4, <3>4
      <4> QED
        BY <3>1, <4>1 DEF RestartInv, ChannelPlaces
    <3> QED
      BY <3>1, <3>2, <3>3, <3>4
  <2> QED
    BY <1>1, <2>1 DEF ChannelPlaces
<1>10. taken'.id <= current'
  <2>1. h.data.id \in 1..current /\ current \in Nat
    BY <1>1, OfferedType DEF TakingPlaced, Placed, RestartInv
  <2> QED
    BY <1>1, <1>2, <2>1
<1>11. ASSUME NEW i \in 1..Len(delivered') PROVE DeliveredRun(delivered[i])'
  <2>1. \A d : DeliveredRun(d) => DeliveredRun(d)'
    BY <1>2 DEF DeliveredRun, Consecutive
  <2>2. DeliveredRun(delivered'[i])
    <3>1. CASE delivered' = delivered
      BY <1>11, <3>1 DEF RestartInv
    <3>2. ASSUME NEW t \in Seq(Piece), delivered' = Append(delivered, t), DeliveredRun(t)
          PROVE  DeliveredRun(delivered'[i])
      <4>1. /\ Len(delivered') = Len(delivered) + 1
            /\ \A j \in 1..Len(delivered) : delivered'[j] = delivered[j]
            /\ delivered'[Len(delivered) + 1] = t
        BY <1>5, <3>2, AppendElements
      <4>2. CASE i \in 1..Len(delivered)
        BY <4>1, <4>2 DEF RestartInv
      <4>3. CASE i = Len(delivered) + 1
        BY <3>2, <4>1, <4>3
      <4> QED
        BY <1>5, <4>1, <4>2, <4>3
    <3> QED
      BY <1>6, <3>1, <3>2
  <2> QED
    BY <2>1, <2>2 DEF DeliveredRun, Consecutive
<1> QED
  BY <1>3, <1>7, <1>8, <1>9, <1>10, <1>11 DEF RestartInv

LEMMA SenderRestartPlaces ==
  ASSUME RestartInv, SenderRestart
  PROVE  RestartInv'
<1>1. /\ offered' = offered /\ current' = current
      /\ sending' = FALSE /\ transmitted' = 0 /\ session' = 0 /\ sequence' = 0
      /\ UNCHANGED <<channel, previous, hasBuffer, buffer, delivered, taken, receiverRestarts>>
      /\ senderRestarts' = senderRestarts + 1
  BY DEF SenderRestart, receiverVars, current
<1>2. TypeOK'
  <2>1. sending => current \in 1..Len(offered)
    BY OfferedType DEF RestartInv, SenderPlace, current
  <2>2. damaged' \subseteq 1..Len(offered')
    BY <1>1, <2>1 DEF SenderRestart, RestartInv, TypeOK
  <2>3. 0 \in 0..MaxPieces /\ 0 \in Nat /\ FALSE \in BOOLEAN
    BY SizesAssumption
  <2>4. senderRestarts' \in Nat
    BY <1>1 DEF RestartInv, TypeOK
  <2> QED
    BY <1>1, <2>2, <2>3, <2>4 DEF RestartInv, TypeOK
<1>3. SenderPlace'
  BY <1>1 DEF SenderPlace
<1>4. ChannelPlaces' /\ taken'.id <= current' /\ BufferRun'
  BY <1>1 DEF RestartInv, ChannelPlaces, Placed, BufferRun, Consecutive
<1>5. \A i \in 1..Len(delivered') : DeliveredRun(delivered[i])'
  BY <1>1 DEF RestartInv, DeliveredRun, Consecutive
<1> QED
  BY <1>2, <1>3, <1>4, <1>5 DEF RestartInv

LEMMA ReceiverRestartPlaces ==
  ASSUME RestartInv, ReceiverRestart
  PROVE  RestartInv'
<1>1. /\ offered' = offered /\ current' = current /\ channel' = <<>>
      /\ UNCHANGED <<sending, transmitted, session, sequence, delivered, taken, senderRestarts>>
      /\ previous' = FreshState /\ hasBuffer' = FALSE /\ buffer' = <<>>
      /\ receiverRestarts' = receiverRestarts + 1
  BY DEF ReceiverRestart, senderVars, current
<1>2. TypeOK'
  <2>1. damaged' \subseteq 1..Len(offered')
    <3>1. \A i \in 1..Len(channel) : channel[i].data.id \in 1..Len(offered)
      BY DEF RestartInv, ChannelPlaces, Placed, current
    <3>2. taken.id # 0 => taken.id \in 1..Len(offered)
      <4>1. taken.id <= Len(offered) /\ taken.id \in Nat /\ Len(offered) \in Nat
        BY OfferedType DEF RestartInv, TypeOK, Piece, Nothing, current
      <4> QED
        BY <4>1
    <3>3. damaged \subseteq 1..Len(offered)
      BY DEF RestartInv, TypeOK
    <3> QED
      BY <1>1, <3>1, <3>2, <3>3 DEF ReceiverRestart
  <2>2. <<>> \in Seq(Segment) /\ <<>> \in Seq(Piece) /\ FALSE \in BOOLEAN
    BY EmptySeq
  <2>3. FreshState \in [session : Nat, sequence : Nat]
    BY DEF FreshState
  <2>4. receiverRestarts' \in Nat
    BY <1>1 DEF RestartInv, TypeOK
  <2> QED
    BY <1>1, <2>1, <2>2, <2>3, <2>4 DEF RestartInv, TypeOK
<1>3. SenderPlace'
  BY <1>1 DEF RestartInv, SenderPlace
<1>4. ChannelPlaces'
  <2>1. \A i : i \notin 1..Len(channel')
    BY <1>1, EmptySeq
  <2> QED
    BY <2>1 DEF ChannelPlaces
<1>5. taken'.id <= current' /\ BufferRun'
  BY <1>1 DEF RestartInv, BufferRun
<1>6. \A i \in 1..Len(delivered') : DeliveredRun(delivered[i])'
  BY <1>1 DEF RestartInv, DeliveredRun, Consecutive
<1> QED
  BY <1>2, <1>3, <1>4, <1>5, <1>6 DEF RestartInv

LEMMA RestartInvNext ==
  ASSUME RestartInv, [Next]_vars
  PROVE  RestartInv'
<1>1. CASE UNCHANGED vars
  <2>1. TypeOK'
    BY <1>1 DEF vars, senderVars, receiverVars, restarts, RestartInv, TypeOK
  <2>2. SenderPlace' /\ ChannelPlaces' /\ (taken.id <= current)' /\ BufferRun'
    BY <1>1 DEF vars, senderVars, receiverVars, restarts, RestartInv, SenderPlace,
       ChannelPlaces, Placed, BufferRun, Consecutive, current
  <2>3. \A i \in 1..Len(delivered') : DeliveredRun(delivered[i])'
    BY <1>1 DEF vars, receiverVars, RestartInv, DeliveredRun, Consecutive, current
  <2> QED
    BY <2>1, <2>2, <2>3 DEF RestartInv
<1> QED
  BY <1>1, BeginPlaces, TransmitPlaces, ProcessPlaces, SenderRestartPlaces,
     ReceiverRestartPlaces DEF Next

LEMMA RestartInvariant == Spec => []RestartInv
BY RestartInvInit, RestartInvNext, PTL DEF Spec

(* Whatever is lost and whichever end restarts, the state of the two ends  *)
(* and of what is between them has its type; the segments that were lost   *)
(* belong to chunks that were offered.                                     *)
THEOREM TypeCorrect == Spec => []TypeOK
<1>1. RestartInv => TypeOK
  BY DEF RestartInv
<1> QED
  BY <1>1, RestartInvariant, PTL

(* Whatever TryPassChunk and the network drop, and whenever either end     *)
(* restarts, Process_ByteChunk never passes on bytes with a piece skipped  *)
(* or repeated in them or with pieces against the order of the chunks.     *)
THEOREM PiecesAlwaysConsecutive == Spec => []PiecesConsecutive
<1>1. RestartInv => PiecesConsecutive
  BY DEF RestartInv, DeliveredRun, PiecesConsecutive
<1> QED
  BY <1>1, RestartInvariant, PTL
==============================================================================

--------------------------- MODULE TCPPair_proofs ---------------------------
(***************************************************************************)
(* Theorems about TCPPair: the state has its type, the flag of a           *)
(* connecting module counts its thread, and a piece of a chunk is in one   *)
(* place, for any modules, room and bounds.                                *)
(***************************************************************************)
EXTENDS TCPPair, SequenceTheorems, FiniteSetTheorems, TLAPS

-----------------------------------------------------------------------------
(* Sequences of functions on the two ends, changed in one place.           *)

LEMMA EndExcept ==
  ASSUME NEW S, NEW q \in Seq([End -> S]), NEW n \in 1..Len(q), NEW e \in End, NEW v \in S
  PROVE  /\ [q EXCEPT ![n][e] = v] \in Seq([End -> S])
         /\ Len([q EXCEPT ![n][e] = v]) = Len(q)
         /\ \A k \in 1..Len(q) :
              [q EXCEPT ![n][e] = v][k] = IF k = n THEN [q[n] EXCEPT ![e] = v] ELSE q[k]
<1> DEFINE f == [q[n] EXCEPT ![e] = v]
<1>1. q[n] \in [End -> S]
  BY ElementOfSeq
<1>2. f \in [End -> S]
  BY <1>1
<1>3. q \in [1..Len(q) -> [End -> S]]
  BY LenProperties
<1>4. [q EXCEPT ![n][e] = v] = [q EXCEPT ![n] = f]
  BY <1>3
<1> HIDE DEF f
<1>5. /\ [q EXCEPT ![n] = f] \in Seq([End -> S])
      /\ Len([q EXCEPT ![n] = f]) = Len(q)
      /\ \A k \in 1..Len(q) : [q EXCEPT ![n] = f][k] = IF k = n THEN f ELSE q[k]
  BY <1>2, ExceptSeq
<1> QED
  BY <1>4, <1>5 DEF f

(* The sequences that describe the connections are equally long.           *)
LEMMA Lengths ==
  ASSUME TypeOK
  PROVE  /\ Len(peer) \in Nat
         /\ Len(open) = Len(peer) /\ Len(broken) = Len(peer)
         /\ Len(data) = Len(peer) /\ Len(thread) = Len(peer)
<1>1. peer \in Seq(Peers) /\ {Len(open), Len(broken), Len(data), Len(thread)} = {Len(peer)}
  BY DEF TypeOK
<1> QED
  BY <1>1, LenProperties

LEMMA SameLengths ==
  ASSUME TypeOK, Len(peer') = Len(peer), Len(open') = Len(open), Len(broken') = Len(broken),
         Len(data') = Len(data), Len(thread') = Len(thread)
  PROVE  {Len(open'), Len(broken'), Len(data'), Len(thread')} = {Len(peer')}
BY Lengths

(* What a thread does in a step: one end of one connection gets a state.   *)
LEMMA ThreadExcept ==
  ASSUME TypeOK, NEW n \in Connections, NEW e \in End, NEW v \in ThreadState
  PROVE  LET q == [thread EXCEPT ![n][e] = v]
         IN  /\ q \in Seq([End -> ThreadState]) /\ Len(q) = Len(thread)
             /\ \A k \in Connections :
                  q[k] = IF k = n THEN [thread[n] EXCEPT ![e] = v] ELSE thread[k]
<1>1. /\ thread \in Seq([End -> ThreadState]) /\ n \in 1..Len(thread)
      /\ Connections = 1..Len(thread)
  BY Lengths DEF TypeOK, Connections
<1> QED
  BY <1>1, EndExcept

LEMMA OpenExcept ==
  ASSUME TypeOK, NEW n \in Connections, NEW e \in End
  PROVE  LET q == [open EXCEPT ![n][e] = FALSE]
         IN  q \in Seq([End -> BOOLEAN]) /\ Len(q) = Len(open)
<1>1. open \in Seq([End -> BOOLEAN]) /\ n \in 1..Len(open)
  BY Lengths DEF TypeOK, Connections
<1>2. FALSE \in BOOLEAN
  OBVIOUS
<1> QED
  BY <1>1, <1>2, EndExcept

LEMMA BrokenExcept ==
  ASSUME TypeOK, NEW n \in Connections
  PROVE  LET q == [broken EXCEPT ![n] = TRUE]
         IN  q \in Seq(BOOLEAN) /\ Len(q) = Len(broken)
<1>1. broken \in Seq(BOOLEAN) /\ n \in 1..Len(broken)
  BY Lengths DEF TypeOK, Connections
<1>2. TRUE \in BOOLEAN
  OBVIOUS
<1> QED
  BY <1>1, <1>2, ExceptSeq

LEMMA DataExcept ==
  ASSUME TypeOK, NEW n \in Connections, NEW d \in Seq(Piece)
  PROVE  LET q == [data EXCEPT ![n] = d]
         IN  /\ q \in Seq(Seq(Piece)) /\ Len(q) = Len(data)
             /\ \A k \in Connections : q[k] = IF k = n THEN d ELSE data[k]
BY Lengths, ExceptSeq DEF TypeOK, Connections

LEMMA DataSet ==
  ASSUME TypeOK, NEW n \in Connections, NEW d \in Seq(Piece), data' = [data EXCEPT ![n] = d]
  PROVE  \A k \in Connections : data'[k] = IF k = n THEN d ELSE data[k]
BY DataExcept

(* What a connection holds.                                                *)
LEMMA DataAt ==
  ASSUME TypeOK, NEW n \in Connections
  PROVE  data[n] \in Seq(Piece) /\ Len(data[n]) \in Nat /\ Len(data[n]) <= Room
BY Lengths, ElementOfSeq, LenProperties DEF TypeOK, Connections

(* Every connection has its two threads' hands.                            *)
LEMMA HandsAt ==
  ASSUME TypeOK, NEW n \in Connections
  PROVE  /\ n \in Threads
         /\ unsent[n] \in Seq(Piece) /\ Len(unsent[n]) \in Nat
         /\ held[n] \in Seq(Piece) /\ Len(held[n]) \in Nat
         /\ target[n] \in 0..Len(peer)
<1>1. n \in Threads
  BY Lengths, BoundsAssumption DEF TypeOK, Connections, Threads
<1>2. unsent[n] \in Seq(Piece) /\ held[n] \in Seq(Piece) /\ target[n] \in 0..Len(peer)
  BY <1>1 DEF TypeOK
<1> QED
  BY <1>1, <1>2, LenProperties

(* A usable socket is that of a connection.                                *)
LEMMA ReferredUsable ==
  ASSUME TypeOK, NEW n \in Connections, NEW e \in End, NEW r \in Referred(n, e), r # NoSocket
  PROVE  r \in Connections
BY Lengths DEF TypeOK, Referred, NoSocket, Connections

-----------------------------------------------------------------------------
(* Type correctness.                                                       *)

LEMMA TypeInit == Init => TypeOK
<1> SUFFICES ASSUME Init PROVE TypeOK
  OBVIOUS
<1>1. /\ peer \in Seq(Peers) /\ open \in Seq([End -> BOOLEAN]) /\ broken \in Seq(BOOLEAN)
      /\ data \in Seq(Seq(Piece)) /\ thread \in Seq([End -> ThreadState])
  BY EmptySeq DEF Init
<1>2. /\ Len(peer) = 0 /\ Len(open) = 0 /\ Len(broken) = 0 /\ Len(data) = 0
      /\ Len(thread) = 0
  BY EmptySeq DEF Init
<1>3. <<>> \in Seq(Piece)
  OBVIOUS
<1>4. unsent \in [Threads -> Seq(Piece)] /\ held \in [Threads -> Seq(Piece)]
  BY <1>3 DEF Init
<1>5. target \in [Threads -> 0..Len(peer)]
  BY <1>2 DEF Init, NoSocket
<1>6. received \in [Chunk -> Nat] /\ taken \in 0..MaxChunks
  BY BoundsAssumption DEF Init
<1> QED
  BY <1>1, <1>2, <1>4, <1>5, <1>6, BoundsAssumption DEF Init, TypeOK, NoSocket

LEMMA TypeBind == TypeOK /\ Bind => TypeOK'
BY DEF TypeOK, Bind, wires, hands

LEMMA TypeConnect ==
  ASSUME TypeOK, NEW p \in Peers, Connect(p)
  PROVE  TypeOK'
<1> DEFINE o == [e \in End |-> TRUE]
           t == [near |-> "running", far |-> "none"]
<1>1. o \in [End -> BOOLEAN]
  OBVIOUS
<1>2. t \in [End -> ThreadState]
  BY DEF End, ThreadState
<1>3. <<>> \in Seq(Piece) /\ Len(<<>>) = 0 /\ FALSE \in BOOLEAN
  OBVIOUS
<1>4. /\ peer' = Append(peer, p) /\ open' = Append(open, o) /\ broken' = Append(broken, FALSE)
      /\ data' = Append(data, <<>>) /\ thread' = Append(thread, t)
  BY DEF Connect
<1>5. /\ peer \in Seq(Peers) /\ open \in Seq([End -> BOOLEAN]) /\ broken \in Seq(BOOLEAN)
      /\ data \in Seq(Seq(Piece)) /\ thread \in Seq([End -> ThreadState])
      /\ \A n \in 1..Len(data) : Len(data[n]) <= Room
  BY DEF TypeOK
<1> HIDE DEF o, t
<1>6. peer' \in Seq(Peers) /\ Len(peer') = Len(peer) + 1
  BY <1>4, <1>5, AppendProperties
<1>7. open' \in Seq([End -> BOOLEAN]) /\ Len(open') = Len(open) + 1
  BY <1>1, <1>4, <1>5, AppendProperties
<1>8. broken' \in Seq(BOOLEAN) /\ Len(broken') = Len(broken) + 1
  BY <1>3, <1>4, <1>5, AppendProperties
<1>9. /\ data' \in Seq(Seq(Piece)) /\ Len(data') = Len(data) + 1
      /\ data'[Len(data) + 1] = <<>> /\ \A n \in 1..Len(data) : data'[n] = data[n]
  BY <1>3, <1>4, <1>5, AppendProperties
<1>10. thread' \in Seq([End -> ThreadState]) /\ Len(thread') = Len(thread) + 1
  BY <1>2, <1>4, <1>5, AppendProperties
<1>11. {Len(open'), Len(broken'), Len(data'), Len(thread')} = {Len(peer')}
  BY <1>6, <1>7, <1>8, <1>9, <1>10, Lengths
<1>12. Len(peer') <= MaxConnections /\ slot' \in 0..Len(peer')
  <2>1. Len(peer) < MaxConnections /\ slot' = slot
    BY DEF Connect, MayConnect
  <2>2. slot \in 0..Len(peer) /\ MaxConnections \in Nat
    BY BoundsAssumption DEF TypeOK
  <2> QED BY <1>6, <2>1, <2>2, Lengths
<1>13. connected' \in [Peers -> BOOLEAN]
  BY DEF TypeOK, Connect
<1>14. UNCHANGED <<sending, listener, unsent, held, target, taken, received>>
  BY DEF Connect, hands
<1>15. \A n \in 1..Len(data') : Len(data'[n]) <= Room
  <2> SUFFICES ASSUME NEW n \in 1..Len(data') PROVE Len(data'[n]) <= Room
    OBVIOUS
  <2>1. CASE n = Len(data) + 1
    BY <1>3, <1>9, <2>1, RoomAssumption
  <2>2. CASE n # Len(data) + 1
    <3>1. n \in 1..Len(data)
      BY <1>9, <2>2, Lengths
    <3> QED BY <1>5, <1>9, <3>1
  <2> QED BY <2>1, <2>2
<1>16. target' \in [Threads -> 0..Len(peer')]
  <2>1. target \in [Threads -> 0..Len(peer)]
    BY DEF TypeOK
  <2>2. 0..Len(peer) \subseteq 0..Len(peer')
    BY <1>6, Lengths
  <2> QED BY <1>14, <2>1, <2>2
<1> QED
  BY <1>6, <1>7, <1>8, <1>9, <1>10, <1>11, <1>12, <1>13, <1>14, <1>15, <1>16 DEF TypeOK

LEMMA TypeAccept ==
  ASSUME TypeOK, NEW n \in Connections, Accept(n)
  PROVE  TypeOK'
<1>1. "far" \in End /\ "running" \in ThreadState
  BY DEF End, ThreadState
<1>2. ASSUME NEW e, e = "far", NEW v, v = "running"
      PROVE  thread' = [thread EXCEPT ![n][e] = v]
  BY <1>2, Zenon DEF Accept
<1>3. thread' \in Seq([End -> ThreadState]) /\ Len(thread') = Len(thread)
  <2>1. PICK e \in End, v \in ThreadState : e = "far" /\ v = "running"
    BY <1>1
  <2>2. thread' = [thread EXCEPT ![n][e] = v]
    BY <1>2, <2>1
  <2> QED
    BY <2>2, ThreadExcept, ZenonT(30)
<1>4. slot' \in 0..Len(peer)
  BY Lengths DEF Accept, Connections
<1>5. UNCHANGED <<sides, wires, hands, taken, received>>
  BY DEF Accept
<1>6. {Len(open'), Len(broken'), Len(data'), Len(thread')} = {Len(peer')}
  BY <1>3, <1>5, SameLengths DEF wires
<1> QED
  BY <1>3, <1>4, <1>5, <1>6 DEF TypeOK, sides, wires, hands

(* A send divides what it is given between the connection and the hand.    *)
LEMMA PutSplits ==
  ASSUME TypeOK, NEW n \in Connections, NEW r \in Connections, NEW bytes \in Seq(Piece),
         Put(n, r, bytes)
  PROVE  \E k \in 0..Len(bytes) :
           /\ Len(data[r]) + k <= Room
           /\ data' = [data EXCEPT ![r] = data[r] \o SubSeq(bytes, 1, k)]
           /\ unsent' = [unsent EXCEPT ![n] = SubSeq(bytes, k + 1, Len(bytes))]
           /\ target' = [target EXCEPT ![n] = IF k = Len(bytes) THEN NoSocket ELSE r]
<1> DEFINE room == Room - Len(data[r])
           k == IF Len(bytes) <= room THEN Len(bytes) ELSE room
<1>1. room \in Nat /\ Len(data[r]) \in Nat /\ Len(bytes) \in Nat
  BY DataAt, RoomAssumption, LenProperties
<1>2. k \in 0..Len(bytes) /\ Len(data[r]) + k <= Room
  <2>1. \A a, l, all \in Nat :
          l <= all => LET i == IF a <= all - l THEN a ELSE all - l
                      IN  i \in 0..a /\ l + i <= all
    OBVIOUS
  <2>2. Len(data[r]) <= Room /\ Room \in Nat
    BY DataAt, RoomAssumption
  <2> QED BY <1>1, <2>1, <2>2
<1>3. /\ data' = [data EXCEPT ![r] = data[r] \o SubSeq(bytes, 1, k)]
      /\ unsent' = [unsent EXCEPT ![n] = SubSeq(bytes, k + 1, Len(bytes))]
      /\ target' = [target EXCEPT ![n] = IF k = Len(bytes) THEN NoSocket ELSE r]
  BY DEF Put
<1> HIDE DEF k
<1> QED
  BY <1>2, <1>3

LEMMA PutType ==
  ASSUME TypeOK, NEW n \in Connections, NEW r \in Connections, NEW bytes \in Seq(Piece),
         Put(n, r, bytes)
  PROVE  /\ data' \in Seq(Seq(Piece)) /\ Len(data') = Len(data)
         /\ \A j \in 1..Len(data') : Len(data'[j]) <= Room
         /\ unsent' \in [Threads -> Seq(Piece)]
         /\ target' \in [Threads -> 0..Len(peer)]
<1>1. PICK k \in 0..Len(bytes) :
        /\ Len(data[r]) + k <= Room
        /\ data' = [data EXCEPT ![r] = data[r] \o SubSeq(bytes, 1, k)]
        /\ unsent' = [unsent EXCEPT ![n] = SubSeq(bytes, k + 1, Len(bytes))]
        /\ target' = [target EXCEPT ![n] = IF k = Len(bytes) THEN NoSocket ELSE r]
  BY PutSplits
<1>2. Len(bytes) \in Nat /\ data[r] \in Seq(Piece)
  BY DataAt, LenProperties
<1>3. SubSeq(bytes, 1, k) \in Seq(Piece) /\ Len(SubSeq(bytes, 1, k)) = k
  BY <1>2, SubSeqProperties
<1>4. SubSeq(bytes, k + 1, Len(bytes)) \in Seq(Piece)
  BY <1>2, SubSeqProperties
<1> DEFINE all == data[r] \o SubSeq(bytes, 1, k)
<1>5. all \in Seq(Piece) /\ Len(all) = Len(data[r]) + k
  BY ONLY <1>2, <1>3, ConcatProperties, ZenonT(60)
<1> HIDE DEF all
<1>6. /\ data' \in Seq(Seq(Piece)) /\ Len(data') = Len(data)
      /\ \A j \in Connections : data'[j] = IF j = r THEN all ELSE data[j]
  <2>1. data' = [data EXCEPT ![r] = all]
    BY <1>1 DEF all
  <2> QED BY <1>5, <2>1, DataExcept
<1>7. \A j \in 1..Len(data') : Len(data'[j]) <= Room
  BY <1>1, <1>5, <1>6, DataAt, Lengths DEF Connections
<1>8. unsent' \in [Threads -> Seq(Piece)]
  BY <1>1, <1>4 DEF TypeOK
<1>9. target' \in [Threads -> 0..Len(peer)]
  <2>1. (IF k = Len(bytes) THEN NoSocket ELSE r) \in 0..Len(peer)
    BY Lengths DEF Connections, NoSocket
  <2>2. target \in [Threads -> 0..Len(peer)]
    BY DEF TypeOK
  <2> QED BY <1>1, <2>1, <2>2
<1> QED
  BY <1>6, <1>7, <1>8, <1>9

LEMMA TypeSendChunk ==
  ASSUME TypeOK, NEW n \in Connections, SendChunk(n)
  PROVE  TypeOK'
<1> DEFINE bytes == IF taken < MaxChunks THEN Halves(taken + 1) ELSE <<>>
<1>1. sending \in End /\ taken \in 0..MaxChunks /\ MaxChunks \in Nat
  BY BoundsAssumption DEF TypeOK
<1>2. taken' \in 0..MaxChunks
  BY <1>1 DEF SendChunk
<1>3. bytes \in Seq(Piece)
  <2>1. CASE taken < MaxChunks
    <3>1. <<taken + 1, 1>> \in Piece /\ <<taken + 1, 2>> \in Piece
      BY <1>1, <2>1 DEF Piece, Chunk
    <3>2. Halves(taken + 1) \in Seq(Piece)
      BY <3>1 DEF Halves
    <3> QED
      BY <2>1, <3>2
  <2>2. CASE ~(taken < MaxChunks)
    BY <2>2
  <2> QED
    BY <2>1, <2>2
<1>4. PICK r \in Referred(n, sending) :
        \/ /\ Usable(r, sending) /\ Put(n, r, bytes)
           /\ UNCHANGED <<thread, broken>>
        \/ /\ Usable(r, sending)
           /\ broken' = [broken EXCEPT ![r] = TRUE]
           /\ UNCHANGED <<thread, data, unsent, target>>
        \/ /\ Leave(n, sending)
           /\ UNCHANGED <<broken, data, unsent, target>>
  BY DEF SendChunk
<1> HIDE DEF bytes
<1>5. /\ data \in Seq(Seq(Piece)) /\ broken \in Seq(BOOLEAN)
      /\ thread \in Seq([End -> ThreadState])
      /\ \A j \in 1..Len(data) : Len(data[j]) <= Room
      /\ unsent \in [Threads -> Seq(Piece)] /\ target \in [Threads -> 0..Len(peer)]
  BY DEF TypeOK
<1>6. Usable(r, sending) => r \in Connections
  BY <1>1, ReferredUsable DEF Usable
<1>7. UNCHANGED <<sides, peer, open, held, slot, received>>
  BY DEF SendChunk
<1>8. /\ data' \in Seq(Seq(Piece)) /\ Len(data') = Len(data)
      /\ \A j \in 1..Len(data') : Len(data'[j]) <= Room
      /\ broken' \in Seq(BOOLEAN) /\ Len(broken') = Len(broken)
      /\ thread' \in Seq([End -> ThreadState]) /\ Len(thread') = Len(thread)
      /\ unsent' \in [Threads -> Seq(Piece)] /\ target' \in [Threads -> 0..Len(peer)]
  <2>1. CASE Usable(r, sending) /\ Put(n, r, bytes) /\ UNCHANGED <<thread, broken>>
    BY <1>3, <1>5, <1>6, <2>1, PutType
  <2>2. CASE /\ Usable(r, sending)
             /\ broken' = [broken EXCEPT ![r] = TRUE]
             /\ UNCHANGED <<thread, data, unsent, target>>
    BY <1>5, <1>6, <2>2, BrokenExcept
  <2>3. CASE Leave(n, sending) /\ UNCHANGED <<broken, data, unsent, target>>
    <3>1. PICK v \in ThreadState : thread' = [thread EXCEPT ![n][sending] = v]
      BY <2>3 DEF ThreadState, Leave
    <3>2. thread' \in Seq([End -> ThreadState]) /\ Len(thread') = Len(thread)
      BY <1>1, <3>1, ThreadExcept, ZenonT(30)
    <3> QED
      BY <1>5, <2>3, <3>2
  <2> QED
    BY <1>4, <2>1, <2>2, <2>3
<1>9. {Len(open'), Len(broken'), Len(data'), Len(thread')} = {Len(peer')}
  BY <1>7, <1>8, SameLengths
<1> QED
  BY <1>2, <1>7, <1>8, <1>9 DEF TypeOK, sides

LEMMA TypeSendRest ==
  ASSUME TypeOK, NEW n \in Connections, SendRest(n)
  PROVE  TypeOK'
<1> DEFINE r == target[n]
<1>1. sending \in End /\ r \in 0..Len(peer) /\ unsent[n] \in Seq(Piece) /\ n \in Threads
  BY HandsAt DEF TypeOK
<1>2. /\ data \in Seq(Seq(Piece)) /\ thread \in Seq([End -> ThreadState])
      /\ \A j \in 1..Len(data) : Len(data[j]) <= Room
      /\ unsent \in [Threads -> Seq(Piece)] /\ target \in [Threads -> 0..Len(peer)]
  BY DEF TypeOK
<1>3. \/ Usable(r, sending) /\ Put(n, r, unsent[n]) /\ UNCHANGED thread
      \/ /\ unsent' = [unsent EXCEPT ![n] = <<>>]
         /\ target' = [target EXCEPT ![n] = NoSocket]
         /\ thread' = thread \/ Leave(n, sending)
         /\ UNCHANGED data
  BY DEF SendRest
<1>4. Usable(r, sending) => r \in Connections
  BY <1>1, Lengths DEF Usable, NoSocket, Connections
<1>5. UNCHANGED <<sides, peer, open, broken, held, slot, taken, received>>
  BY DEF SendRest
<1> HIDE DEF r
<1>6. /\ data' \in Seq(Seq(Piece)) /\ Len(data') = Len(data)
      /\ \A j \in 1..Len(data') : Len(data'[j]) <= Room
      /\ thread' \in Seq([End -> ThreadState]) /\ Len(thread') = Len(thread)
      /\ unsent' \in [Threads -> Seq(Piece)] /\ target' \in [Threads -> 0..Len(peer)]
  <2>1. CASE Usable(r, sending) /\ Put(n, r, unsent[n]) /\ UNCHANGED thread
    BY <1>1, <1>2, <1>4, <2>1, PutType
  <2>2. CASE /\ unsent' = [unsent EXCEPT ![n] = <<>>]
             /\ target' = [target EXCEPT ![n] = NoSocket]
             /\ thread' = thread \/ Leave(n, sending)
             /\ UNCHANGED data
    <3>1. <<>> \in Seq(Piece) /\ NoSocket \in 0..Len(peer)
      BY Lengths DEF NoSocket
    <3>2. unsent' \in [Threads -> Seq(Piece)] /\ target' \in [Threads -> 0..Len(peer)]
      BY <1>2, <2>2, <3>1
    <3>3. thread' \in Seq([End -> ThreadState]) /\ Len(thread') = Len(thread)
      <4>1. CASE thread' = thread
        BY <1>2, <4>1
      <4>2. CASE Leave(n, sending)
        <5>1. PICK v \in ThreadState : thread' = [thread EXCEPT ![n][sending] = v]
          BY <4>2 DEF ThreadState, Leave
        <5> QED BY <1>1, <5>1, ThreadExcept, ZenonT(30)
      <4> QED BY <2>2, <4>1, <4>2
    <3> QED BY <1>2, <2>2, <3>2, <3>3
  <2> QED
    BY <1>3, <2>1, <2>2
<1>7. {Len(open'), Len(broken'), Len(data'), Len(thread')} = {Len(peer')}
  BY <1>5, <1>6, SameLengths
<1> QED
  BY <1>5, <1>6, <1>7 DEF TypeOK, sides

(* What is left of bytes when the first d are gone; of one that is not     *)
(* left whole there is no half.                                            *)
Suffix(bytes, d, rest) ==
  /\ Len(rest) = Len(bytes) - d
  /\ \A j \in 1..Len(rest) : rest[j] = bytes[j + d] \/ rest[j][2] = 0

Whole(bytes, d, rest) ==
  /\ Len(rest) = Len(bytes) - d
  /\ \A j \in 1..Len(rest) : rest[j] = bytes[j + d]

Passed(bytes) == received' = [received EXCEPT ![bytes[1][1]] = @ + 1]

LEMMA DropWhole ==
  ASSUME NEW bytes \in Seq(Piece), NEW d \in 0..Len(bytes)
  PROVE  LET rest == SubSeq(bytes, d + 1, Len(bytes))
         IN  rest \in Seq(Piece) /\ Whole(bytes, d, rest)
<1>1. Len(bytes) \in Nat
  BY LenProperties
<1>2. \A m \in 1..Len(bytes) + 1 :
        LET rest == SubSeq(bytes, m, Len(bytes))
        IN  /\ rest \in Seq(Piece)
            /\ Len(rest) = IF m <= Len(bytes) THEN Len(bytes) - m + 1 ELSE 0
            /\ \A i \in 1..Len(bytes) - m + 1 : rest[i] = bytes[m + i - 1]
  BY <1>1, SubSeqProperties
<1>3. d + 1 \in 1..Len(bytes) + 1
  BY <1>1
<1> DEFINE rest == SubSeq(bytes, d + 1, Len(bytes))
<1>4. /\ rest \in Seq(Piece)
      /\ Len(rest) = IF d + 1 <= Len(bytes) THEN Len(bytes) - (d + 1) + 1 ELSE 0
      /\ \A i \in 1..Len(bytes) - (d + 1) + 1 : rest[i] = bytes[d + 1 + i - 1]
  BY <1>2, <1>3
<1> HIDE DEF rest
<1>5. Len(rest) = Len(bytes) - d
  BY <1>1, <1>4
<1>6. ASSUME NEW j \in 1..Len(rest) PROVE rest[j] = bytes[j + d]
  <2>1. j \in 1..Len(bytes) - (d + 1) + 1 /\ d + 1 + j - 1 = j + d
    BY <1>1, <1>5
  <2> QED BY <1>4, <2>1
<1>7. rest \in Seq(Piece) /\ Whole(bytes, d, rest)
  BY <1>4, <1>5, <1>6 DEF Whole
<1> QED
  BY <1>7 DEF rest

LEMMA DropTorn ==
  ASSUME NEW bytes \in Seq(Piece), NEW k \in 1..Len(bytes)
  PROVE  LET rest == <<Torn(bytes[k])>> \o SubSeq(bytes, k + 1, Len(bytes))
         IN  rest \in Seq(Piece) /\ Suffix(bytes, k - 1, rest)
<1> DEFINE torn == Torn(bytes[k])
           tail == SubSeq(bytes, k + 1, Len(bytes))
           one == <<torn>>
           rest == one \o tail
<1>1. Len(bytes) \in Nat /\ k \in 0..Len(bytes) /\ bytes[k] \in Piece
  BY LenProperties, ElementOfSeq
<1>2. torn \in Piece /\ torn[2] = 0
  BY <1>1 DEF Torn, Piece
<1>3. tail \in Seq(Piece) /\ Whole(bytes, k, tail)
  BY <1>1, DropWhole
<1> HIDE DEF torn, tail
<1>4. one \in Seq(Piece) /\ Len(one) = 1 /\ one[1] = torn
  BY <1>2
<1> HIDE DEF one
<1>5. Len(tail) = Len(bytes) - k /\ \A j \in 1..Len(tail) : tail[j] = bytes[j + k]
  BY <1>3 DEF Whole
<1>6. /\ rest \in Seq(Piece) /\ Len(rest) = Len(one) + Len(tail)
      /\ \A j \in 1..Len(one) + Len(tail) :
           rest[j] = IF j <= Len(one) THEN one[j] ELSE tail[j - Len(one)]
  BY <1>3, <1>4, ConcatProperties
<1> HIDE DEF rest
<1>7. Len(rest) = Len(bytes) - (k - 1)
  BY <1>1, <1>4, <1>5, <1>6
<1>8. ASSUME NEW j \in 1..Len(rest) PROVE rest[j] = bytes[j + (k - 1)] \/ rest[j][2] = 0
  <2>1. CASE j = 1
    BY <1>1, <1>2, <1>4, <1>6, <1>7, <2>1
  <2>2. CASE j # 1
    <3>1. j - 1 \in 1..Len(tail) /\ j \in 1..Len(one) + Len(tail) /\ ~(j <= Len(one))
      BY <1>1, <1>4, <1>5, <1>7, <2>2
    <3>2. rest[j] = tail[j - 1] /\ tail[j - 1] = bytes[(j - 1) + k]
      BY <1>4, <1>5, <1>6, <3>1
    <3>3. (j - 1) + k = j + (k - 1)
      BY <1>1
    <3> QED BY <3>2, <3>3
  <2> QED BY <2>1, <2>2
<1>9. rest \in Seq(Piece) /\ Suffix(bytes, k - 1, rest)
  BY <1>6, <1>7, <1>8 DEF Suffix
<1> QED
  BY <1>9 DEF rest, one, tail, torn

LEMMA CutLeaves ==
  ASSUME NEW n, NEW bytes \in Seq(Piece), bytes # <<>>, CutFrom(n, bytes)
  PROVE  \E d \in 0..Len(bytes), rest \in Seq(Piece) :
           /\ held' = [held EXCEPT ![n] = rest]
           /\ \/ /\ InStep(bytes) /\ Len(bytes) > 2 /\ d = 2
                 /\ Whole(bytes, d, rest) /\ Passed(bytes)
              \/ InStep(bytes) /\ d = 0 /\ Whole(bytes, d, rest) /\ UNCHANGED received
              \/ ~InStep(bytes) /\ Suffix(bytes, d, rest) /\ UNCHANGED received
<1>1. Len(bytes) \in Nat
  BY LenProperties
<1>2. CASE /\ InStep(bytes) /\ Len(bytes) > 2
           /\ received' = [received EXCEPT ![bytes[1][1]] = @ + 1]
           /\ held' = [held EXCEPT ![n] = SubSeq(bytes, 3, Len(bytes))]
  <2> DEFINE rest == SubSeq(bytes, 2 + 1, Len(bytes))
  <2>1. 2 \in 0..Len(bytes)
    BY <1>1, <1>2
  <2>2. rest \in Seq(Piece) /\ Whole(bytes, 2, rest)
    BY <2>1, DropWhole
  <2>3. held' = [held EXCEPT ![n] = rest]
    BY <1>2
  <2> HIDE DEF rest
  <2> QED BY <1>2, <2>1, <2>2, <2>3 DEF Passed
<1>3. CASE /\ InStep(bytes)
           /\ held' = [held EXCEPT ![n] = bytes]
           /\ UNCHANGED received
  <2>1. 0 \in 0..Len(bytes) /\ Whole(bytes, 0, bytes)
    <3>1. \A j \in 1..Len(bytes) : j + 0 = j
      BY <1>1
    <3> QED BY <1>1, <3>1 DEF Whole
  <2> QED BY <1>3, <2>1
<1>4. CASE /\ ~InStep(bytes)
           /\ \E rest \in Remains(bytes) : held' = [held EXCEPT ![n] = rest]
           /\ UNCHANGED received
  <2>1. PICK rest \in Remains(bytes) : held' = [held EXCEPT ![n] = rest]
    BY <1>4
  <2>2. CASE \E k \in 1..Len(bytes) + 1 : rest = SubSeq(bytes, k, Len(bytes))
    <3>1. PICK d \in 0..Len(bytes) : rest = SubSeq(bytes, d + 1, Len(bytes))
      <4>1. PICK k \in 1..Len(bytes) + 1 : rest = SubSeq(bytes, k, Len(bytes))
        BY <2>2
      <4>2. k - 1 \in 0..Len(bytes) /\ (k - 1) + 1 = k
        BY <1>1
      <4> QED BY <4>1, <4>2
    <3>2. rest \in Seq(Piece) /\ Whole(bytes, d, rest)
      BY <3>1, DropWhole
    <3>3. Suffix(bytes, d, rest)
      BY <3>2 DEF Whole, Suffix
    <3> QED BY <1>4, <2>1, <3>2, <3>3
  <2>3. CASE \E k \in 1..Len(bytes) :
               rest = <<Torn(bytes[k])>> \o SubSeq(bytes, k + 1, Len(bytes))
    <3>1. PICK k \in 1..Len(bytes) :
                 rest = <<Torn(bytes[k])>> \o SubSeq(bytes, k + 1, Len(bytes))
      BY <2>3
    <3>2. rest \in Seq(Piece) /\ Suffix(bytes, k - 1, rest)
      BY <3>1, DropTorn
    <3>3. k - 1 \in 0..Len(bytes)
      BY <1>1
    <3> QED BY <1>4, <2>1, <3>2, <3>3
  <2> QED BY <2>1, <2>2, <2>3 DEF Remains
<1> QED
  BY <1>2, <1>3, <1>4 DEF CutFrom

LEMMA CutType ==
  ASSUME TypeOK, NEW n \in Connections, NEW bytes \in Seq(Piece), bytes # <<>>,
         CutFrom(n, bytes)
  PROVE  held' \in [Threads -> Seq(Piece)] /\ received' \in [Chunk -> Nat]
<1>1. PICK rest \in Seq(Piece) :
        /\ held' = [held EXCEPT ![n] = rest]
        /\ Passed(bytes) \/ UNCHANGED received
  BY CutLeaves
<1>2. held \in [Threads -> Seq(Piece)] /\ received \in [Chunk -> Nat]
  BY DEF TypeOK
<1>3. held' \in [Threads -> Seq(Piece)]
  BY <1>1, <1>2
<1>4. received' \in [Chunk -> Nat]
  <2>1. bytes[1] \in Piece
    BY LenProperties, ElementOfSeq, EmptySeq
  <2>2. bytes[1][1] \in Chunk
    BY <2>1 DEF Piece
  <2>3. PICK c \in Chunk : c = bytes[1][1]
    BY <2>2
  <2>4. CASE Passed(bytes)
    <3>1. received' = [received EXCEPT ![c] = received[c] + 1]
      BY <2>3, <2>4 DEF Passed
    <3>2. received[c] + 1 \in Nat
      BY <1>2
    <3> QED BY <1>2, <3>1, <3>2
  <2> QED BY <1>1, <1>2, <2>4
<1> QED
  BY <1>3, <1>4

LEMMA TypeReceiveChunk ==
  ASSUME TypeOK, NEW n \in Connections, ReceiveChunk(n)
  PROVE  TypeOK'
<1> DEFINE e == Other(sending)
<1>1. e \in End
  BY DEF TypeOK, Other, End
<1>2. /\ data \in Seq(Seq(Piece)) /\ thread \in Seq([End -> ThreadState])
      /\ held \in [Threads -> Seq(Piece)] /\ received \in [Chunk -> Nat]
      /\ \A j \in 1..Len(data) : Len(data[j]) <= Room
  BY DEF TypeOK
<1>3. PICK r \in Referred(n, e) :
        \/ /\ Usable(r, e)
           /\ \E k \in 1..Len(data[r]) :
                /\ data' = [data EXCEPT ![r] = SubSeq(@, k + 1, Len(@))]
                /\ CutFrom(n, held[n] \o SubSeq(data[r], 1, k))
           /\ UNCHANGED thread
        \/ /\ held' = [held EXCEPT ![n] = <<>>]
           /\ Leave(n, e)
           /\ UNCHANGED <<data, received>>
  BY DEF ReceiveChunk
<1>4. UNCHANGED <<sides, peer, open, broken, unsent, target, slot, taken>>
  BY DEF ReceiveChunk
<1> HIDE DEF e
<1>5. /\ data' \in Seq(Seq(Piece)) /\ Len(data') = Len(data)
      /\ \A j \in 1..Len(data') : Len(data'[j]) <= Room
      /\ thread' \in Seq([End -> ThreadState]) /\ Len(thread') = Len(thread)
      /\ held' \in [Threads -> Seq(Piece)] /\ received' \in [Chunk -> Nat]
  <2>1. CASE /\ Usable(r, e)
             /\ \E k \in 1..Len(data[r]) :
                  /\ data' = [data EXCEPT ![r] = SubSeq(@, k + 1, Len(@))]
                  /\ CutFrom(n, held[n] \o SubSeq(data[r], 1, k))
             /\ UNCHANGED thread
    <3>1. r \in Connections
      BY <1>1, <2>1, ReferredUsable DEF Usable
    <3>2. data[r] \in Seq(Piece) /\ Len(data[r]) \in Nat /\ held[n] \in Seq(Piece)
          /\ Len(held[n]) \in Nat /\ Len(data[r]) <= Room
      BY <3>1, DataAt, HandsAt
    <3>3. PICK k \in 1..Len(data[r]) :
            /\ data' = [data EXCEPT ![r] = SubSeq(data[r], k + 1, Len(data[r]))]
            /\ CutFrom(n, held[n] \o SubSeq(data[r], 1, k))
      BY <2>1
    <3> DEFINE read == SubSeq(data[r], 1, k)
               left == SubSeq(data[r], k + 1, Len(data[r]))
               bytes == held[n] \o read
    <3>4. k \in 0..Len(data[r])
      BY <3>2
    <3>5. left \in Seq(Piece) /\ Whole(data[r], k, left)
      BY <3>2, <3>4, DropWhole
    <3>6. read \in Seq(Piece) /\ Len(read) = k
      BY <3>2, SubSeqProperties
    <3> HIDE DEF read, left
    <3>7. bytes \in Seq(Piece) /\ Len(bytes) = Len(held[n]) + k
      BY <3>2, <3>6, ConcatProperties
    <3> HIDE DEF bytes
    <3>8. bytes # <<>> /\ CutFrom(n, bytes)
      BY <3>2, <3>3, <3>7, EmptySeq DEF bytes, read
    <3>9. held' \in [Threads -> Seq(Piece)] /\ received' \in [Chunk -> Nat]
      BY <3>7, <3>8, CutType
    <3>10. /\ data' \in Seq(Seq(Piece)) /\ Len(data') = Len(data)
           /\ \A j \in Connections : data'[j] = IF j = r THEN left ELSE data[j]
      <4>1. data' = [data EXCEPT ![r] = left]
        BY <3>3 DEF left
      <4> QED BY <3>1, <3>5, <4>1, DataExcept
    <3>11. Len(left) <= Room
      BY <3>2, <3>5, RoomAssumption DEF Whole
    <3>12. \A j \in 1..Len(data') : Len(data'[j]) <= Room
      BY <1>2, <3>10, <3>11, Lengths DEF Connections
    <3> QED BY <1>2, <2>1, <3>9, <3>10, <3>12
  <2>2. CASE /\ held' = [held EXCEPT ![n] = <<>>]
             /\ Leave(n, e)
             /\ UNCHANGED <<data, received>>
    <3>1. PICK v \in ThreadState : thread' = [thread EXCEPT ![n][e] = v]
      BY <2>2 DEF ThreadState, Leave
    <3>2. thread' \in Seq([End -> ThreadState]) /\ Len(thread') = Len(thread)
      BY <1>1, <3>1, ThreadExcept, ZenonT(30)
    <3>3. <<>> \in Seq(Piece)
      OBVIOUS
    <3>4. held' \in [Threads -> Seq(Piece)]
      BY <1>2, <2>2, <3>3
    <3> QED BY <1>2, <2>2, <3>2, <3>4
  <2> QED
    BY <1>3, <2>1, <2>2
<1>6. {Len(open'), Len(broken'), Len(data'), Len(thread')} = {Len(peer')}
  BY <1>4, <1>5, SameLengths
<1> QED
  BY <1>4, <1>5, <1>6 DEF TypeOK, sides

LEMMA TypeCloseSocket ==
  ASSUME TypeOK, NEW n \in Connections, NEW e \in End, CloseSocket(n, e)
  PROVE  TypeOK'
<1>1. open' \in Seq([End -> BOOLEAN]) /\ Len(open') = Len(open)
  <2>1. PICK r \in Referred(n, e) :
          \/ r # NoSocket /\ open' = [open EXCEPT ![r][e] = FALSE]
          \/ UNCHANGED open
    BY DEF CloseSocket
  <2>2. CASE r # NoSocket /\ open' = [open EXCEPT ![r][e] = FALSE]
    BY <2>2, ReferredUsable, OpenExcept
  <2>3. CASE UNCHANGED open
    BY <2>3 DEF TypeOK
  <2> QED
    BY <2>1, <2>2, <2>3
<1>2. PICK v \in {"closed", "ended"} : thread' = [thread EXCEPT ![n][e] = v]
  BY DEF CloseSocket
<1>3. v \in ThreadState
  BY DEF ThreadState
<1>4. thread' \in Seq([End -> ThreadState]) /\ Len(thread') = Len(thread)
  BY <1>2, <1>3, ThreadExcept
<1>5. UNCHANGED <<sides, peer, broken, data, hands, slot, taken, received>>
  BY DEF CloseSocket
<1>6. {Len(open'), Len(broken'), Len(data'), Len(thread')} = {Len(peer')}
  BY <1>1, <1>4, <1>5, SameLengths
<1> QED
  BY <1>1, <1>4, <1>5, <1>6 DEF TypeOK, sides, hands

LEMMA TypeClearFlag ==
  ASSUME TypeOK, NEW n \in Connections, ClearFlag(n)
  PROVE  TypeOK'
<1>1. "near" \in End /\ "ended" \in ThreadState
  BY DEF End, ThreadState
<1>2. ASSUME NEW e, e = "near", NEW v, v = "ended"
      PROVE  thread' = [thread EXCEPT ![n][e] = v]
  BY <1>2, Zenon DEF ClearFlag
<1>3. thread' \in Seq([End -> ThreadState]) /\ Len(thread') = Len(thread)
  <2>1. PICK e \in End, v \in ThreadState : e = "near" /\ v = "ended"
    BY <1>1
  <2>2. thread' = [thread EXCEPT ![n][e] = v]
    BY <1>2, <2>1
  <2> QED
    BY <2>2, ThreadExcept, ZenonT(30)
<1>4. connected' \in [Peers -> BOOLEAN]
  BY DEF TypeOK, ClearFlag
<1>5. UNCHANGED <<sending, listener, wires, hands, slot, taken, received>>
  BY DEF ClearFlag
<1>6. {Len(open'), Len(broken'), Len(data'), Len(thread')} = {Len(peer')}
  BY <1>3, <1>5, SameLengths DEF wires
<1> QED
  BY <1>3, <1>4, <1>5, <1>6 DEF TypeOK, wires, hands

LEMMA TypeBreak ==
  ASSUME TypeOK, NEW n \in Connections, Break(n)
  PROVE  TypeOK'
<1>1. broken' \in Seq(BOOLEAN) /\ Len(broken') = Len(broken)
  BY BrokenExcept DEF Break
<1>2. UNCHANGED <<sides, peer, open, data, thread, hands, slot, taken, received>>
  BY DEF Break
<1>3. {Len(open'), Len(broken'), Len(data'), Len(thread')} = {Len(peer')}
  BY <1>1, <1>2, SameLengths
<1> QED
  BY <1>1, <1>2, <1>3 DEF TypeOK, sides, hands

LEMMA TypeStep == TypeOK /\ [Next]_vars => TypeOK'
<1> SUFFICES ASSUME TypeOK, [Next]_vars PROVE TypeOK'
  OBVIOUS
<1>1. CASE UNCHANGED vars
  BY <1>1 DEF vars, sides, wires, hands, TypeOK
<1>2. ASSUME NEW p \in Peers, Connect(p) PROVE TypeOK'
  BY <1>2, TypeConnect
<1>3. ASSUME NEW n \in Connections,
             \/ Accept(n) \/ Break(n) \/ SendChunk(n) \/ SendRest(n)
             \/ ReceiveChunk(n) \/ ClearFlag(n)
      PROVE  TypeOK'
  BY <1>3, TypeAccept, TypeBreak, TypeSendChunk, TypeSendRest, TypeReceiveChunk, TypeClearFlag
<1>4. ASSUME NEW n \in Connections, NEW e \in End, CloseSocket(n, e) PROVE TypeOK'
  BY <1>4, TypeCloseSocket
<1> QED
  BY <1>1, <1>2, <1>3, <1>4, TypeBind DEF Next

(* The state always has its type.                                          *)
THEOREM TypeCorrect == Spec => []TypeOK
BY TypeInit, TypeStep, PTL DEF Spec

-----------------------------------------------------------------------------
(* The flag of a connecting module and its thread.                         *)

Ended(n) == thread[n]["near"] = "ended"

(* At most one thread of p lives, and one does as long as the flag is set. *)
OneThread(p) ==
  /\ connected[p] <=> \E n \in Connections : peer[n] = p /\ ~Ended(n)
  /\ \A n, k \in Connections :
       peer[n] = p /\ peer[k] = p /\ ~Ended(n) /\ ~Ended(k) => n = k

SameThreads ==
  connected' = connected /\ peer' = peer /\ \A n \in Connections : Ended(n)' = Ended(n)

LEMMA SameOneThread ==
  ASSUME SameThreads, NEW p \in Peers, OneThread(p)
  PROVE  OneThread(p)'
<1>1. Connections' = Connections
  BY DEF SameThreads, Connections
<1> QED
  BY <1>1 DEF SameThreads, OneThread

(* A step of one thread concerns its own end of its own connection.        *)
LEMMA NearAfter ==
  ASSUME TypeOK, NEW n \in Connections, NEW e \in End, NEW v \in ThreadState,
         thread' = [thread EXCEPT ![n][e] = v]
  PROVE  \A k \in Connections :
           thread'[k]["near"] = IF k = n /\ e = "near" THEN v ELSE thread[k]["near"]
<1>1. thread[n] \in [End -> ThreadState]
  BY Lengths, ElementOfSeq DEF TypeOK, Connections
<1>2. \A k \in Connections :
        thread'[k] = IF k = n THEN [thread[n] EXCEPT ![e] = v] ELSE thread[k]
  BY ThreadExcept
<1>3. \A f \in End : [thread[n] EXCEPT ![e] = v][f] = IF f = e THEN v ELSE thread[n][f]
  BY <1>1
<1>4. "near" \in End
  BY DEF End
<1> QED
  BY <1>2, <1>3, <1>4

LEMMA SendReceiveKeep ==
  ASSUME TypeOK, NEW n \in Connections, SendChunk(n) \/ SendRest(n) \/ ReceiveChunk(n)
  PROVE  SameThreads
<1>1. connected' = connected /\ peer' = peer
  BY DEF SendChunk, SendRest, ReceiveChunk, sides
<1>2. CASE thread' = thread
  BY <1>1, <1>2 DEF SameThreads, Ended
<1>3. ASSUME NEW e \in End, thread[n][e] = "running", Leave(n, e)
      PROVE  SameThreads
  <2>1. PICK v \in ThreadState : v = "leaving" /\ thread' = [thread EXCEPT ![n][e] = v]
    BY <1>3 DEF Leave, ThreadState
  <2>2. \A k \in Connections :
          thread'[k]["near"] = IF k = n /\ e = "near" THEN v ELSE thread[k]["near"]
    BY <2>1, NearAfter, ZenonT(30)
  <2> QED
    BY <1>1, <1>3, <2>1, <2>2 DEF SameThreads, Ended
<1>4. sending \in End /\ Other(sending) \in End
  BY DEF TypeOK, Other, End
<1>5. CASE SendChunk(n) \/ SendRest(n)
  <2>1. thread' = thread \/ (thread[n][sending] = "running" /\ Leave(n, sending))
    BY <1>5 DEF SendChunk, SendRest
  <2> QED
    BY <1>2, <1>3, <1>4, <2>1
<1>6. CASE ReceiveChunk(n)
  <2>1. \/ thread' = thread
        \/ thread[n][Other(sending)] = "running" /\ Leave(n, Other(sending))
    BY <1>6 DEF ReceiveChunk
  <2> QED
    BY <1>2, <1>3, <1>4, <2>1
<1> QED
  BY <1>5, <1>6

LEMMA CloseKeeps ==
  ASSUME TypeOK, NEW n \in Connections, NEW e \in End, CloseSocket(n, e)
  PROVE  SameThreads
<1>1. connected' = connected /\ peer' = peer
  BY DEF CloseSocket, sides
<1>2. PICK v \in ThreadState :
        /\ thread' = [thread EXCEPT ![n][e] = v]
        /\ v = IF e = "near" THEN "closed" ELSE "ended"
  BY DEF CloseSocket, ThreadState
<1>3. \A k \in Connections :
        thread'[k]["near"] = IF k = n /\ e = "near" THEN v ELSE thread[k]["near"]
  <2>1. thread' = [thread EXCEPT ![n][e] = v]
    BY <1>2
  <2> QED
    BY <2>1, NearAfter, ZenonT(30)
<1>4. thread[n][e] = "leaving"
  BY DEF CloseSocket
<1> QED
  BY <1>1, <1>2, <1>3, <1>4 DEF SameThreads, Ended

LEMMA AcceptKeeps ==
  ASSUME TypeOK, NEW n \in Connections, Accept(n)
  PROVE  SameThreads
<1>1. connected' = connected /\ peer' = peer
  BY DEF Accept, sides, wires
<1>2. ASSUME NEW e, e = "far", NEW v, v = "running"
      PROVE  thread' = [thread EXCEPT ![n][e] = v]
  BY <1>2, Zenon DEF Accept
<1>3. PICK e \in End, v \in ThreadState : e = "far" /\ v = "running"
  BY DEF End, ThreadState
<1>4. thread' = [thread EXCEPT ![n][e] = v]
  BY <1>2, <1>3
<1>5. \A k \in Connections :
        thread'[k]["near"] = IF k = n /\ e = "near" THEN v ELSE thread[k]["near"]
  BY <1>4, NearAfter, ZenonT(30)
<1> QED
  BY <1>1, <1>3, <1>5 DEF SameThreads, Ended

(* The flag is cleared by the only thread there is.                        *)
LEMMA ClearFlagOneThread ==
  ASSUME TypeOK, NEW n \in Connections, ClearFlag(n), NEW p \in Peers, OneThread(p)
  PROVE  OneThread(p)'
<1>1. peer' = peer /\ Connections' = Connections
  BY DEF ClearFlag, wires, Connections
<1>2. ASSUME NEW e, e = "near", NEW v, v = "ended"
      PROVE  thread' = [thread EXCEPT ![n][e] = v]
  BY <1>2, Zenon DEF ClearFlag
<1>3. PICK e \in End, v \in ThreadState : e = "near" /\ v = "ended"
  BY DEF End, ThreadState
<1>4. thread' = [thread EXCEPT ![n][e] = v]
  BY <1>2, <1>3
<1>5. \A k \in Connections : Ended(k)' <=> (k = n \/ Ended(k))
  <2>1. \A k \in Connections :
          thread'[k]["near"] = IF k = n /\ e = "near" THEN v ELSE thread[k]["near"]
    BY <1>4, NearAfter, ZenonT(30)
  <2> QED
    BY <1>3, <2>1 DEF Ended
<1>6. ~Ended(n)
  BY DEF ClearFlag, Ended
<1>7. peer[n] \in Peers
  BY ElementOfSeq DEF TypeOK, Connections
<1>8. connected'[p] = IF p = peer[n] THEN FALSE ELSE connected[p]
  BY <1>7 DEF TypeOK, ClearFlag
<1> QED
  BY <1>1, <1>5, <1>6, <1>8 DEF OneThread

(* A connection is made only while there is no thread.                     *)
LEMMA ConnectOneThread ==
  ASSUME TypeOK, NEW q \in Peers, Connect(q), NEW p \in Peers, OneThread(p)
  PROVE  OneThread(p)'
<1> DEFINE new == Len(peer) + 1
           t == [near |-> "running", far |-> "none"]
<1>1. peer \in Seq(Peers) /\ thread \in Seq([End -> ThreadState])
  BY DEF TypeOK
<1>2. t \in [End -> ThreadState] /\ t["near"] = "running"
  BY DEF End, ThreadState
<1>3. peer' = Append(peer, q) /\ thread' = Append(thread, t)
  BY DEF Connect
<1> HIDE DEF t
<1>4. /\ Len(peer') = new /\ peer'[new] = q
      /\ \A k \in Connections : peer'[k] = peer[k]
  BY <1>1, <1>3, AppendProperties DEF Connections
<1>5. thread'[new] = t /\ \A k \in Connections : thread'[k] = thread[k]
  BY <1>1, <1>2, <1>3, Lengths, AppendProperties DEF Connections
<1>6. Connections' = Connections \cup {new} /\ new \notin Connections
  BY <1>4, Lengths DEF Connections
<1>7. /\ thread'[new]["near"] # "ended"
      /\ \A k \in Connections : thread'[k]["near"] = thread[k]["near"]
  BY <1>2, <1>5
<1>8. ~connected[q] /\ connected'[p] = IF p = q THEN TRUE ELSE connected[p]
  BY DEF TypeOK, Connect
<1> HIDE DEF new
<1> QED
  BY <1>4, <1>6, <1>7, <1>8 DEF OneThread, Ended

LEMMA OneThreadStep ==
  TypeOK /\ (\A p \in Peers : OneThread(p)) /\ [Next]_vars => (\A p \in Peers : OneThread(p))'
<1> SUFFICES ASSUME TypeOK, \A p \in Peers : OneThread(p), [Next]_vars, NEW p \in Peers
             PROVE  OneThread(p)'
  OBVIOUS
<1>1. CASE SameThreads
  BY <1>1, SameOneThread
<1>2. CASE UNCHANGED vars \/ Bind \/ \E n \in Connections : Break(n)
  BY <1>1, <1>2 DEF vars, sides, wires, Bind, Break, SameThreads, Ended
<1>3. ASSUME NEW q \in Peers, Connect(q) PROVE OneThread(p)'
  BY <1>3, ConnectOneThread
<1>4. ASSUME NEW n \in Connections,
             Accept(n) \/ SendChunk(n) \/ SendRest(n) \/ ReceiveChunk(n) \/ ClearFlag(n)
      PROVE  OneThread(p)'
  BY <1>1, <1>4, AcceptKeeps, SendReceiveKeep, ClearFlagOneThread
<1>5. ASSUME NEW n \in Connections, NEW e \in End, CloseSocket(n, e) PROVE OneThread(p)'
  BY <1>1, <1>5, CloseKeeps
<1> QED
  BY <1>2, <1>3, <1>4, <1>5 DEF Next

(* A connecting module has one thread while its flag is set, and none      *)
(* while it is not, wherever its threads' references lead.                 *)
THEOREM FlagAlwaysTruthful == Spec => []FlagTruthful
<1> DEFINE IInv == TypeOK /\ \A p \in Peers : OneThread(p)
<1>1. Init => IInv
  <2> SUFFICES ASSUME Init, NEW p \in Peers PROVE OneThread(p)
    BY TypeInit
  <2>1. Connections = {} /\ connected[p] = FALSE
    BY EmptySeq DEF Init, Connections
  <2> QED
    BY <2>1 DEF OneThread
<1>2. IInv /\ [Next]_vars => IInv'
  BY TypeStep, OneThreadStep
<1>3. IInv => FlagTruthful
  <2> SUFFICES ASSUME IInv, NEW p \in Peers
               PROVE  Cardinality({n \in Connections : peer[n] = p /\ thread[n]["near"] # "ended"})
                        = (IF connected[p] THEN 1 ELSE 0)
    BY DEF FlagTruthful
  <2> DEFINE alive == {n \in Connections : peer[n] = p /\ thread[n]["near"] # "ended"}
  <2>1. CASE connected[p]
    <3>1. PICK n \in Connections : alive = {n}
      BY <2>1 DEF OneThread, Ended
    <3> QED
      BY <2>1, <3>1, FS_Singleton
  <2>2. CASE ~connected[p]
    <3>1. alive = {}
      BY <2>2 DEF OneThread, Ended
    <3> QED
      BY <2>2, <3>1, FS_EmptySet
  <2> QED
    BY <2>1, <2>2
<1> HIDE DEF IInv
<1> QED
  BY <1>1, <1>2, <1>3, PTL DEF Spec

-----------------------------------------------------------------------------
(* Pieces in places.  A place is an index of one of the sequences that a   *)
(* thread or a connection has; what a step does to them is a few moves,    *)
(* each stated of any sequences with these keys.                           *)

Where == {"unsent", "data", "held"}
Keys == Where \X Threads
Lines == [Keys -> Seq(Piece)]

Store ==
  [x \in Keys |->
    IF x[2] \notin Connections THEN <<>>
    ELSE IF x[1] = "unsent" THEN unsent[x[2]]
    ELSE IF x[1] = "data" THEN data[x[2]] ELSE held[x[2]]]

Holds(L, x, i, q) == x \in Keys /\ i \in 1..Len(L[x]) /\ L[x][i] = q
Once(L, q) ==
  \A x, y \in Keys : \A i, j \in Nat : Holds(L, x, i, q) /\ Holds(L, y, j, q) => x = y /\ i = j
Has(L, q) == \E x \in Keys : \E i \in Nat : Holds(L, x, i, q)

(* The first k pieces of b go to the end of a.                             *)
Moved(L, M, a, b, k) ==
  /\ Len(M[a]) = Len(L[a]) + k
  /\ \A i \in 1..Len(L[a]) : M[a][i] = L[a][i]
  /\ \A i \in 1..k : M[a][Len(L[a]) + i] = L[b][i]
  /\ Whole(L[b], k, M[b])
  /\ \A x \in Keys \ {a, b} : M[x] = L[x]

(* The first d pieces of a go away.                                        *)
Dropped(L, M, a, d) == Suffix(L[a], d, M[a]) /\ \A x \in Keys \ {a} : M[x] = L[x]
Released(L, M, a, d) == Whole(L[a], d, M[a]) /\ \A x \in Keys \ {a} : M[x] = L[x]

(* Two pieces come to a, which is empty.                                   *)
Filled(L, M, a, c) ==
  /\ L[a] = <<>> /\ Len(M[a]) = 2 /\ M[a][1] = <<c, 1>> /\ M[a][2] = <<c, 2>>
  /\ \A x \in Keys \ {a} : M[x] = L[x]

LEMMA LineLen ==
  ASSUME NEW L \in Lines, NEW x \in Keys
  PROVE  L[x] \in Seq(Piece) /\ Len(L[x]) \in Nat
<1>1. L[x] \in Seq(Piece)
  BY DEF Lines
<1> QED
  BY <1>1, LenProperties

LEMMA MovedKeeps ==
  ASSUME NEW L \in Lines, NEW M \in Lines, NEW a \in Keys, NEW b \in Keys, a # b,
         NEW k \in 0..Len(L[b]), Moved(L, M, a, b, k), NEW q
  PROVE  (Once(L, q) => Once(M, q)) /\ (Has(L, q) <=> Has(M, q))
<1>1. /\ Len(L[a]) \in Nat /\ Len(L[b]) \in Nat /\ k \in Nat
      /\ Len(M[a]) = Len(L[a]) + k /\ Len(M[b]) = Len(L[b]) - k
  BY LineLen DEF Moved, Whole
<1> DEFINE X(x, i) == IF x = a /\ i > Len(L[a]) THEN b ELSE x
           I(x, i) == IF x = a /\ i > Len(L[a]) THEN i - Len(L[a]) ELSE IF x = b THEN i + k ELSE i
<1>2. ASSUME NEW x \in Keys, NEW i \in Nat, Holds(M, x, i, q)
      PROVE  X(x, i) \in Keys /\ I(x, i) \in Nat /\ Holds(L, X(x, i), I(x, i), q)
  <2>1. i \in 1..Len(M[x]) /\ M[x][i] = q
    BY <1>2 DEF Holds
  <2>2. CASE x = a /\ i > Len(L[a])
    <3>1. i - Len(L[a]) \in 1..k /\ Len(L[a]) + (i - Len(L[a])) = i
      BY <1>1, <2>1, <2>2
    <3>2. M[a][i] = L[b][i - Len(L[a])]
      BY <3>1 DEF Moved
    <3>3. i - Len(L[a]) \in 1..Len(L[b]) /\ i - Len(L[a]) \in Nat
      BY <1>1, <3>1
    <3> QED BY <2>1, <2>2, <3>2, <3>3 DEF Holds
  <2>3. CASE x = a /\ ~(i > Len(L[a]))
    <3>1. i \in 1..Len(L[a]) /\ M[a][i] = L[a][i]
      BY <1>1, <2>1, <2>3 DEF Moved
    <3> QED BY <2>1, <2>3, <3>1 DEF Holds
  <2>4. CASE x = b
    <3>1. M[b][i] = L[b][i + k] /\ i + k \in 1..Len(L[b]) /\ i + k \in Nat
      BY <1>1, <2>1, <2>4, SMTT(30) DEF Moved, Whole
    <3> QED BY <2>1, <2>4, <3>1 DEF Holds
  <2>5. CASE x # a /\ x # b
    BY <1>2, <2>1, <2>5 DEF Holds, Moved
  <2> QED BY <2>2, <2>3, <2>4, <2>5
<1>3. ASSUME NEW x \in Keys, NEW i \in Nat, Holds(L, x, i, q) PROVE Has(M, q)
  <2>1. i \in 1..Len(L[x]) /\ L[x][i] = q
    BY <1>3 DEF Holds
  <2>2. CASE x = b /\ i <= k
    <3>1. i \in 1..k /\ Len(L[a]) + i \in 1..Len(M[a]) /\ Len(L[a]) + i \in Nat
      BY <1>1, <2>1, <2>2
    <3>2. M[a][Len(L[a]) + i] = L[b][i]
      BY <3>1 DEF Moved
    <3> QED BY <2>1, <2>2, <3>1, <3>2 DEF Has, Holds
  <2>3. CASE x = b /\ ~(i <= k)
    <3>1. i - k \in 1..Len(M[b]) /\ i - k \in Nat /\ (i - k) + k = i
      BY <1>1, <2>1, <2>3
    <3>2. M[b][i - k] = L[b][i]
      BY <3>1 DEF Moved, Whole
    <3> QED BY <2>1, <2>3, <3>1, <3>2 DEF Has, Holds
  <2>4. CASE x = a
    <3>1. i \in 1..Len(M[a]) /\ M[a][i] = L[a][i]
      BY <1>1, <2>1, <2>4 DEF Moved
    <3> QED BY <2>1, <2>4, <3>1 DEF Has, Holds
  <2>5. CASE x # a /\ x # b
    <3>1. M[x] = L[x]
      BY <2>5 DEF Moved
    <3> QED BY <2>1, <3>1 DEF Has, Holds
  <2> QED BY <2>2, <2>3, <2>4, <2>5
<1>4. Has(M, q) => Has(L, q)
  <2> HIDE DEF X, I
  <2> QED BY <1>2 DEF Has
<1>5. ASSUME Once(L, q), NEW x \in Keys, NEW y \in Keys, NEW i \in Nat, NEW j \in Nat,
             Holds(M, x, i, q), Holds(M, y, j, q)
      PROVE  x = y /\ i = j
  <2>1. X(x, i) = X(y, j) /\ I(x, i) = I(y, j)
    <3>1. X(x, i) \in Keys /\ I(x, i) \in Nat /\ Holds(L, X(x, i), I(x, i), q)
      BY <1>2, <1>5
    <3>2. X(y, j) \in Keys /\ I(y, j) \in Nat /\ Holds(L, X(y, j), I(y, j), q)
      BY <1>2, <1>5
    <3> HIDE DEF X, I
    <3> QED BY <1>5, <3>1, <3>2 DEF Once
  <2>2. i \in 1..Len(M[x]) /\ j \in 1..Len(M[y])
    BY <1>5 DEF Holds
  <2>3. CASE x = a /\ i > Len(L[a])
    <3>1. i - Len(L[a]) <= k
      BY <1>1, <2>2, <2>3
    <3>2. CASE y = a /\ j > Len(L[a])
      BY <1>1, <2>1, <2>3, <3>2
    <3>3. CASE y = b
      BY <1>1, <2>1, <2>2, <2>3, <3>1, <3>3
    <3> QED BY <2>1, <2>3, <3>2, <3>3
  <2>4. CASE y = a /\ j > Len(L[a])
    <3>1. j - Len(L[a]) <= k
      BY <1>1, <2>2, <2>4
    <3>2. CASE x = a /\ i > Len(L[a])
      BY <1>1, <2>1, <2>4, <3>2
    <3>3. CASE x = b
      BY <1>1, <2>1, <2>2, <2>4, <3>1, <3>3
    <3> QED BY <2>1, <2>4, <3>2, <3>3
  <2>5. CASE ~(x = a /\ i > Len(L[a])) /\ ~(y = a /\ j > Len(L[a]))
    BY <1>1, <2>1, <2>5
  <2> QED BY <2>3, <2>4, <2>5
<1> HIDE DEF X, I
<1>6. Has(L, q) => Has(M, q)
  BY <1>3 DEF Has
<1>7. Once(L, q) => Once(M, q)
  BY <1>5 DEF Once
<1> QED
  BY <1>4, <1>6, <1>7

LEMMA DroppedKeeps ==
  ASSUME NEW L \in Lines, NEW M \in Lines, NEW a \in Keys, NEW d \in 0..Len(L[a]),
         Dropped(L, M, a, d), NEW q, q[2] # 0
  PROVE  (Once(L, q) => Once(M, q)) /\ (Has(M, q) => Has(L, q))
<1>1. Len(L[a]) \in Nat /\ d \in Nat /\ Len(M[a]) = Len(L[a]) - d
  BY LineLen DEF Dropped, Suffix
<1> DEFINE I(x, i) == IF x = a THEN i + d ELSE i
<1>2. ASSUME NEW x \in Keys, NEW i \in Nat, Holds(M, x, i, q)
      PROVE  I(x, i) \in Nat /\ Holds(L, x, I(x, i), q)
  <2>1. i \in 1..Len(M[x]) /\ M[x][i] = q
    BY <1>2 DEF Holds
  <2>2. CASE x = a
    <3>1. M[a][i] = L[a][i + d] /\ i + d \in 1..Len(L[a]) /\ i + d \in Nat
      BY <1>1, <2>1, <2>2 DEF Dropped, Suffix
    <3> QED BY <2>1, <2>2, <3>1 DEF Holds
  <2>3. CASE x # a
    BY <1>2, <2>1, <2>3 DEF Holds, Dropped
  <2> QED BY <2>2, <2>3
<1>3. ASSUME Once(L, q), NEW x \in Keys, NEW y \in Keys, NEW i \in Nat, NEW j \in Nat,
             Holds(M, x, i, q), Holds(M, y, j, q)
      PROVE  x = y /\ i = j
  <2>1. x = y /\ I(x, i) = I(y, j)
    <3>1. I(x, i) \in Nat /\ Holds(L, x, I(x, i), q)
      BY <1>2, <1>3
    <3>2. I(y, j) \in Nat /\ Holds(L, y, I(y, j), q)
      BY <1>2, <1>3
    <3> HIDE DEF I
    <3> QED BY <1>3, <3>1, <3>2 DEF Once
  <2> QED BY <1>1, <2>1
<1> HIDE DEF I
<1>4. Has(M, q) => Has(L, q)
  BY <1>2 DEF Has
<1>5. Once(L, q) => Once(M, q)
  BY <1>3 DEF Once
<1> QED
  BY <1>4, <1>5

(* Whole pieces that are not among the first two stay.                     *)
LEMMA ReleasedKeeps ==
  ASSUME NEW L \in Lines, NEW M \in Lines, NEW a \in Keys, NEW d \in 0..Len(L[a]),
         Released(L, M, a, d), NEW q, \A i \in 1..d : L[a][i] # q
  PROVE  (Once(L, q) => Once(M, q)) /\ (Has(M, q) <=> Has(L, q))
<1>1. Len(L[a]) \in Nat /\ d \in Nat /\ Len(M[a]) = Len(L[a]) - d
  BY LineLen DEF Released, Whole
<1> DEFINE I(x, i) == IF x = a THEN i + d ELSE i
<1>2. ASSUME NEW x \in Keys, NEW i \in Nat, Holds(M, x, i, q)
      PROVE  I(x, i) \in Nat /\ Holds(L, x, I(x, i), q)
  <2>1. i \in 1..Len(M[x]) /\ M[x][i] = q
    BY <1>2 DEF Holds
  <2>2. CASE x = a
    <3>1. M[a][i] = L[a][i + d] /\ i + d \in 1..Len(L[a]) /\ i + d \in Nat
      BY <1>1, <2>1, <2>2 DEF Released, Whole
    <3> QED BY <2>1, <2>2, <3>1 DEF Holds
  <2>3. CASE x # a
    BY <1>2, <2>1, <2>3 DEF Holds, Released
  <2> QED BY <2>2, <2>3
<1>3. ASSUME NEW x \in Keys, NEW i \in Nat, Holds(L, x, i, q) PROVE Has(M, q)
  <2>1. i \in 1..Len(L[x]) /\ L[x][i] = q
    BY <1>3 DEF Holds
  <2>2. CASE x = a
    <3>1. i > d
      BY <1>1, <2>1, <2>2
    <3>2. i - d \in 1..Len(M[a]) /\ i - d \in Nat /\ (i - d) + d = i
      BY <1>1, <2>1, <2>2, <3>1
    <3>3. M[a][i - d] = L[a][i]
      BY <3>2 DEF Released, Whole
    <3> QED BY <2>1, <2>2, <3>2, <3>3 DEF Has, Holds
  <2>3. CASE x # a
    <3>1. M[x] = L[x]
      BY <2>3 DEF Released
    <3> QED BY <2>1, <3>1 DEF Has, Holds
  <2> QED BY <2>2, <2>3
<1>4. ASSUME Once(L, q), NEW x \in Keys, NEW y \in Keys, NEW i \in Nat, NEW j \in Nat,
             Holds(M, x, i, q), Holds(M, y, j, q)
      PROVE  x = y /\ i = j
  <2>1. x = y /\ I(x, i) = I(y, j)
    <3>1. I(x, i) \in Nat /\ Holds(L, x, I(x, i), q)
      BY <1>2, <1>4
    <3>2. I(y, j) \in Nat /\ Holds(L, y, I(y, j), q)
      BY <1>2, <1>4
    <3> HIDE DEF I
    <3> QED BY <1>4, <3>1, <3>2 DEF Once
  <2> QED BY <1>1, <2>1
<1> HIDE DEF I
<1>5. Has(M, q) <=> Has(L, q)
  BY <1>2, <1>3 DEF Has
<1>6. Once(L, q) => Once(M, q)
  BY <1>4 DEF Once
<1> QED
  BY <1>5, <1>6

(* Those that are among them are nowhere afterwards.                       *)
LEMMA ReleasedGone ==
  ASSUME NEW L \in Lines, NEW M \in Lines, NEW a \in Keys, NEW d \in 0..Len(L[a]),
         Released(L, M, a, d), NEW q, Once(L, q), NEW i \in 1..d, L[a][i] = q
  PROVE  ~Has(M, q)
<1>1. Len(L[a]) \in Nat /\ d \in Nat /\ Len(M[a]) = Len(L[a]) - d
  BY LineLen DEF Released, Whole
<1>2. i \in Nat /\ Holds(L, a, i, q)
  BY <1>1 DEF Holds
<1> SUFFICES ASSUME NEW x \in Keys, NEW j \in Nat, Holds(M, x, j, q) PROVE FALSE
  BY DEF Has
<1>3. j \in 1..Len(M[x]) /\ M[x][j] = q
  BY DEF Holds
<1>4. CASE x = a
  <2>1. M[a][j] = L[a][j + d] /\ j + d \in 1..Len(L[a]) /\ j + d \in Nat /\ j + d # i
    BY <1>1, <1>3, <1>4 DEF Released, Whole
  <2>2. Holds(L, a, j + d, q)
    BY <1>3, <1>4, <2>1 DEF Holds
  <2> QED BY <1>2, <2>1, <2>2 DEF Once
<1>5. CASE x # a
  <2>1. Holds(L, x, j, q)
    BY <1>3, <1>5 DEF Holds, Released
  <2> QED BY <1>2, <1>5, <2>1 DEF Once
<1> QED
  BY <1>4, <1>5

LEMMA FilledKeeps ==
  ASSUME NEW L \in Lines, NEW M \in Lines, NEW a \in Keys, NEW c, Filled(L, M, a, c), NEW q
  PROVE  /\ q \notin {<<c, 1>>, <<c, 2>>} =>
              (Once(L, q) => Once(M, q)) /\ (Has(M, q) <=> Has(L, q))
         /\ q \in {<<c, 1>>, <<c, 2>>} /\ ~Has(L, q) => Once(M, q) /\ Has(M, q)
<1>1. ASSUME NEW x \in Keys, x # a, NEW i \in Nat
      PROVE  Holds(M, x, i, q) <=> Holds(L, x, i, q)
  BY <1>1 DEF Filled, Holds
<1>2. ASSUME NEW i \in Nat
      PROVE  /\ ~Holds(L, a, i, q)
             /\ Holds(M, a, i, q) <=> (i = 1 /\ q = <<c, 1>>) \/ (i = 2 /\ q = <<c, 2>>)
  <2>1. L[a] = <<>> /\ Len(M[a]) = 2 /\ M[a][1] = <<c, 1>> /\ M[a][2] = <<c, 2>>
    BY DEF Filled
  <2>2. Len(L[a]) = 0
    BY <2>1
  <2>3. ~Holds(L, a, i, q)
    BY <2>2 DEF Holds
  <2>4. Holds(M, a, i, q) <=> i \in 1..2 /\ M[a][i] = q
    BY <2>1 DEF Holds
  <2>5. i \in 1..2 <=> i = 1 \/ i = 2
    OBVIOUS
  <2> QED BY <2>1, <2>3, <2>4, <2>5
<1>3. CASE q \notin {<<c, 1>>, <<c, 2>>}
  <2>1. \A x \in Keys : \A i \in Nat : Holds(M, x, i, q) <=> Holds(L, x, i, q)
    BY <1>1, <1>2, <1>3
  <2> QED BY <1>3, <2>1 DEF Once, Has
<1>4. CASE q \in {<<c, 1>>, <<c, 2>>}
  <2> SUFFICES ASSUME ~Has(L, q) PROVE Once(M, q) /\ Has(M, q)
    BY <1>4
  <2>1. \A x \in Keys : \A i \in Nat : Holds(M, x, i, q) =>
          x = a /\ ((i = 1 /\ q = <<c, 1>>) \/ (i = 2 /\ q = <<c, 2>>))
    BY <1>1, <1>2 DEF Has
  <2>2. Once(M, q)
    BY <2>1 DEF Once
  <2>3. Has(M, q)
    <3>1. CASE q = <<c, 1>>
      BY <1>2, <3>1 DEF Has
    <3>2. CASE q = <<c, 2>>
      BY <1>2, <3>2 DEF Has
    <3> QED BY <1>4, <3>1, <3>2
  <2> QED BY <2>2, <2>3
<1> QED
  BY <1>3, <1>4

-----------------------------------------------------------------------------
(* What holds of the threads, sockets and hands while nothing disturbed    *)
(* them, and what of it a step keeps.                                      *)

Undisturbed ==
  \A n \in Connections : ~broken[n] /\ \A e \in End : thread[n][e] \in {"none", "running"}

Calm == Undisturbed /\ Alone

LEMMA EndAfter ==
  ASSUME TypeOK, NEW n \in Connections, NEW e \in End, NEW v \in ThreadState,
         thread' = [thread EXCEPT ![n][e] = v]
  PROVE  \A k \in Connections : \A f \in End :
           thread'[k][f] = IF k = n /\ f = e THEN v ELSE thread[k][f]
<1>1. thread[n] \in [End -> ThreadState]
  BY Lengths, ElementOfSeq DEF TypeOK, Connections
<1>2. \A k \in Connections :
        thread'[k] = IF k = n THEN [thread[n] EXCEPT ![e] = v] ELSE thread[k]
  BY ThreadExcept
<1>3. \A f \in End : [thread[n] EXCEPT ![e] = v][f] = IF f = e THEN v ELSE thread[n][f]
  BY <1>1
<1> QED
  BY <1>2, <1>3

(* What the steps do to a thread's state, said in one way.                 *)
SetsThread(n, e, v) ==
  e \in End /\ v \in ThreadState /\ thread' = [thread EXCEPT ![n][e] = v]

LEMMA LeaveSets ==
  ASSUME NEW n, NEW e \in End, Leave(n, e)
  PROVE  SetsThread(n, e, "leaving")
BY DEF Leave, SetsThread, ThreadState

LEMMA CloseSets ==
  ASSUME NEW n, NEW e \in End, CloseSocket(n, e)
  PROVE  SetsThread(n, e, IF e = "near" THEN "closed" ELSE "ended")
BY DEF CloseSocket, SetsThread, ThreadState

LEMMA ClearSets ==
  ASSUME NEW n, ClearFlag(n)
  PROVE  SetsThread(n, "near", "ended")
<1>1. "near" \in End /\ "ended" \in ThreadState
  BY DEF End, ThreadState
<1> QED
  BY <1>1, Zenon DEF ClearFlag, SetsThread

LEMMA AcceptSets ==
  ASSUME NEW n, Accept(n)
  PROVE  SetsThread(n, "far", "running")
<1>1. "far" \in End /\ "running" \in ThreadState
  BY DEF End, ThreadState
<1> QED
  BY <1>1, Zenon DEF Accept, SetsThread

LEMMA SetsAfter ==
  ASSUME TypeOK, NEW n \in Connections, NEW e, NEW v, SetsThread(n, e, v)
  PROVE  \A k \in Connections : \A f \in End :
           thread'[k][f] = IF k = n /\ f = e THEN v ELSE thread[k][f]
<1>1. PICK f \in End, w \in ThreadState : f = e /\ w = v
  BY DEF SetsThread
<1>2. thread' = [thread EXCEPT ![n][f] = w]
  BY <1>1, Zenon DEF SetsThread
<1>3. \A k \in Connections : \A g \in End :
        thread'[k][g] = IF k = n /\ g = f THEN w ELSE thread[k][g]
  BY <1>2, EndAfter, ZenonT(30)
<1> QED
  BY <1>1, <1>3

(* A thread that leaves, closes or ends, and a reset, disturb.             *)
LEMMA ThreadDisturbs ==
  ASSUME TypeOK, NEW n \in Connections, NEW e, NEW v, SetsThread(n, e, v),
         v \notin {"none", "running"}, UNCHANGED peer
  PROVE  ~Undisturbed'
<1>1. e \in End
  BY DEF SetsThread
<1>2. thread'[n][e] = v
  BY <1>1, SetsAfter
<1>3. n \in Connections'
  BY DEF Connections
<1> QED
  BY <1>1, <1>2, <1>3 DEF Undisturbed

LEMMA BreakDisturbs ==
  ASSUME TypeOK, NEW n \in Connections, broken' = [broken EXCEPT ![n] = TRUE], UNCHANGED peer
  PROVE  ~Undisturbed'
<1>1. broken'[n] = TRUE
  BY Lengths, ExceptSeq, TRUE \in BOOLEAN DEF TypeOK, Connections
<1>2. n \in Connections'
  BY DEF Connections
<1> QED
  BY <1>1, <1>2 DEF Undisturbed

(* A connection that is made is in order and has no hands in use.          *)
LEMMA ConnectAdds ==
  ASSUME TypeOK, NEW p \in Peers, Connect(p)
  PROVE  LET new == Len(peer) + 1
         IN  /\ new \notin Connections /\ Connections' = Connections \cup {new}
             /\ new \in Threads
             /\ \A n \in Connections :
                  /\ broken'[n] = broken[n] /\ data'[n] = data[n]
                  /\ open'[n] = open[n] /\ thread'[n] = thread[n]
             /\ data'[new] = <<>>
             /\ thread'[new]["near"] = "running" /\ thread'[new]["far"] = "none"
             /\ \A e \in End : open'[new][e] = TRUE
<1> DEFINE o == [e \in End |-> TRUE]
           t == [near |-> "running", far |-> "none"]
           new == Len(peer) + 1
<1>1. /\ peer' = Append(peer, p) /\ open' = Append(open, o) /\ broken' = Append(broken, FALSE)
      /\ data' = Append(data, <<>>) /\ thread' = Append(thread, t)
  BY DEF Connect
<1>2. o \in [End -> BOOLEAN] /\ \A e \in End : o[e] = TRUE
  OBVIOUS
<1>3. t \in [End -> ThreadState] /\ t["near"] = "running" /\ t["far"] = "none"
  BY DEF End, ThreadState
<1>4. /\ peer \in Seq(Peers) /\ open \in Seq([End -> BOOLEAN]) /\ broken \in Seq(BOOLEAN)
      /\ data \in Seq(Seq(Piece)) /\ thread \in Seq([End -> ThreadState])
  BY DEF TypeOK
<1> HIDE DEF o, t
<1>5. Len(peer') = new
  BY <1>1, <1>4, AppendProperties
<1>6. Connections' = Connections \cup {new} /\ new \notin Connections /\ new \in Threads
  <2>1. Len(peer) < MaxConnections /\ MaxConnections \in Nat
    BY BoundsAssumption DEF Connect, MayConnect
  <2> QED BY <1>5, <2>1, Lengths DEF Connections, Threads
<1>7. \A n \in Connections : open'[n] = open[n]
  BY <1>1, <1>2, <1>4, Lengths, AppendProperties DEF Connections
<1>8. open'[new] = o
  BY <1>1, <1>2, <1>4, Lengths, AppendProperties
<1>9. /\ \A n \in Connections : thread'[n] = thread[n]
      /\ thread'[new] = t
  BY <1>1, <1>3, <1>4, Lengths, AppendProperties DEF Connections
<1>10. /\ \A n \in Connections : data'[n] = data[n]
       /\ data'[new] = <<>>
  <2>1. <<>> \in Seq(Piece)
    OBVIOUS
  <2> QED BY <1>1, <1>4, <2>1, Lengths, AppendProperties DEF Connections
<1>11. \A n \in Connections : broken'[n] = broken[n]
  <2>1. \A b \in BOOLEAN : \A n \in 1..Len(broken) : Append(broken, b)[n] = broken[n]
    BY ONLY <1>4, AppendProperties
  <2> QED BY <1>1, <2>1, Lengths DEF Connections
<1> HIDE DEF new
<1>12. /\ new \notin Connections /\ Connections' = Connections \cup {new} /\ new \in Threads
       /\ \A n \in Connections :
            /\ broken'[n] = broken[n] /\ data'[n] = data[n]
            /\ open'[n] = open[n] /\ thread'[n] = thread[n]
       /\ data'[new] = <<>>
       /\ thread'[new]["near"] = "running" /\ thread'[new]["far"] = "none"
       /\ \A e \in End : open'[new][e] = TRUE
  BY <1>2, <1>3, <1>6, <1>7, <1>8, <1>9, <1>10, <1>11
<1> QED
  BY <1>12 DEF new

(* Calm that is there after a step was there before it.                    *)
LEMMA CalmSame ==
  UNCHANGED <<peer, broken, thread>> => (Calm' <=> Calm) /\ (Undisturbed' <=> Undisturbed)
BY DEF Calm, Undisturbed, Alone, Connections

LEMMA CalmConnect ==
  ASSUME TypeOK, NEW p \in Peers, Connect(p)
  PROVE  (Calm' => Calm) /\ (Undisturbed' => Undisturbed)
<1>1. /\ Connections \subseteq Connections'
      /\ \A n \in Connections : broken'[n] = broken[n] /\ thread'[n] = thread[n]
  BY ConnectAdds
<1>2. Undisturbed' => Undisturbed
  BY <1>1 DEF Undisturbed
<1>3. Alone' => Alone
  BY <1>1 DEF Alone
<1> QED
  BY <1>2, <1>3 DEF Calm

LEMMA CalmAccept ==
  ASSUME TypeOK, NEW n \in Connections, Accept(n)
  PROVE  (Calm' => Calm) /\ (Undisturbed' => Undisturbed)
<1>1. Connections' = Connections /\ broken' = broken
  BY DEF Accept, wires, Connections
<1>2. \A k \in Connections : \A f \in End :
        thread'[k][f] = IF k = n /\ f = "far" THEN "running" ELSE thread[k][f]
  BY AcceptSets, SetsAfter
<1>3. thread[n]["far"] = "none"
  BY DEF Accept
<1>4. Undisturbed' => Undisturbed
  BY <1>1, <1>2, <1>3 DEF Undisturbed
<1>5. Alone' => Alone
  BY <1>1, <1>2, <1>3 DEF Alone, End
<1> QED
  BY <1>4, <1>5 DEF Calm

(* The socket the listening loop has is of the latest client accepted.     *)
SlotInv == \A k \in 1..slot : thread[k]["far"] # "none"

(* A send that waits has a socket its thread refers to.                    *)
TargetInv ==
  \A n \in Connections :
    /\ unsent[n] # <<>> => target[n] # NoSocket
    /\ target[n] \in Referred(n, sending)

(* The hands of threads that are not there are empty.                      *)
FreshInv ==
  \A n \in Threads \ Connections :
    unsent[n] = <<>> /\ held[n] = <<>> /\ target[n] = NoSocket

(* Sockets are closed by threads that leave.                               *)
OpenInv == Undisturbed => \A n \in Connections : \A e \in End : open[n][e]

Shape == SlotInv /\ TargetInv /\ FreshInv /\ OpenInv

LEMMA ShapeInit == Init => Shape
<1> SUFFICES ASSUME Init PROVE Shape
  OBVIOUS
<1>1. Connections = {} /\ 1..slot = {}
  BY EmptySeq DEF Init, Connections, NoSocket
<1> QED
  BY <1>1 DEF Init, Shape, SlotInv, TargetInv, FreshInv, OpenInv

LEMMA ShapeConnect ==
  ASSUME TypeOK, Shape, NEW p \in Peers, Connect(p)
  PROVE  Shape'
<1>1. PICK new \in Threads :
        /\ new \notin Connections /\ Connections' = Connections \cup {new}
        /\ \A n \in Connections : open'[n] = open[n] /\ thread'[n] = thread[n]
        /\ \A e \in End : open'[new][e] = TRUE
  BY ConnectAdds
<1>2. UNCHANGED <<sending, unsent, target, held, slot>>
  BY DEF Connect, hands
<1>3. SlotInv'
  <2>1. 1..slot \subseteq Connections
    BY Lengths DEF TypeOK, Connections
  <2> QED BY <1>1, <1>2, <2>1 DEF Shape, SlotInv
<1>4. TargetInv'
  BY <1>1, <1>2 DEF Shape, TargetInv, FreshInv, Referred
<1>5. FreshInv'
  BY <1>1, <1>2 DEF Shape, FreshInv
<1>6. OpenInv'
  BY <1>1, CalmConnect DEF Shape, OpenInv
<1> QED
  BY <1>3, <1>4, <1>5, <1>6 DEF Shape

LEMMA ShapeAccept ==
  ASSUME TypeOK, Shape, NEW n \in Connections, Accept(n)
  PROVE  Shape'
<1>1. /\ slot' = n /\ thread[n]["far"] = "none"
      /\ \A k \in 1..n - 1 : thread[k]["far"] # "none"
  BY DEF Accept
<1>2. UNCHANGED <<sending, peer, open, broken, unsent, target, held>>
  BY DEF Accept, hands, wires, sides
<1>3. \A k \in Connections : \A f \in End :
        thread'[k][f] = IF k = n /\ f = "far" THEN "running" ELSE thread[k][f]
  BY AcceptSets, SetsAfter
<1>4. /\ n \in Nat /\ slot \in Nat /\ n \in 1..Len(peer) /\ 1..n \subseteq Connections
      /\ Connections \subseteq Nat /\ "far" \in End
  BY Lengths DEF TypeOK, Connections, End
<1>5. SlotInv'
  <2> SUFFICES ASSUME NEW k \in 1..n PROVE thread'[k]["far"] # "none"
    BY <1>1 DEF SlotInv
  <2>1. k = n \/ k \in 1..n - 1
    BY <1>4
  <2> QED BY <1>1, <1>3, <1>4, <2>1
<1>6. slot < n
  BY <1>1, <1>4 DEF Shape, SlotInv
<1>7. Connections' = Connections
  BY <1>2 DEF Connections
<1>8. TargetInv'
  <2>1. \A k \in Connections : k..slot \subseteq k..n
    BY <1>4, <1>6
  <2>2. \A k \in Connections : Referred(k, sending) \subseteq Referred(k, sending)'
    BY <1>1, <1>2, <2>1 DEF Referred
  <2> QED BY <1>2, <1>7, <2>2 DEF Shape, TargetInv
<1>9. FreshInv'
  BY <1>2, <1>7 DEF Shape, FreshInv
<1>10. OpenInv'
  BY <1>2, <1>7, CalmAccept DEF Shape, OpenInv
<1> QED
  BY <1>5, <1>8, <1>9, <1>10 DEF Shape

(* Steps of threads: they start none and accept none.                      *)
LEMMA ShapeThread ==
  ASSUME TypeOK, Shape, UNCHANGED <<peer, slot>>,
         thread' = thread \/ \E n \in Connections : \E e : \E v :
                                v # "none" /\ SetsThread(n, e, v)
  PROVE  SlotInv'
<1>1. 1..slot \subseteq Connections
  BY Lengths DEF TypeOK, Connections
<1>2. CASE thread' = thread
  BY <1>2 DEF Shape, SlotInv
<1>3. ASSUME NEW n \in Connections, NEW e, NEW v, v # "none", SetsThread(n, e, v)
      PROVE  SlotInv'
  <2>1. \A k \in Connections : \A f \in End :
          thread'[k][f] = IF k = n /\ f = e THEN v ELSE thread[k][f]
    BY <1>3, SetsAfter
  <2>2. "far" \in End
    BY DEF End
  <2> QED BY <1>1, <1>3, <2>1, <2>2 DEF Shape, SlotInv
<1> QED
  BY <1>2, <1>3

LEMMA ShapePut ==
  ASSUME TypeOK, Shape, NEW n \in Connections, NEW r \in Connections, NEW bytes \in Seq(Piece),
         r \in Referred(n, sending), Put(n, r, bytes),
         UNCHANGED <<sending, peer, slot, held>>
  PROVE  TargetInv' /\ FreshInv'
<1>1. PICK k \in 0..Len(bytes) :
        /\ Len(data[r]) + k <= Room
        /\ data' = [data EXCEPT ![r] = data[r] \o SubSeq(bytes, 1, k)]
        /\ unsent' = [unsent EXCEPT ![n] = SubSeq(bytes, k + 1, Len(bytes))]
        /\ target' = [target EXCEPT ![n] = IF k = Len(bytes) THEN NoSocket ELSE r]
  BY PutSplits
<1>2. n \in Threads /\ Len(bytes) \in Nat /\ Connections' = Connections
  BY HandsAt, LenProperties DEF Connections
<1>3. unsent \in [Threads -> Seq(Piece)] /\ target \in [Threads -> 0..Len(peer)]
  BY DEF TypeOK
<1>4. \A m \in Threads \ {n} : unsent'[m] = unsent[m] /\ target'[m] = target[m]
  BY <1>1, <1>3
<1>5. FreshInv'
  BY <1>2, <1>4 DEF Shape, FreshInv
<1>6. /\ unsent'[n] # <<>> => target'[n] # NoSocket
      /\ target'[n] \in Referred(n, sending)
  <2>1. CASE k = Len(bytes)
    <3>1. SubSeq(bytes, k + 1, Len(bytes)) = <<>>
      BY <1>2, <2>1, SubSeqEmpty
    <3> QED BY <1>1, <1>2, <1>3, <2>1, <3>1 DEF Referred
  <2>2. CASE k # Len(bytes)
    <3>1. target'[n] = r
      BY <1>1, <1>2, <1>3, <2>2
    <3>2. r # NoSocket
      BY Lengths DEF Connections, NoSocket
    <3> QED BY <3>1, <3>2
  <2> QED BY <2>1, <2>2
<1>7. TargetInv'
  <2> SUFFICES ASSUME NEW m \in Connections
               PROVE  /\ unsent'[m] # <<>> => target'[m] # NoSocket
                      /\ target'[m] \in Referred(m, sending)
    BY <1>2 DEF TargetInv, Referred
  <2>1. CASE m = n
    BY <1>6, <2>1
  <2>2. CASE m # n
    <3>1. m \in Threads
      BY HandsAt
    <3> QED BY <1>4, <2>2, <3>1 DEF Shape, TargetInv
  <2> QED BY <2>1, <2>2
<1> QED
  BY <1>5, <1>7

(* The chunk that a sending thread takes, as the send is given it.         *)
NextBytes == IF taken < MaxChunks THEN Halves(taken + 1) ELSE <<>>

LEMMA NextBytesTyped == TypeOK => NextBytes \in Seq(Piece)
<1> SUFFICES ASSUME TypeOK PROVE NextBytes \in Seq(Piece)
  OBVIOUS
<1>1. taken \in 0..MaxChunks /\ MaxChunks \in Nat
  BY BoundsAssumption DEF TypeOK
<1>2. CASE taken < MaxChunks
  <2>1. <<taken + 1, 1>> \in Piece /\ <<taken + 1, 2>> \in Piece
    BY <1>1, <1>2 DEF Piece, Chunk
  <2>2. Halves(taken + 1) \in Seq(Piece)
    BY <2>1 DEF Halves
  <2> QED
    BY <1>2, <2>2 DEF NextBytes
<1>3. CASE ~(taken < MaxChunks)
  BY <1>3 DEF NextBytes
<1> QED
  BY <1>2, <1>3

LEMMA SendCases ==
  ASSUME TypeOK, NEW n \in Connections, SendChunk(n)
  PROVE  \/ \E r \in Connections :
              /\ r \in Referred(n, sending) /\ Usable(r, sending)
              /\ Put(n, r, NextBytes) /\ UNCHANGED <<thread, broken>>
         \/ ~Undisturbed' /\ UNCHANGED <<data, unsent, target>>
<1>1. sending \in End /\ UNCHANGED peer
  BY DEF TypeOK, SendChunk
<1>2. PICK r \in Referred(n, sending) :
        \/ /\ Usable(r, sending) /\ Put(n, r, NextBytes)
           /\ UNCHANGED <<thread, broken>>
        \/ /\ Usable(r, sending)
           /\ broken' = [broken EXCEPT ![r] = TRUE]
           /\ UNCHANGED <<thread, data, unsent, target>>
        \/ /\ Leave(n, sending)
           /\ UNCHANGED <<broken, data, unsent, target>>
  BY DEF SendChunk, NextBytes
<1>3. Usable(r, sending) => r \in Connections
  BY <1>1, ReferredUsable DEF Usable
<1>4. CASE Usable(r, sending) /\ Put(n, r, NextBytes) /\ UNCHANGED <<thread, broken>>
  BY <1>2, <1>3, <1>4
<1>5. CASE /\ Usable(r, sending)
           /\ broken' = [broken EXCEPT ![r] = TRUE]
           /\ UNCHANGED <<thread, data, unsent, target>>
  BY <1>1, <1>3, <1>5, BreakDisturbs
<1>6. CASE Leave(n, sending) /\ UNCHANGED <<broken, data, unsent, target>>
  BY <1>1, <1>6, LeaveSets, ThreadDisturbs
<1> QED
  BY <1>2, <1>4, <1>5, <1>6

LEMMA RestCases ==
  ASSUME TypeOK, NEW n \in Connections, SendRest(n)
  PROVE  LET r == target[n]
         IN  \/ /\ r \in Connections /\ Usable(r, sending)
                /\ Put(n, r, unsent[n]) /\ UNCHANGED thread
             \/ /\ ~(Usable(r, sending) /\ open[r][Other(sending)])
                /\ unsent' = [unsent EXCEPT ![n] = <<>>]
                /\ target' = [target EXCEPT ![n] = NoSocket]
                /\ thread' = thread \/ Leave(n, sending)
                /\ UNCHANGED data
<1> DEFINE r == target[n]
<1>1. r \in 0..Len(peer)
  BY HandsAt
<1>2. Usable(r, sending) => r \in Connections
  BY <1>1, Lengths DEF Usable, NoSocket, Connections
<1>3. \/ Usable(r, sending) /\ Put(n, r, unsent[n]) /\ UNCHANGED thread
      \/ /\ ~(Usable(r, sending) /\ open[r][Other(sending)])
         /\ unsent' = [unsent EXCEPT ![n] = <<>>]
         /\ target' = [target EXCEPT ![n] = NoSocket]
         /\ thread' = thread \/ Leave(n, sending)
         /\ UNCHANGED data
  BY DEF SendRest
<1> QED
  BY <1>2, <1>3

LEMMA ShapeOpen ==
  ASSUME Shape, UNCHANGED <<peer, open>>, Undisturbed' => Undisturbed
  PROVE  OpenInv'
BY DEF Shape, OpenInv, Connections

LEMMA ShapeSend ==
  ASSUME TypeOK, Shape, NEW n \in Connections, SendChunk(n)
  PROVE  Shape'
<1>1. UNCHANGED <<sending, peer, open, held, slot>> /\ Connections' = Connections
  BY DEF SendChunk, sides, Connections
<1>2. CASE \E r \in Connections :
              /\ r \in Referred(n, sending)
              /\ Put(n, r, NextBytes) /\ UNCHANGED <<thread, broken>>
  <2>1. TargetInv' /\ FreshInv'
    BY <1>1, <1>2, NextBytesTyped, ShapePut
  <2>2. SlotInv'
    BY <1>1, <1>2 DEF Shape, SlotInv
  <2>3. OpenInv'
    BY <1>1, <1>2, CalmSame, ShapeOpen
  <2> QED BY <2>1, <2>2, <2>3 DEF Shape
<1>3. CASE ~Undisturbed' /\ UNCHANGED <<data, unsent, target>>
  <2>1. TargetInv' /\ FreshInv'
    BY <1>1, <1>3 DEF Shape, TargetInv, FreshInv, Referred
  <2>2. thread' = thread \/ SetsThread(n, sending, "leaving")
    <3>1. thread' = thread \/ Leave(n, sending)
      BY DEF SendChunk
    <3> QED BY <3>1, LeaveSets DEF TypeOK
  <2>3. SlotInv'
    BY <1>1, <2>2, ShapeThread
  <2>4. OpenInv'
    BY <1>3 DEF OpenInv
  <2> QED BY <2>1, <2>3, <2>4 DEF Shape
<1> QED
  BY <1>2, <1>3, SendCases

LEMMA ShapeRest ==
  ASSUME TypeOK, Shape, NEW n \in Connections, SendRest(n)
  PROVE  Shape'
<1>1. UNCHANGED <<sending, peer, open, broken, held, slot>> /\ Connections' = Connections
  BY DEF SendRest, sides, Connections
<1>2. CASE target[n] \in Connections /\ Put(n, target[n], unsent[n]) /\ UNCHANGED thread
  <2>1. target[n] \in Referred(n, sending) /\ unsent[n] \in Seq(Piece)
    BY HandsAt DEF Shape, TargetInv
  <2>2. TargetInv' /\ FreshInv'
    BY <1>1, <1>2, <2>1, ShapePut
  <2>3. SlotInv'
    BY <1>1, <1>2 DEF Shape, SlotInv
  <2>4. OpenInv'
    BY <1>1, <1>2, CalmSame, ShapeOpen
  <2> QED BY <2>2, <2>3, <2>4 DEF Shape
<1>3. CASE /\ unsent' = [unsent EXCEPT ![n] = <<>>]
           /\ target' = [target EXCEPT ![n] = NoSocket]
           /\ thread' = thread \/ Leave(n, sending)
  <2>1. n \in Threads /\ unsent \in [Threads -> Seq(Piece)] /\ target \in [Threads -> 0..Len(peer)]
    BY HandsAt DEF TypeOK
  <2>2. \A m \in Threads : /\ unsent'[m] = IF m = n THEN <<>> ELSE unsent[m]
                           /\ target'[m] = IF m = n THEN NoSocket ELSE target[m]
    BY <1>3, <2>1
  <2>3. Connections \subseteq Threads
    BY HandsAt
  <2>4. TargetInv' /\ FreshInv'
    BY <1>1, <2>2, <2>3 DEF Shape, TargetInv, FreshInv, Referred
  <2>5. thread' = thread \/ SetsThread(n, sending, "leaving")
    BY <1>3, LeaveSets DEF TypeOK
  <2>6. SlotInv'
    BY <1>1, <2>5, ShapeThread
  <2>7. OpenInv'
    <3>1. CASE thread' = thread
      BY <1>1, <3>1, CalmSame, ShapeOpen
    <3>2. CASE SetsThread(n, sending, "leaving")
      <4>1. ~Undisturbed'
        BY <1>1, <3>2, ThreadDisturbs
      <4> QED BY <4>1 DEF OpenInv
    <3> QED BY <2>5, <3>1, <3>2
  <2> QED BY <2>4, <2>6, <2>7 DEF Shape
<1> QED
  BY <1>2, <1>3, RestCases

LEMMA ReceiveCases ==
  ASSUME TypeOK, NEW n \in Connections, ReceiveChunk(n)
  PROVE  \/ /\ UNCHANGED thread
            /\ \E r \in Connections :
                 /\ r \in Referred(n, Other(sending)) /\ Usable(r, Other(sending))
                 /\ thread[n][Other(sending)] = "running"
                 /\ \E k \in 1..Len(data[r]) :
                      /\ data' = [data EXCEPT ![r] = SubSeq(data[r], k + 1, Len(data[r]))]
                      /\ CutFrom(n, held[n] \o SubSeq(data[r], 1, k))
         \/ /\ ~Undisturbed' /\ SetsThread(n, Other(sending), "leaving")
            /\ held' = [held EXCEPT ![n] = <<>>]
            /\ UNCHANGED <<data, received>>
<1> DEFINE e == Other(sending)
<1>1. e \in End /\ UNCHANGED peer
  BY DEF TypeOK, Other, End, ReceiveChunk
<1>2. PICK r \in Referred(n, e) :
        \/ /\ Usable(r, e) /\ thread[n][e] = "running"
           /\ \E k \in 1..Len(data[r]) :
                /\ data' = [data EXCEPT ![r] = SubSeq(data[r], k + 1, Len(data[r]))]
                /\ CutFrom(n, held[n] \o SubSeq(data[r], 1, k))
           /\ UNCHANGED thread
        \/ /\ held' = [held EXCEPT ![n] = <<>>]
           /\ Leave(n, e)
           /\ UNCHANGED <<data, received>>
  BY DEF ReceiveChunk
<1> HIDE DEF e
<1>3. Usable(r, e) => r \in Connections
  BY <1>1, ReferredUsable DEF Usable
<1>4. CASE /\ Usable(r, e) /\ thread[n][e] = "running"
           /\ \E k \in 1..Len(data[r]) :
                /\ data' = [data EXCEPT ![r] = SubSeq(data[r], k + 1, Len(data[r]))]
                /\ CutFrom(n, held[n] \o SubSeq(data[r], 1, k))
           /\ UNCHANGED thread
  BY <1>2, <1>3, <1>4 DEF e
<1>5. CASE held' = [held EXCEPT ![n] = <<>>] /\ Leave(n, e) /\ UNCHANGED <<data, received>>
  <2>1. SetsThread(n, e, "leaving")
    BY <1>1, <1>5, LeaveSets
  <2>2. ~Undisturbed'
    BY <1>1, <2>1, ThreadDisturbs
  <2> QED BY <1>5, <2>1, <2>2 DEF e
<1> QED
  BY <1>2, <1>4, <1>5

LEMMA ShapeReceive ==
  ASSUME TypeOK, Shape, NEW n \in Connections, ReceiveChunk(n)
  PROVE  Shape'
<1>1. /\ UNCHANGED <<sending, peer, open, broken, unsent, target, slot>>
      /\ Connections' = Connections
  BY DEF ReceiveChunk, sides, Connections
<1>2. TargetInv'
  BY <1>1 DEF Shape, TargetInv, Referred
<1>3. \E rest : held' = [held EXCEPT ![n] = rest]
  BY DEF ReceiveChunk, CutFrom
<1>4. FreshInv'
  <2>1. \A m \in Threads \ Connections : held'[m] = held[m]
    <3>1. held \in [Threads -> Seq(Piece)]
      BY DEF TypeOK
    <3> QED BY <1>3, <3>1
  <2> QED BY <1>1, <2>1 DEF Shape, FreshInv
<1>5. thread' = thread \/ (~Undisturbed' /\ SetsThread(n, Other(sending), "leaving"))
  BY ReceiveCases
<1>6. SlotInv'
  BY <1>1, <1>5, ShapeThread
<1>7. OpenInv'
  <2>1. CASE thread' = thread
    BY <1>1, <2>1, CalmSame, ShapeOpen
  <2>2. CASE ~Undisturbed'
    BY <2>2 DEF OpenInv
  <2> QED BY <1>5, <2>1, <2>2
<1> QED
  BY <1>2, <1>4, <1>6, <1>7 DEF Shape

(* The end of a thread and a reset move nothing and disturb.               *)
Ends(n) == ClearFlag(n) \/ Break(n) \/ \E e \in End : CloseSocket(n, e)

LEMMA EndsDisturb ==
  ASSUME TypeOK, NEW n \in Connections, Ends(n)
  PROVE  /\ ~Undisturbed' /\ UNCHANGED <<sending, peer, data, hands, slot, taken, received>>
         /\ thread' = thread \/ \E e : \E v : v # "none" /\ SetsThread(n, e, v)
<1>1. UNCHANGED <<sending, peer, data, hands, slot, taken, received>>
  BY DEF Ends, ClearFlag, Break, CloseSocket, sides, wires
<1>2. CASE Break(n)
  BY <1>1, <1>2, BreakDisturbs DEF Break
<1>3. CASE ClearFlag(n)
  BY <1>1, <1>3, ClearSets, ThreadDisturbs
<1>4. ASSUME NEW e \in End, CloseSocket(n, e)
      PROVE  ~Undisturbed' /\ \E v : v # "none" /\ SetsThread(n, e, v)
  <2>1. PICK v : v = (IF e = "near" THEN "closed" ELSE "ended") /\ SetsThread(n, e, v)
    BY <1>4, CloseSets
  <2>2. v \notin {"none", "running"}
    BY <2>1
  <2> QED BY <1>1, <2>1, <2>2, ThreadDisturbs
<1> QED
  BY <1>1, <1>2, <1>3, <1>4 DEF Ends

LEMMA ShapeEnds ==
  ASSUME TypeOK, Shape, NEW n \in Connections, Ends(n)
  PROVE  Shape'
<1>1. /\ ~Undisturbed' /\ UNCHANGED <<sending, peer, hands, slot>>
      /\ thread' = thread \/ \E e : \E v : v # "none" /\ SetsThread(n, e, v)
  BY EndsDisturb
<1>2. SlotInv'
  BY <1>1, ShapeThread
<1>3. TargetInv' /\ FreshInv' /\ OpenInv'
  BY <1>1 DEF Shape, TargetInv, FreshInv, OpenInv, Referred, Connections, hands
<1> QED
  BY <1>2, <1>3 DEF Shape

LEMMA ShapeStep ==
  ASSUME TypeOK, Shape, [Next]_vars
  PROVE  Shape'
<1>1. CASE UNCHANGED vars \/ Bind
  <2>1. UNCHANGED <<sending, wires, thread, hands, slot>>
    BY <1>1 DEF vars, Bind, sides
  <2>2. Undisturbed' <=> Undisturbed
    BY <2>1, CalmSame DEF wires
  <2> QED
    BY <2>1, <2>2 DEF wires, hands, Shape, SlotInv, TargetInv, FreshInv, OpenInv, Referred, Connections
<1>2. ASSUME NEW p \in Peers, Connect(p) PROVE Shape'
  BY <1>2, ShapeConnect
<1>3. ASSUME NEW n \in Connections, Accept(n) PROVE Shape'
  BY <1>3, ShapeAccept
<1>4. ASSUME NEW n \in Connections, SendChunk(n) \/ SendRest(n) \/ ReceiveChunk(n) PROVE Shape'
  BY <1>4, ShapeSend, ShapeRest, ShapeReceive
<1>5. ASSUME NEW n \in Connections, Ends(n) PROVE Shape'
  BY <1>5, ShapeEnds
<1> QED
  BY <1>1, <1>2, <1>3, <1>4, <1>5 DEF Next, Ends

-----------------------------------------------------------------------------
(* The steps that move pieces, as moves.                                   *)

LEMMA StoreTyped == TypeOK => Store \in Lines
<1> SUFFICES ASSUME TypeOK, NEW x \in Keys
             PROVE  /\ x[2] \in Connections =>
                         /\ unsent[x[2]] \in Seq(Piece) /\ data[x[2]] \in Seq(Piece)
                         /\ held[x[2]] \in Seq(Piece)
                    /\ <<>> \in Seq(Piece)
  BY DEF Store, Lines
<1>1. <<>> \in Seq(Piece)
  OBVIOUS
<1> QED
  BY <1>1, HandsAt, DataAt

LEMMA StoreTypedNext == TypeOK' => Store' \in Lines
<1>1. TypeOK' => (Store \in Lines)'
  BY StoreTyped, PTL
<1> QED
  BY <1>1

LEMMA KeyTyped ==
  ASSUME TypeOK, NEW n \in Connections
  PROVE  <<"unsent", n>> \in Keys /\ <<"data", n>> \in Keys /\ <<"held", n>> \in Keys
BY HandsAt DEF Keys, Where

LEMMA StoreValues ==
  ASSUME TypeOK, NEW n \in Connections
  PROVE  /\ Store[<<"unsent", n>>] = unsent[n] /\ Store[<<"data", n>>] = data[n]
         /\ Store[<<"held", n>>] = held[n]
<1>1. <<"unsent", n>> \in Keys /\ <<"data", n>> \in Keys /\ <<"held", n>> \in Keys
  BY KeyTyped
<1> QED
  BY <1>1 DEF Store

LEMMA StoreAfter ==
  ASSUME TypeOK, NEW n \in Connections, UNCHANGED peer
  PROVE  /\ Store'[<<"unsent", n>>] = unsent'[n] /\ Store'[<<"data", n>>] = data'[n]
         /\ Store'[<<"held", n>>] = held'[n]
<1>1. <<"unsent", n>> \in Keys /\ <<"data", n>> \in Keys /\ <<"held", n>> \in Keys
  BY KeyTyped
<1>2. n \in Connections'
  BY DEF Connections
<1> QED
  BY <1>1, <1>2 DEF Store

(* What is not touched keeps what it holds.                                *)
LEMMA StoreSame ==
  ASSUME TypeOK, UNCHANGED peer, NEW x \in Keys,
         x[2] \in Connections =>
           \/ x[1] = "unsent" /\ unsent'[x[2]] = unsent[x[2]]
           \/ x[1] = "data" /\ data'[x[2]] = data[x[2]]
           \/ x[1] = "held" /\ held'[x[2]] = held[x[2]]
  PROVE  Store'[x] = Store[x]
<1>1. Connections' = Connections
  BY DEF Connections
<1>2. CASE x[2] \notin Connections
  BY <1>1, <1>2 DEF Store
<1>3. CASE x[2] \in Connections
  BY <1>1, <1>3 DEF Store
<1> QED
  BY <1>2, <1>3

LEMMA KeyParts ==
  ASSUME NEW x \in Keys
  PROVE  x[1] \in Where /\ x = <<x[1], x[2]>>
BY DEF Keys

LEMMA PutMoves ==
  ASSUME TypeOK, NEW n \in Connections, NEW r \in Connections, NEW bytes \in Seq(Piece),
         Put(n, r, bytes), UNCHANGED <<peer, held>>
  PROVE  \E L \in Lines : \E k \in 0..Len(bytes) :
           /\ L[<<"unsent", n>>] = bytes /\ Moved(L, Store', <<"data", r>>, <<"unsent", n>>, k)
           /\ \A x \in Keys : x # <<"unsent", n>> => L[x] = Store[x]
<1>1. PICK k \in 0..Len(bytes) :
        /\ Len(data[r]) + k <= Room
        /\ data' = [data EXCEPT ![r] = data[r] \o SubSeq(bytes, 1, k)]
        /\ unsent' = [unsent EXCEPT ![n] = SubSeq(bytes, k + 1, Len(bytes))]
        /\ target' = [target EXCEPT ![n] = IF k = Len(bytes) THEN NoSocket ELSE r]
  BY PutSplits
<1> DEFINE a == <<"data", r>>
           b == <<"unsent", n>>
           L == [x \in Keys |-> IF x = b THEN bytes ELSE Store[x]]
           part == SubSeq(bytes, 1, k)
           all == data[r] \o part
           rest == SubSeq(bytes, k + 1, Len(bytes))
<1>2. a \in Keys /\ b \in Keys /\ a # b
  BY KeyTyped
<1>3. L \in Lines /\ L[b] = bytes /\ \A x \in Keys : x # b => L[x] = Store[x]
  BY <1>2, StoreTyped DEF Lines
<1>4. Len(bytes) \in Nat /\ data[r] \in Seq(Piece) /\ Len(data[r]) \in Nat
  BY DataAt, LenProperties
<1>5. /\ part \in Seq(Piece) /\ Len(part) = k /\ \A i \in 1..k : part[i] = bytes[i]
  <2>1. /\ part \in Seq(Piece) /\ Len(part) = IF 1 <= k THEN k - 1 + 1 ELSE 0
        /\ \A i \in 1..k - 1 + 1 : part[i] = bytes[1 + i - 1]
    BY <1>4, SubSeqProperties
  <2> HIDE DEF part
  <2>2. Len(part) = k
    BY <1>4, <2>1
  <2>3. ASSUME NEW i \in 1..k PROVE part[i] = bytes[i]
    <3>1. i \in 1..k - 1 + 1 /\ 1 + i - 1 = i
      BY <1>4
    <3> QED BY <2>1, <3>1
  <2> QED BY <2>1, <2>2, <2>3
<1> HIDE DEF part
<1>6. /\ all \in Seq(Piece) /\ Len(all) = Len(data[r]) + Len(part)
      /\ \A i \in 1..Len(data[r]) + Len(part) :
           all[i] = IF i <= Len(data[r]) THEN data[r][i] ELSE part[i - Len(data[r])]
  BY <1>4, <1>5, ConcatProperties
<1> HIDE DEF all
<1>7. rest \in Seq(Piece) /\ Whole(bytes, k, rest)
  BY DropWhole
<1> HIDE DEF rest
<1>8. data' = [data EXCEPT ![r] = all] /\ unsent' = [unsent EXCEPT ![n] = rest]
  BY <1>1 DEF all, part, rest
<1>9. \A j \in Connections : data'[j] = IF j = r THEN all ELSE data[j]
  BY <1>6, <1>8, DataExcept
<1>10. \A j \in Connections : unsent'[j] = IF j = n THEN rest ELSE unsent[j]
  BY <1>8, HandsAt DEF TypeOK
<1>11. Store'[a] = all /\ Store'[b] = rest
  BY <1>9, <1>10, StoreAfter
<1>12. L[a] = data[r]
  BY <1>2, <1>3, StoreValues
<1>13. \A x \in Keys \ {a, b} : Store'[x] = L[x]
  <2> SUFFICES ASSUME NEW x \in Keys \ {a, b} PROVE Store'[x] = Store[x]
    BY <1>3
  <2>1. x[1] \in Where /\ x = <<x[1], x[2]>>
    BY KeyParts
  <2>2. CASE x[1] = "unsent"
    BY <1>10, <2>1, <2>2, StoreSame
  <2>3. CASE x[1] = "data"
    BY <1>9, <2>1, <2>3, StoreSame
  <2>4. CASE x[1] = "held"
    BY <2>1, <2>4, StoreSame
  <2> QED BY <2>1, <2>2, <2>3, <2>4 DEF Where
<1> HIDE DEF L, a, b
<1>14. Moved(L, Store', a, b, k)
  <2>1. ASSUME NEW i \in 1..Len(data[r]) PROVE all[i] = data[r][i]
    BY <1>4, <1>5, <1>6
  <2>2. ASSUME NEW i \in 1..k PROVE all[Len(data[r]) + i] = bytes[i]
    <3>1. /\ Len(data[r]) + i \in 1..Len(data[r]) + Len(part)
          /\ ~(Len(data[r]) + i <= Len(data[r])) /\ (Len(data[r]) + i) - Len(data[r]) = i
      BY <1>4, <1>5
    <3> QED BY <1>5, <1>6, <3>1
  <2>3. Len(all) = Len(data[r]) + k
    BY <1>5, <1>6
  <2> QED BY <1>3, <1>7, <1>11, <1>12, <1>13, <2>1, <2>2, <2>3 DEF Moved
<1> QED
  BY <1>3, <1>14 DEF a, b

(* What a cut does to the bytes L[a] of a thread.                          *)
CutMoves(L, M, a, d) ==
  \/ InStep(L[a]) /\ Len(L[a]) > 2 /\ d = 2 /\ Released(L, M, a, d) /\ Passed(L[a])
  \/ InStep(L[a]) /\ d = 0 /\ Released(L, M, a, d) /\ UNCHANGED received
  \/ ~InStep(L[a]) /\ Dropped(L, M, a, d) /\ UNCHANGED received

LEMMA ReadMoves ==
  ASSUME TypeOK, NEW n \in Connections, NEW r \in Connections, NEW k \in 1..Len(data[r]),
         data' = [data EXCEPT ![r] = SubSeq(data[r], k + 1, Len(data[r]))],
         CutFrom(n, held[n] \o SubSeq(data[r], 1, k)), UNCHANGED <<peer, unsent>>
  PROVE  \E L \in Lines : \E d \in 0..Len(L[<<"held", n>>]) :
           /\ Moved(Store, L, <<"held", n>>, <<"data", r>>, k) /\ L[<<"held", n>>] # <<>>
           /\ CutMoves(L, Store', <<"held", n>>, d)
<1> DEFINE a == <<"held", n>>
           b == <<"data", r>>
           part == SubSeq(data[r], 1, k)
           bytes == held[n] \o part
           left == SubSeq(data[r], k + 1, Len(data[r]))
           L == [x \in Keys |-> IF x = a THEN bytes ELSE IF x = b THEN left ELSE Store[x]]
<1>1. a \in Keys /\ b \in Keys /\ a # b
  BY KeyTyped
<1>2. /\ data[r] \in Seq(Piece) /\ Len(data[r]) \in Nat /\ k \in 0..Len(data[r]) /\ k \in Nat /\ k >= 1
      /\ held[n] \in Seq(Piece) /\ Len(held[n]) \in Nat /\ n \in Threads
  BY DataAt, HandsAt
<1>3. /\ part \in Seq(Piece) /\ Len(part) = k /\ \A i \in 1..k : part[i] = data[r][i]
  <2>1. /\ part \in Seq(Piece) /\ Len(part) = IF 1 <= k THEN k - 1 + 1 ELSE 0
        /\ \A i \in 1..k - 1 + 1 : part[i] = data[r][1 + i - 1]
    BY <1>2, SubSeqProperties
  <2> HIDE DEF part
  <2>2. Len(part) = k
    BY <1>2, <2>1
  <2>3. ASSUME NEW i \in 1..k PROVE part[i] = data[r][i]
    <3>1. i \in 1..k - 1 + 1 /\ 1 + i - 1 = i
      BY <1>2
    <3> QED BY <2>1, <3>1
  <2> QED BY <2>1, <2>2, <2>3
<1>4. CutFrom(n, bytes) /\ data' = [data EXCEPT ![r] = left]
  OBVIOUS
<1>5. left \in Seq(Piece) /\ Whole(data[r], k, left)
  BY <1>2, DropWhole
<1> HIDE DEF part, left
<1>6. /\ bytes \in Seq(Piece) /\ Len(bytes) = Len(held[n]) + Len(part)
      /\ \A i \in 1..Len(held[n]) + Len(part) :
           bytes[i] = IF i <= Len(held[n]) THEN held[n][i] ELSE part[i - Len(held[n])]
  BY <1>2, <1>3, ConcatProperties
<1> HIDE DEF bytes
<1>7. L \in Lines
  BY <1>5, <1>6, StoreTyped DEF Lines
<1>8. L[a] = bytes /\ L[b] = left /\ \A x \in Keys \ {a, b} : L[x] = Store[x]
  BY <1>1
<1>9. bytes # <<>>
  BY <1>2, <1>3, <1>6, EmptySeq
<1>10. Store[a] = held[n] /\ Store[b] = data[r]
  BY StoreValues
<1> HIDE DEF L
<1>11. Moved(Store, L, a, b, k)
  <2>1. ASSUME NEW i \in 1..Len(held[n]) PROVE bytes[i] = held[n][i]
    BY <1>2, <1>3, <1>6
  <2>2. ASSUME NEW i \in 1..k PROVE bytes[Len(held[n]) + i] = data[r][i]
    <3>1. /\ Len(held[n]) + i \in 1..Len(held[n]) + Len(part)
          /\ ~(Len(held[n]) + i <= Len(held[n])) /\ (Len(held[n]) + i) - Len(held[n]) = i
      BY <1>2, <1>3
    <3> QED BY <1>3, <1>6, <3>1
  <2>3. Len(bytes) = Len(held[n]) + k
    BY <1>3, <1>6
  <2> HIDE DEF a, b
  <2> QED BY <1>5, <1>8, <1>10, <2>1, <2>2, <2>3 DEF Moved
<1>12. PICK d \in 0..Len(bytes), rest \in Seq(Piece) :
         /\ held' = [held EXCEPT ![n] = rest]
         /\ \/ /\ InStep(bytes) /\ Len(bytes) > 2 /\ d = 2
               /\ Whole(bytes, d, rest) /\ Passed(bytes)
            \/ InStep(bytes) /\ d = 0 /\ Whole(bytes, d, rest) /\ UNCHANGED received
            \/ ~InStep(bytes) /\ Suffix(bytes, d, rest) /\ UNCHANGED received
  BY <1>4, <1>6, <1>9, CutLeaves
<1>13. \A j \in Connections : data'[j] = IF j = r THEN left ELSE data[j]
  <2>1. data' = [data EXCEPT ![r] = left]
    BY <1>4
  <2>2. left \in Seq(Piece)
    BY <1>5
  <2> QED BY <2>1, <2>2, DataSet
<1>14. \A j \in Connections : held'[j] = IF j = n THEN rest ELSE held[j]
  BY <1>12, HandsAt DEF TypeOK
<1>15. Store'[a] = rest /\ Store'[b] = left
  BY <1>13, <1>14, StoreAfter
<1>16. \A x \in Keys \ {a} : Store'[x] = L[x]
  <2> SUFFICES ASSUME NEW x \in Keys \ {a, b} PROVE Store'[x] = Store[x]
    BY <1>8, <1>15
  <2>1. x[1] \in Where /\ x = <<x[1], x[2]>>
    BY KeyParts
  <2>2. CASE x[1] = "unsent"
    BY <2>1, <2>2, StoreSame
  <2>3. CASE x[1] = "data"
    BY <1>13, <2>1, <2>3, StoreSame
  <2>4. CASE x[1] = "held"
    BY <1>14, <2>1, <2>4, StoreSame
  <2> QED BY <2>1, <2>2, <2>3, <2>4 DEF Where
<1> HIDE DEF a, b
<1>17. CutMoves(L, Store', a, d)
  BY <1>8, <1>12, <1>15, <1>16 DEF CutMoves, Released, Dropped
<1> QED
  BY <1>7, <1>8, <1>9, <1>11, <1>12, <1>17 DEF a, b

(* Hands that are emptied.                                                 *)
LEMMA EmptiedMoves ==
  ASSUME TypeOK, NEW n \in Connections, UNCHANGED <<peer, data>>,
         \/ unsent' = [unsent EXCEPT ![n] = <<>>] /\ UNCHANGED held
         \/ held' = [held EXCEPT ![n] = <<>>] /\ UNCHANGED unsent
  PROVE  \E a \in Keys : \E d \in 0..Len(Store[a]) : Dropped(Store, Store', a, d)
<1>1. \A j \in Connections : j \in Threads
  BY HandsAt
<1>2. unsent \in [Threads -> Seq(Piece)] /\ held \in [Threads -> Seq(Piece)]
  BY DEF TypeOK
<1>3. Len(<<>>) = 0
  OBVIOUS
<1>4. ASSUME NEW a \in Keys, Store'[a] = <<>>, \A x \in Keys \ {a} : Store'[x] = Store[x]
      PROVE  \E d \in 0..Len(Store[a]) : Dropped(Store, Store', a, d)
  <2>1. Len(Store[a]) \in Nat
    BY StoreTyped, LineLen
  <2>2. Len(Store'[a]) = Len(Store[a]) - Len(Store[a]) /\ 1..Len(Store'[a]) = {}
    BY <1>3, <1>4, <2>1
  <2>3. Dropped(Store, Store', a, Len(Store[a]))
    BY <1>4, <2>2 DEF Dropped, Suffix
  <2>4. Len(Store[a]) \in 0..Len(Store[a])
    BY <2>1
  <2> QED BY <2>3, <2>4
<1>5. CASE unsent' = [unsent EXCEPT ![n] = <<>>] /\ UNCHANGED held
  <2> DEFINE a == <<"unsent", n>>
  <2>1. \A j \in Connections : unsent'[j] = IF j = n THEN <<>> ELSE unsent[j]
    BY <1>1, <1>2, <1>5
  <2>2. a \in Keys /\ Store'[a] = <<>>
    BY <2>1, KeyTyped, StoreAfter
  <2>3. ASSUME NEW x \in Keys \ {a} PROVE Store'[x] = Store[x]
    <3>1. x[1] \in Where /\ x = <<x[1], x[2]>>
      BY KeyParts
    <3>2. CASE x[1] = "unsent"
      BY <2>1, <3>1, <3>2, StoreSame
    <3>3. CASE x[1] \in {"data", "held"}
      BY <1>5, <3>1, <3>3, StoreSame
    <3> QED BY <3>1, <3>2, <3>3 DEF Where
  <2> HIDE DEF a
  <2> QED BY <1>4, <2>2, <2>3
<1>6. CASE held' = [held EXCEPT ![n] = <<>>] /\ UNCHANGED unsent
  <2> DEFINE a == <<"held", n>>
  <2>1. \A j \in Connections : held'[j] = IF j = n THEN <<>> ELSE held[j]
    BY <1>1, <1>2, <1>6
  <2>2. a \in Keys /\ Store'[a] = <<>>
    BY <2>1, KeyTyped, StoreAfter
  <2>3. ASSUME NEW x \in Keys \ {a} PROVE Store'[x] = Store[x]
    <3>1. x[1] \in Where /\ x = <<x[1], x[2]>>
      BY KeyParts
    <3>2. CASE x[1] = "held"
      BY <2>1, <3>1, <3>2, StoreSame
    <3>3. CASE x[1] \in {"data", "unsent"}
      BY <1>6, <3>1, <3>3, StoreSame
    <3> QED BY <3>1, <3>2, <3>3 DEF Where
  <2> HIDE DEF a
  <2> QED BY <1>4, <2>2, <2>3
<1> QED
  BY <1>5, <1>6

(* Steps that move nothing.                                                *)
LEMMA StoreStays ==
  ASSUME TypeOK, UNCHANGED <<peer, data, unsent, held>>
  PROVE  Store' = Store
BY DEF Store, Connections

LEMMA StoreConnect ==
  ASSUME TypeOK, Shape, NEW p \in Peers, Connect(p)
  PROVE  Store' = Store
<1>1. PICK new \in Threads :
        /\ new \notin Connections /\ Connections' = Connections \cup {new}
        /\ \A n \in Connections : data'[n] = data[n]
        /\ data'[new] = <<>>
  BY ConnectAdds
<1>2. UNCHANGED <<unsent, held>> /\ unsent[new] = <<>> /\ held[new] = <<>>
  BY <1>1 DEF Connect, hands, Shape, FreshInv
<1>3. ASSUME NEW x \in Keys PROVE Store'[x] = Store[x]
  <2>1. CASE x[2] = new
    BY <1>1, <1>2, <2>1 DEF Store
  <2>2. CASE x[2] \in Connections
    BY <1>1, <1>2, <2>2 DEF Store
  <2>3. CASE x[2] # new /\ x[2] \notin Connections
    BY <1>1, <2>3 DEF Store
  <2> QED BY <2>1, <2>2, <2>3
<1> QED
  BY <1>3 DEF Store

-----------------------------------------------------------------------------
(* Frames.  What a thread has read, its connection and the send that waits *)
(* hold one stream, in which every first half is followed by its second    *)
(* one, as long as nothing disturbed the threads and none share a socket.  *)

Framed(s) ==
  \A i \in 1..Len(s) :
    \/ s[i][2] = 1 /\ i < Len(s) /\ s[i + 1] = <<s[i][1], 2>>
    \/ s[i][2] = 2 /\ i > 1 /\ s[i - 1] = <<s[i][1], 1>>

Line(L, n) == L[<<"held", n>>] \o (L[<<"data", n>>] \o L[<<"unsent", n>>])

FramedInv == Calm => \A n \in Threads : Framed(Line(Store, n))

(* The first k of t were put at the end of s: u and v are what that gave.  *)
Joins(s, t, u, v, k) ==
  /\ Len(u) = Len(s) + k
  /\ \A i \in 1..Len(s) : u[i] = s[i]
  /\ \A i \in 1..k : u[Len(s) + i] = t[i]
  /\ Whole(t, k, v)

(* Pieces moved between neighbours leave the two as they are in one.       *)
LEMMA SameConcat ==
  ASSUME NEW s \in Seq(Piece), NEW t \in Seq(Piece), NEW u \in Seq(Piece), NEW v \in Seq(Piece),
         NEW k \in 0..Len(t), Joins(s, t, u, v, k)
  PROVE  u \o v = s \o t
<1>1. /\ Len(s) \in Nat /\ Len(t) \in Nat /\ k \in Nat /\ Len(v) = Len(t) - k
      /\ \A j \in 1..Len(v) : v[j] = t[j + k]
  BY LenProperties DEF Joins, Whole
<1>2. /\ Len(u) = Len(s) + k
      /\ \A i \in 1..Len(s) : u[i] = s[i]
      /\ \A i \in 1..k : u[Len(s) + i] = t[i]
  BY DEF Joins
<1> DEFINE x == s \o t
           y == u \o v
<1>3. /\ x \in Seq(Piece) /\ Len(x) = Len(s) + Len(t)
      /\ \A i \in 1..Len(s) + Len(t) : x[i] = IF i <= Len(s) THEN s[i] ELSE t[i - Len(s)]
  BY ConcatProperties
<1>4. /\ y \in Seq(Piece) /\ Len(y) = Len(u) + Len(v)
      /\ \A i \in 1..Len(u) + Len(v) : y[i] = IF i <= Len(u) THEN u[i] ELSE v[i - Len(u)]
  BY ConcatProperties
<1> HIDE DEF x, y
<1>5. Len(y) = Len(x) /\ Len(u) + Len(v) = Len(s) + Len(t)
  BY <1>1, <1>3, <1>4, <1>2
<1>6. ASSUME NEW i \in 1..Len(y) PROVE y[i] = x[i]
  <2>1. i \in 1..Len(s) + Len(t) /\ i \in 1..Len(u) + Len(v) /\ i \in Nat
    BY <1>3, <1>5
  <2>2. CASE i <= Len(s)
    <3>1. i <= Len(u) /\ i \in 1..Len(s)
      BY <1>1, <1>2, <2>1, <2>2
    <3> QED BY <1>3, <1>4, <1>2, <2>1, <2>2, <3>1
  <2>3. CASE ~(i <= Len(s)) /\ i <= Len(u)
    <3>1. i - Len(s) \in 1..k /\ Len(s) + (i - Len(s)) = i
      BY <1>1, <1>2, <2>1, <2>3
    <3>2. u[i] = t[i - Len(s)]
      BY <1>2, <3>1
    <3> QED BY <1>3, <1>4, <2>1, <2>3, <3>2
  <2>4. CASE ~(i <= Len(u))
    <3>1. ~(i <= Len(s)) /\ i - Len(u) \in 1..Len(v) /\ (i - Len(u)) + k = i - Len(s)
      BY <1>1, <1>2, <2>1, <2>4
    <3>2. v[i - Len(u)] = t[i - Len(s)]
      BY <1>1, <3>1
    <3> QED BY <1>3, <1>4, <2>1, <2>4, <3>1, <3>2
  <2> QED BY <2>2, <2>3, <2>4
<1>7. y = x
  BY <1>3, <1>4, <1>5, <1>6, SeqEqual
<1> QED
  BY <1>7 DEF x, y

LEMMA MovedConcat ==
  ASSUME NEW L \in Lines, NEW M \in Lines, NEW a \in Keys, NEW b \in Keys,
         NEW k \in 0..Len(L[b]), Moved(L, M, a, b, k)
  PROVE  M[a] \o M[b] = L[a] \o L[b]
<1>1. M[a] \in Seq(Piece) /\ M[b] \in Seq(Piece) /\ L[a] \in Seq(Piece) /\ L[b] \in Seq(Piece)
  BY LineLen
<1>2. PICK s \in Seq(Piece), t \in Seq(Piece), u \in Seq(Piece), v \in Seq(Piece) :
        s = L[a] /\ t = L[b] /\ u = M[a] /\ v = M[b]
  BY <1>1
<1>3. k \in 0..Len(t) /\ Joins(s, t, u, v, k)
  BY <1>2 DEF Moved, Joins
<1>4. u \o v = s \o t
  BY <1>3, SameConcat
<1> QED
  BY <1>2, <1>4

LEMMA Regroup == \A s, t, u \in Seq(Piece) : s \o (t \o u) = (s \o t) \o u
BY ConcatAssociative, SMTT(30)

LEMMA SentLine ==
  ASSUME NEW L \in Lines, NEW M \in Lines, NEW n \in Threads, NEW m \in Threads,
         NEW k \in 0..Len(L[<<"unsent", n>>]), Moved(L, M, <<"data", n>>, <<"unsent", n>>, k)
  PROVE  Line(M, m) = Line(L, m)
<1>1. \A w \in Where : \A j \in Threads : <<w, j>> \in Keys
  BY DEF Keys
<1> DEFINE a == <<"data", n>>
           b == <<"unsent", n>>
<1>2. a \in Keys /\ b \in Keys
  BY <1>1 DEF Where
<1>3. CASE m = n
  <2>1. M[a] \o M[b] = L[a] \o L[b]
    BY <1>2, MovedConcat
  <2>2. M[<<"held", n>>] = L[<<"held", n>>]
    <3>1. <<"held", n>> \in Keys \ {a, b}
      BY <1>1 DEF Where
    <3> QED BY <3>1 DEF Moved
  <2> QED BY <1>3, <2>1, <2>2 DEF Line
<1>4. CASE m # n
  <2>1. \A w \in Where : <<w, m>> \in Keys \ {a, b}
    BY <1>1, <1>4
  <2>2. \A w \in Where : M[<<w, m>>] = L[<<w, m>>]
    BY <2>1 DEF Moved
  <2> QED BY <2>2 DEF Line, Where
<1> QED
  BY <1>3, <1>4

LEMMA ReadLine ==
  ASSUME NEW L \in Lines, NEW M \in Lines, NEW n \in Threads, NEW m \in Threads,
         NEW k \in 0..Len(L[<<"data", n>>]), Moved(L, M, <<"held", n>>, <<"data", n>>, k)
  PROVE  Line(M, m) = Line(L, m)
<1>1. \A w \in Where : \A j \in Threads : <<w, j>> \in Keys
  BY DEF Keys
<1> DEFINE a == <<"held", n>>
           b == <<"data", n>>
           c == <<"unsent", n>>
<1>2. a \in Keys /\ b \in Keys /\ c \in Keys
  BY <1>1 DEF Where
<1>3. CASE m = n
  <2>1. /\ M[a] \in Seq(Piece) /\ M[b] \in Seq(Piece) /\ L[a] \in Seq(Piece) /\ L[b] \in Seq(Piece)
        /\ L[c] \in Seq(Piece)
    BY <1>2, LineLen
  <2>2. M[a] \o M[b] = L[a] \o L[b]
    BY <1>2, MovedConcat
  <2>3. M[c] = L[c]
    <3>1. c \in Keys \ {a, b}
      BY <1>2
    <3> QED BY <3>1 DEF Moved
  <2> HIDE DEF a, b, c
  <2>4. M[a] \o (M[b] \o L[c]) = (M[a] \o M[b]) \o L[c]
    BY <2>1, Regroup, ZenonT(30)
  <2>5. L[a] \o (L[b] \o L[c]) = (L[a] \o L[b]) \o L[c]
    BY <2>1, Regroup, ZenonT(30)
  <2> QED BY <1>3, <2>2, <2>3, <2>4, <2>5 DEF Line, a, b, c
<1>4. CASE m # n
  <2>1. \A w \in Where : <<w, m>> \in Keys \ {a, b}
    BY <1>1, <1>4
  <2>2. \A w \in Where : M[<<w, m>>] = L[<<w, m>>]
    BY <2>1 DEF Moved
  <2> QED BY <2>2 DEF Line, Where
<1> QED
  BY <1>3, <1>4

LEMMA LineTyped ==
  ASSUME NEW L \in Lines, NEW n \in Threads
  PROVE  /\ L[<<"held", n>>] \in Seq(Piece)
         /\ L[<<"data", n>>] \o L[<<"unsent", n>>] \in Seq(Piece)
         /\ Line(L, n) \in Seq(Piece)
<1>1. <<"held", n>> \in Keys /\ <<"data", n>> \in Keys /\ <<"unsent", n>> \in Keys
  BY DEF Keys, Where
<1>2. /\ L[<<"held", n>>] \in Seq(Piece) /\ L[<<"data", n>>] \in Seq(Piece)
      /\ L[<<"unsent", n>>] \in Seq(Piece)
  BY <1>1, LineLen
<1>3. L[<<"data", n>>] \o L[<<"unsent", n>>] \in Seq(Piece)
  BY <1>2, ConcatProperties
<1>4. L[<<"held", n>>] \o (L[<<"data", n>>] \o L[<<"unsent", n>>]) \in Seq(Piece)
  BY <1>2, <1>3, ConcatProperties
<1> QED
  BY <1>2, <1>3, <1>4 DEF Line

(* Bytes that are read begin with a frame when the stream does.            *)
LEMMA FramedInStep ==
  ASSUME NEW s \in Seq(Piece), NEW t \in Seq(Piece), s # <<>>, Framed(s \o t)
  PROVE  InStep(s)
<1> DEFINE x == s \o t
<1>1. Len(s) \in Nat /\ Len(s) >= 1 /\ Len(t) \in Nat
  BY LenProperties, EmptySeq
<1>2. /\ Len(x) = Len(s) + Len(t)
      /\ \A i \in 1..Len(s) + Len(t) : x[i] = IF i <= Len(s) THEN s[i] ELSE t[i - Len(s)]
  BY ConcatProperties
<1>3. Framed(x)
  OBVIOUS
<1> HIDE DEF x
<1>4. 1 \in 1..Len(x) /\ x[1] = s[1]
  BY <1>1, <1>2
<1>5. x[1][2] = 1 /\ x[1 + 1] = <<x[1][1], 2>>
  BY <1>3, <1>4 DEF Framed
<1>6. Len(s) > 1 => x[2] = s[2]
  BY <1>1, <1>2
<1> QED
  BY <1>4, <1>5, <1>6 DEF InStep

(* Without the first frame, frames are left.                               *)
LEMMA FramedDrop ==
  ASSUME NEW s \in Seq(Piece), NEW t \in Seq(Piece), Framed(s), Len(s) >= 2, Whole(s, 2, t)
  PROVE  Framed(t)
<1>1. Len(s) \in Nat /\ Len(t) = Len(s) - 2 /\ \A j \in 1..Len(t) : t[j] = s[j + 2]
  BY LenProperties DEF Whole
<1>2. 1 \in 1..Len(s) /\ 2 \in 1..Len(s)
  BY <1>1
<1>3. s[2][2] = 2
  <2>1. s[1][2] = 1 /\ s[1 + 1] = <<s[1][1], 2>>
    BY <1>2 DEF Framed
  <2> QED BY <2>1
<1> SUFFICES ASSUME NEW i \in 1..Len(t)
             PROVE  \/ t[i][2] = 1 /\ i < Len(t) /\ t[i + 1] = <<t[i][1], 2>>
                    \/ t[i][2] = 2 /\ i > 1 /\ t[i - 1] = <<t[i][1], 1>>
  BY DEF Framed
<1>4. i \in Nat /\ i + 2 \in 1..Len(s) /\ t[i] = s[i + 2]
  BY <1>1
<1>5. CASE s[i + 2][2] = 1 /\ i + 2 < Len(s) /\ s[(i + 2) + 1] = <<s[i + 2][1], 2>>
  <2>1. i + 1 \in 1..Len(t) /\ (i + 1) + 2 = (i + 2) + 1 /\ i < Len(t)
    BY <1>1, <1>4, <1>5
  <2> QED BY <1>1, <1>4, <1>5, <2>1
<1>6. CASE s[i + 2][2] = 2 /\ i + 2 > 1 /\ s[(i + 2) - 1] = <<s[i + 2][1], 1>>
  <2>1. i # 1
    <3> SUFFICES ASSUME i = 1 PROVE FALSE
      OBVIOUS
    <3>1. (i + 2) - 1 = 2
      OBVIOUS
    <3>2. s[2] = <<s[i + 2][1], 1>>
      BY <1>6, <3>1
    <3>3. s[2][2] = 1
      BY <3>2
    <3> QED BY <1>3, <3>3
  <2>2. i - 1 \in 1..Len(t) /\ (i - 1) + 2 = (i + 2) - 1 /\ i > 1
    BY <1>1, <1>4, <2>1
  <2> QED BY <1>1, <1>4, <1>6, <2>2
<1> QED
  BY <1>4, <1>5, <1>6 DEF Framed

(* With a frame behind them, they are frames still.                        *)
LEMMA FramedAdd ==
  ASSUME NEW s \in Seq(Piece), NEW t \in Seq(Piece), NEW c, Framed(s),
         Len(t) = Len(s) + 2, \A i \in 1..Len(s) : t[i] = s[i],
         t[Len(s) + 1] = <<c, 1>>, t[Len(s) + 2] = <<c, 2>>
  PROVE  Framed(t)
<1>1. Len(s) \in Nat
  BY LenProperties
<1> SUFFICES ASSUME NEW i \in 1..Len(t)
             PROVE  \/ t[i][2] = 1 /\ i < Len(t) /\ t[i + 1] = <<t[i][1], 2>>
                    \/ t[i][2] = 2 /\ i > 1 /\ t[i - 1] = <<t[i][1], 1>>
  BY DEF Framed
<1>2. CASE i \in 1..Len(s)
  <2>1. CASE s[i][2] = 1 /\ i < Len(s) /\ s[i + 1] = <<s[i][1], 2>>
    <3>1. i + 1 \in 1..Len(s) /\ i < Len(t)
      BY <1>1, <1>2, <2>1
    <3> QED BY <1>2, <2>1, <3>1
  <2>2. CASE s[i][2] = 2 /\ i > 1 /\ s[i - 1] = <<s[i][1], 1>>
    <3>1. i - 1 \in 1..Len(s)
      BY <1>1, <1>2, <2>2
    <3> QED BY <1>2, <2>2, <3>1
  <2> QED BY <1>2, <2>1, <2>2 DEF Framed
<1>3. CASE i = Len(s) + 1
  <2>1. i + 1 = Len(s) + 2 /\ i < Len(t)
    BY <1>1, <1>3
  <2>2. t[i] = <<c, 1>> /\ t[i + 1] = <<c, 2>>
    BY <1>3, <2>1
  <2>3. t[i][1] = c /\ t[i][2] = 1
    BY <2>2
  <2> QED BY <2>1, <2>2, <2>3
<1>4. CASE i = Len(s) + 2
  <2>1. i - 1 = Len(s) + 1 /\ i > 1
    BY <1>1, <1>4
  <2>2. t[i] = <<c, 2>> /\ t[i - 1] = <<c, 1>>
    BY <1>4, <2>1
  <2>3. t[i][1] = c /\ t[i][2] = 2
    BY <2>2
  <2> QED BY <2>1, <2>2, <2>3
<1> QED
  BY <1>1, <1>2, <1>3, <1>4

(* While threads do not share sockets, each uses its own.                  *)
LEMMA UsesOwn ==
  ASSUME TypeOK, Shape, Calm, NEW n \in Connections, NEW e \in End, NEW r \in Connections,
         r \in Referred(n, e), thread[n][e] = "running"
  PROVE  r = n
<1>1. CASE e = "near"
  BY <1>1, Lengths DEF Referred, NoSocket, Connections
<1>2. CASE e = "far"
  <2>1. r \in 1..slot
    BY <1>2, Lengths DEF Referred, NoSocket, Connections, TypeOK
  <2>2. thread[r]["far"] # "none" /\ thread[n]["far"] # "none"
    BY <1>2, <2>1 DEF Shape, SlotInv
  <2> QED BY <2>2 DEF Calm, Alone
<1> QED
  BY <1>1, <1>2 DEF End

LEMMA SendFlow ==
  ASSUME TypeOK, NEW n \in Connections, SendChunk(n)
  PROVE  \/ ~Undisturbed' /\ Store' = Store
         \/ /\ UNCHANGED <<thread, broken>>
            /\ \E r \in Connections : \E L \in Lines : \E k \in 0..Len(L[<<"unsent", n>>]) :
                 /\ r \in Referred(n, sending)
                 /\ IF taken < MaxChunks THEN Filled(Store, L, <<"unsent", n>>, taken + 1)
                                         ELSE L = Store
                 /\ Moved(L, Store', <<"data", r>>, <<"unsent", n>>, k)
<1>1. UNCHANGED <<peer, held>> /\ unsent[n] = <<>>
  BY DEF SendChunk
<1>2. CASE ~Undisturbed' /\ UNCHANGED <<data, unsent, target>>
  BY <1>1, <1>2, StoreStays
<1>3. ASSUME NEW r \in Connections, r \in Referred(n, sending),
             Put(n, r, NextBytes), UNCHANGED <<thread, broken>>
      PROVE  /\ UNCHANGED <<thread, broken>>
             /\ \E L \in Lines : \E k \in 0..Len(L[<<"unsent", n>>]) :
                  /\ IF taken < MaxChunks THEN Filled(Store, L, <<"unsent", n>>, taken + 1)
                                          ELSE L = Store
                  /\ Moved(L, Store', <<"data", r>>, <<"unsent", n>>, k)
  <2> DEFINE b == <<"unsent", n>>
  <2>1. PICK bytes \in Seq(Piece) : bytes = NextBytes
    BY NextBytesTyped
  <2>2. PICK L \in Lines, k \in 0..Len(bytes) :
          /\ L[b] = bytes /\ Moved(L, Store', <<"data", r>>, b, k)
          /\ \A x \in Keys : x # b => L[x] = Store[x]
    BY <1>1, <1>3, <2>1, PutMoves
  <2>3. b \in Keys /\ Store[b] = <<>> /\ Store \in Lines
    BY <1>1, KeyTyped, StoreValues, StoreTyped
  <2> HIDE DEF b
  <2>4. CASE taken < MaxChunks
    <3>1. L[b] = <<<<taken + 1, 1>>, <<taken + 1, 2>>>>
      BY <2>1, <2>2, <2>4 DEF NextBytes, Halves
    <3>2. Filled(Store, L, b, taken + 1)
      BY <2>2, <2>3, <3>1 DEF Filled
    <3> QED BY <1>3, <2>2, <2>4, <3>2 DEF b
  <2>5. CASE ~(taken < MaxChunks)
    <3>1. L[b] = <<>>
      BY <2>1, <2>2, <2>5 DEF NextBytes
    <3>2. \A x \in Keys : L[x] = Store[x]
      BY <2>2, <2>3, <3>1
    <3>3. L = Store
      BY <2>3, <3>2 DEF Lines
    <3> QED BY <1>3, <2>2, <2>5, <3>3 DEF b
  <2> QED BY <2>4, <2>5
<1> QED
  BY <1>2, <1>3, SendCases

LEMMA RestFlow ==
  ASSUME TypeOK, Shape, NEW n \in Connections, SendRest(n)
  PROVE  \/ /\ UNCHANGED thread
            /\ \E r \in Connections : \E k \in 0..Len(Store[<<"unsent", n>>]) :
                 /\ r \in Referred(n, sending)
                 /\ Moved(Store, Store', <<"data", r>>, <<"unsent", n>>, k)
         \/ ~Calm' /\ \E a \in Keys : \E d \in 0..Len(Store[a]) : Dropped(Store, Store', a, d)
<1> DEFINE r == target[n]
           b == <<"unsent", n>>
<1>1. /\ UNCHANGED <<peer, broken, held>> /\ unsent[n] # <<>>
      /\ thread[n][sending] = "running" /\ sending \in End /\ Other(sending) \in End
  BY DEF SendRest, TypeOK, Other, End
<1>2. r # NoSocket /\ r \in Referred(n, sending) /\ unsent[n] \in Seq(Piece)
  BY <1>1, HandsAt DEF Shape, TargetInv
<1>3. CASE r \in Connections /\ Put(n, r, unsent[n]) /\ UNCHANGED thread
  <2>1. b \in Keys /\ Store[b] = unsent[n] /\ Store \in Lines
    BY KeyTyped, StoreValues, StoreTyped
  <2>2. PICK L \in Lines, k \in 0..Len(unsent[n]) :
          /\ L[b] = unsent[n] /\ Moved(L, Store', <<"data", r>>, b, k)
          /\ \A x \in Keys : x # b => L[x] = Store[x]
    BY <1>1, <1>2, <1>3, PutMoves
  <2> HIDE DEF b
  <2>3. \A x \in Keys : L[x] = Store[x]
    BY <2>1, <2>2
  <2>4. L = Store
    BY <2>1, <2>3 DEF Lines
  <2> QED BY <1>2, <1>3, <2>1, <2>2, <2>4 DEF b
<1>4. CASE /\ ~(Usable(r, sending) /\ open[r][Other(sending)])
           /\ unsent' = [unsent EXCEPT ![n] = <<>>]
           /\ thread' = thread \/ Leave(n, sending)
           /\ UNCHANGED data
  <2>1. \E a \in Keys : \E d \in 0..Len(Store[a]) : Dropped(Store, Store', a, d)
    BY <1>1, <1>4, EmptiedMoves
  <2>2. ~Calm'
    <3>1. CASE Leave(n, sending)
      BY <1>1, <3>1, LeaveSets, ThreadDisturbs DEF Calm
    <3>2. CASE thread' = thread /\ Calm
      <4>1. r \in Connections
        BY <1>1, <1>2, ReferredUsable
      <4>2. open[r][sending] /\ open[r][Other(sending)] /\ ~broken[r]
        BY <1>1, <3>2, <4>1 DEF Calm, Shape, OpenInv, Undisturbed
      <4> QED BY <1>2, <1>4, <4>2 DEF Usable
    <3>3. CASE thread' = thread /\ ~Calm
      BY <1>1, <3>3, CalmSame
    <3> QED BY <1>4, <3>1, <3>2, <3>3
  <2> QED BY <2>1, <2>2
<1> QED
  BY <1>3, <1>4, RestCases

LEMMA ReadFlow ==
  ASSUME TypeOK, NEW n \in Connections, ReceiveChunk(n)
  PROVE  \/ /\ ~Undisturbed' /\ UNCHANGED received
            /\ \E a \in Keys : \E d \in 0..Len(Store[a]) : Dropped(Store, Store', a, d)
         \/ /\ UNCHANGED thread /\ thread[n][Other(sending)] = "running"
            /\ \E r \in Connections : \E k \in 0..Len(Store[<<"data", r>>]) :
               \E L \in Lines : \E d \in 0..Len(L[<<"held", n>>]) :
                 /\ r \in Referred(n, Other(sending))
                 /\ Moved(Store, L, <<"held", n>>, <<"data", r>>, k)
                 /\ L[<<"held", n>>] # <<>>
                 /\ CutMoves(L, Store', <<"held", n>>, d)
<1>1. UNCHANGED <<peer, unsent>>
  BY DEF ReceiveChunk
<1>2. CASE /\ ~Undisturbed' /\ held' = [held EXCEPT ![n] = <<>>]
           /\ UNCHANGED <<data, received>>
  <2>1. \E a \in Keys : \E d \in 0..Len(Store[a]) : Dropped(Store, Store', a, d)
    BY <1>1, <1>2, EmptiedMoves
  <2> QED BY <1>2, <2>1
<1>3. ASSUME UNCHANGED thread, NEW r \in Connections, r \in Referred(n, Other(sending)),
             thread[n][Other(sending)] = "running", NEW k \in 1..Len(data[r]),
             data' = [data EXCEPT ![r] = SubSeq(data[r], k + 1, Len(data[r]))],
             CutFrom(n, held[n] \o SubSeq(data[r], 1, k))
      PROVE  /\ k \in 0..Len(Store[<<"data", r>>])
             /\ \E L \in Lines : \E d \in 0..Len(L[<<"held", n>>]) :
                  /\ Moved(Store, L, <<"held", n>>, <<"data", r>>, k)
                  /\ L[<<"held", n>>] # <<>>
                  /\ CutMoves(L, Store', <<"held", n>>, d)
  <2>1. Store[<<"data", r>>] = data[r] /\ Len(data[r]) \in Nat
    BY StoreValues, DataAt
  <2>2. k \in 0..Len(Store[<<"data", r>>])
    BY <2>1
  <2> QED BY <1>1, <1>3, <2>2, ReadMoves
<1> QED
  BY <1>2, <1>3, ReceiveCases

(* A chunk put in front of an empty hand lengthens its stream by a frame.  *)
LEMMA FilledLine ==
  ASSUME NEW L \in Lines, NEW M \in Lines, NEW n \in Threads, NEW c,
         Filled(L, M, <<"unsent", n>>, c), NEW m \in Threads, Framed(Line(L, m))
  PROVE  Framed(Line(M, m))
<1> DEFINE a == <<"unsent", n>>
           h == <<"held", n>>
           b == <<"data", n>>
<1>1. a \in Keys /\ h \in Keys \ {a} /\ b \in Keys \ {a}
  BY DEF Keys, Where
<1>2. CASE m # n
  <2>1. \A w \in Where : <<w, m>> \in Keys \ {a}
    BY <1>2 DEF Keys
  <2>2. \A w \in Where : M[<<w, m>>] = L[<<w, m>>]
    BY <2>1 DEF Filled
  <2>3. Line(M, m) = Line(L, m)
    BY <2>2 DEF Line, Where
  <2> QED BY <2>3
<1>3. CASE m = n
  <2>1. M[h] = L[h] /\ M[b] = L[b] /\ L[a] = <<>>
    BY <1>1 DEF Filled
  <2>2. PICK s \in Seq(Piece), t \in Seq(Piece), u \in Seq(Piece) : s = L[h] /\ t = L[b] /\ u = M[a]
    BY <1>1, LineLen
  <2>3. /\ Len(u) = 2 /\ u[1] = <<c, 1>> /\ u[2] = <<c, 2>>
    BY <2>2 DEF Filled
  <2> DEFINE x == s \o t
             y == x \o u
  <2>4. x \in Seq(Piece)
    BY ConcatProperties
  <2>5. Line(L, n) = x
    <3>1. t \o <<>> = t
      BY ConcatEmptySeq
    <3> QED BY <2>1, <2>2, <3>1 DEF Line
  <2>6. Line(M, n) = y
    <3>1. s \o (t \o u) = (s \o t) \o u
      BY Regroup
    <3> QED BY <2>1, <2>2, <3>1 DEF Line
  <2> HIDE DEF x
  <2>7. /\ y \in Seq(Piece) /\ Len(y) = Len(x) + Len(u)
        /\ \A i \in 1..Len(x) + Len(u) : y[i] = IF i <= Len(x) THEN x[i] ELSE u[i - Len(x)]
    BY <2>4, ConcatProperties
  <2> HIDE DEF y
  <2>8. Len(x) \in Nat
    BY <2>4, LenProperties
  <2>9. /\ Len(y) = Len(x) + 2 /\ \A i \in 1..Len(x) : y[i] = x[i]
        /\ y[Len(x) + 1] = <<c, 1>> /\ y[Len(x) + 2] = <<c, 2>>
    <3>1. ASSUME NEW i \in 1..Len(x) PROVE y[i] = x[i]
      BY <2>3, <2>7, <2>8
    <3>2. y[Len(x) + 1] = u[1]
      <4>1. /\ Len(x) + 1 \in 1..Len(x) + Len(u) /\ ~(Len(x) + 1 <= Len(x))
            /\ (Len(x) + 1) - Len(x) = 1
        BY <2>3, <2>8
      <4> QED BY <2>7, <4>1
    <3>3. y[Len(x) + 2] = u[2]
      <4>1. /\ Len(x) + 2 \in 1..Len(x) + Len(u) /\ ~(Len(x) + 2 <= Len(x))
            /\ (Len(x) + 2) - Len(x) = 2
        BY <2>3, <2>8
      <4> QED BY <2>7, <4>1
    <3> QED BY <2>3, <2>7, <3>1, <3>2, <3>3
  <2>10. Framed(x)
    BY <1>3, <2>5
  <2>11. Framed(y)
    BY <2>4, <2>7, <2>9, <2>10, FramedAdd
  <2> QED BY <1>3, <2>6, <2>11
<1> QED
  BY <1>2, <1>3

(* What was released is a frame, and what is behind it begins with one.    *)
LEMMA ReleasedLine ==
  ASSUME NEW L \in Lines, NEW M \in Lines, NEW n \in Threads, NEW d \in {0, 2},
         d <= Len(L[<<"held", n>>]), Released(L, M, <<"held", n>>, d),
         NEW m \in Threads, Framed(Line(L, m))
  PROVE  Framed(Line(M, m))
<1> DEFINE h == <<"held", n>>
           b == <<"data", n>>
           a == <<"unsent", n>>
<1>1. h \in Keys /\ b \in Keys \ {h} /\ a \in Keys \ {h}
  BY DEF Keys, Where
<1>2. CASE m # n
  <2>1. \A w \in Where : <<w, m>> \in Keys \ {h}
    BY <1>2 DEF Keys
  <2>2. \A w \in Where : M[<<w, m>>] = L[<<w, m>>]
    BY <2>1 DEF Released
  <2>3. Line(M, m) = Line(L, m)
    BY <2>2 DEF Line, Where
  <2> QED BY <2>3
<1>3. CASE m = n
  <2>1. M[a] = L[a] /\ M[b] = L[b] /\ Whole(L[h], d, M[h])
    BY <1>1 DEF Released
  <2>2. PICK s \in Seq(Piece), v \in Seq(Piece), t \in Seq(Piece) :
          s = L[h] /\ v = M[h] /\ t = L[b] \o L[a]
    BY <1>1, LineLen, LineTyped
  <2>3. Len(s) \in Nat /\ Len(v) \in Nat /\ Len(t) \in Nat
    BY LenProperties
  <2>4. Len(v) = Len(s) - d /\ \A j \in 1..Len(v) : v[j] = s[j + d]
    BY <2>1, <2>2 DEF Whole
  <2> DEFINE x == s \o t
             y == v \o t
  <2>5. Line(L, n) = x /\ Line(M, n) = y
    BY <2>1, <2>2 DEF Line
  <2>6. /\ x \in Seq(Piece) /\ Len(x) = Len(s) + Len(t)
        /\ \A i \in 1..Len(s) + Len(t) : x[i] = IF i <= Len(s) THEN s[i] ELSE t[i - Len(s)]
    BY ConcatProperties
  <2>7. /\ y \in Seq(Piece) /\ Len(y) = Len(v) + Len(t)
        /\ \A i \in 1..Len(v) + Len(t) : y[i] = IF i <= Len(v) THEN v[i] ELSE t[i - Len(v)]
    BY ConcatProperties
  <2> HIDE DEF x, y
  <2>8. Whole(x, d, y)
    <3>1. Len(y) = Len(x) - d
      BY <2>3, <2>4, <2>6, <2>7
    <3>2. ASSUME NEW j \in 1..Len(y) PROVE y[j] = x[j + d]
      <4>1. j \in 1..Len(v) + Len(t) /\ j + d \in 1..Len(s) + Len(t)
        BY <2>3, <2>4, <2>7
      <4>2. CASE j <= Len(v)
        <5>1. j \in 1..Len(v) /\ j + d <= Len(s)
          BY <2>3, <2>4, <4>1, <4>2
        <5> QED BY <2>4, <2>6, <2>7, <4>1, <5>1
      <4>3. CASE ~(j <= Len(v))
        <5>1. ~(j + d <= Len(s)) /\ (j + d) - Len(s) = j - Len(v)
          BY <2>3, <2>4, <4>1, <4>3
        <5> QED BY <2>6, <2>7, <4>1, <4>3, <5>1
      <4> QED BY <4>2, <4>3
    <3> QED BY <3>1, <3>2 DEF Whole
  <2>9. Framed(x)
    BY <1>3, <2>5
  <2>10. CASE d = 2
    <3>1. Len(x) >= 2
      <4>1. 2 <= Len(s)
        BY <2>2, <2>10
      <4> QED BY <2>3, <2>6, <4>1
    <3>2. Framed(y)
      BY <2>6, <2>7, <2>8, <2>9, <2>10, <3>1, FramedDrop
    <3> QED BY <1>3, <2>5, <3>2
  <2>11. CASE d = 0
    <3>1. Len(y) = Len(x) /\ \A j \in 1..Len(y) : y[j] = x[j]
      <4>1. Len(x) \in Nat /\ \A j \in 1..Len(y) : j + 0 = j
        BY <2>6, <2>7, LenProperties
      <4> QED BY <2>8, <2>11, <4>1 DEF Whole
    <3>2. y = x
      BY <2>6, <2>7, <3>1, SeqEqual
    <3> QED BY <1>3, <2>5, <2>9, <3>2
  <2> QED BY <2>10, <2>11
<1> QED
  BY <1>2, <1>3

LEMMA FramedKept ==
  ASSUME FramedInv, Calm' => Calm, Store' = Store
  PROVE  FramedInv'
BY DEF FramedInv

LEMMA FramedSend ==
  ASSUME TypeOK, TypeOK', Shape, FramedInv, NEW n \in Connections, SendChunk(n)
  PROVE  FramedInv'
<1>1. sending \in End /\ thread[n][sending] = "running" /\ UNCHANGED peer
  BY DEF TypeOK, SendChunk
<1>2. CASE ~Undisturbed'
  BY <1>2 DEF FramedInv, Calm
<1>3. ASSUME UNCHANGED <<thread, broken>>, NEW r \in Connections, NEW L \in Lines,
             NEW k \in 0..Len(L[<<"unsent", n>>]), r \in Referred(n, sending),
             IF taken < MaxChunks THEN Filled(Store, L, <<"unsent", n>>, taken + 1) ELSE L = Store,
             Moved(L, Store', <<"data", r>>, <<"unsent", n>>, k),
             Calm', NEW m \in Threads
      PROVE  Framed(Line(Store', m))
  <2>1. Calm /\ n \in Threads
    BY <1>1, <1>3, CalmSame, HandsAt
  <2>2. r = n
    BY <1>1, <1>3, <2>1, UsesOwn
  <2>3. Store \in Lines /\ Store' \in Lines
    BY StoreTyped, StoreTypedNext
  <2>4. Framed(Line(Store, m))
    BY <1>3, <2>1 DEF FramedInv
  <2>5. Framed(Line(L, m))
    <3>1. CASE taken < MaxChunks
      BY <1>3, <2>1, <2>3, <2>4, <3>1, FilledLine
    <3>2. CASE ~(taken < MaxChunks)
      BY <1>3, <2>4, <3>2
    <3> QED BY <3>1, <3>2
  <2>6. Line(Store', m) = Line(L, m)
    BY <1>3, <2>1, <2>2, <2>3, SentLine
  <2> QED BY <2>5, <2>6
<1> QED
  BY <1>2, <1>3, SendFlow DEF FramedInv

LEMMA FramedRest ==
  ASSUME TypeOK, TypeOK', Shape, FramedInv, NEW n \in Connections, SendRest(n)
  PROVE  FramedInv'
<1>1. sending \in End /\ thread[n][sending] = "running" /\ UNCHANGED <<peer, broken>>
  BY DEF TypeOK, SendRest
<1>2. ASSUME UNCHANGED thread, NEW r \in Connections, NEW k \in 0..Len(Store[<<"unsent", n>>]),
             r \in Referred(n, sending), Moved(Store, Store', <<"data", r>>, <<"unsent", n>>, k),
             Calm', NEW m \in Threads
      PROVE  Framed(Line(Store', m))
  <2>1. Calm /\ n \in Threads
    BY <1>1, <1>2, CalmSame, HandsAt
  <2>2. r = n
    BY <1>1, <1>2, <2>1, UsesOwn
  <2>3. Store \in Lines /\ Store' \in Lines
    BY StoreTyped, StoreTypedNext
  <2>4. Framed(Line(Store, m))
    BY <1>2, <2>1 DEF FramedInv
  <2>5. Line(Store', m) = Line(Store, m)
    BY <1>2, <2>1, <2>2, <2>3, SentLine
  <2> QED BY <2>4, <2>5
<1> QED
  BY <1>2, RestFlow DEF FramedInv

(* While nothing disturbs it a thread finds a frame where it looks for one.*)
LEMMA ReadInStep ==
  ASSUME TypeOK, Shape, FramedInv, Calm, NEW n \in Connections, NEW L \in Lines,
         NEW k \in 0..Len(Store[<<"data", n>>]),
         Moved(Store, L, <<"held", n>>, <<"data", n>>, k), L[<<"held", n>>] # <<>>
  PROVE  InStep(L[<<"held", n>>]) /\ \A m \in Threads : Framed(Line(L, m))
<1>1. Store \in Lines /\ n \in Threads
  BY StoreTyped, HandsAt
<1>2. \A m \in Threads : Line(L, m) = Line(Store, m)
  BY <1>1, ReadLine
<1>3. \A m \in Threads : Framed(Line(L, m))
  BY <1>2 DEF FramedInv
<1>4. PICK s \in Seq(Piece), t \in Seq(Piece) :
        s = L[<<"held", n>>] /\ t = L[<<"data", n>>] \o L[<<"unsent", n>>]
  BY <1>1, LineTyped
<1>5. Framed(s \o t)
  BY <1>1, <1>3, <1>4 DEF Line
<1>6. InStep(s)
  BY <1>4, <1>5, FramedInStep
<1> QED
  BY <1>3, <1>4, <1>6

LEMMA FramedReceive ==
  ASSUME TypeOK, TypeOK', Shape, FramedInv, NEW n \in Connections, ReceiveChunk(n)
  PROVE  FramedInv'
<1>1. Other(sending) \in End /\ UNCHANGED <<peer, broken>>
  BY DEF TypeOK, ReceiveChunk, Other, End
<1>2. CASE ~Undisturbed'
  BY <1>2 DEF FramedInv, Calm
<1>3. ASSUME UNCHANGED thread, thread[n][Other(sending)] = "running",
             NEW r \in Connections, NEW k \in 0..Len(Store[<<"data", r>>]), NEW L \in Lines,
             NEW d \in 0..Len(L[<<"held", n>>]), r \in Referred(n, Other(sending)),
             Moved(Store, L, <<"held", n>>, <<"data", r>>, k), L[<<"held", n>>] # <<>>,
             CutMoves(L, Store', <<"held", n>>, d), Calm', NEW m \in Threads
      PROVE  Framed(Line(Store', m))
  <2>1. Calm /\ n \in Threads
    BY <1>1, <1>3, CalmSame, HandsAt
  <2>2. r = n
    BY <1>1, <1>3, <2>1, UsesOwn
  <2>3. Store' \in Lines
    BY StoreTypedNext
  <2>4. InStep(L[<<"held", n>>]) /\ Framed(Line(L, m))
    BY <1>3, <2>1, <2>2, ReadInStep
  <2>5. d \in {0, 2} /\ Released(L, Store', <<"held", n>>, d)
    BY <1>3, <2>4 DEF CutMoves
  <2>6. d <= Len(L[<<"held", n>>])
    OBVIOUS
  <2> QED BY <2>1, <2>3, <2>4, <2>5, <2>6, ReleasedLine
<1> QED
  BY <1>2, <1>3, ReadFlow DEF FramedInv

LEMMA FramedStep ==
  ASSUME TypeOK, TypeOK', Shape, FramedInv, [Next]_vars
  PROVE  FramedInv'
<1>1. CASE UNCHANGED vars \/ Bind
  <2>1. UNCHANGED <<wires, thread, hands>>
    BY <1>1 DEF vars, Bind
  <2> QED BY <2>1, CalmSame, StoreStays, FramedKept DEF wires, hands
<1>2. ASSUME NEW p \in Peers, Connect(p) PROVE FramedInv'
  BY <1>2, CalmConnect, StoreConnect, FramedKept
<1>3. ASSUME NEW n \in Connections, Accept(n) PROVE FramedInv'
  <2>1. UNCHANGED <<wires, hands>>
    BY <1>3 DEF Accept
  <2> QED BY <1>3, <2>1, CalmAccept, StoreStays, FramedKept DEF wires, hands
<1>4. ASSUME NEW n \in Connections, SendChunk(n) \/ SendRest(n) \/ ReceiveChunk(n)
      PROVE  FramedInv'
  BY <1>4, FramedSend, FramedRest, FramedReceive
<1>5. ASSUME NEW n \in Connections, Ends(n) PROVE FramedInv'
  BY <1>5, EndsDisturb DEF FramedInv, Calm
<1> QED
  BY <1>1, <1>2, <1>3, <1>4, <1>5 DEF Next, Ends

-----------------------------------------------------------------------------
(* Chunks.  One that was not taken is nowhere: without this the next one   *)
(* taken might already be under way.                                       *)

OnePlace(c, h) ==
  /\ received[c] \in {0, 1}
  /\ Once(Store, <<c, h>>)
  /\ Has(Store, <<c, h>>) => received[c] = 0
  /\ c > taken => received[c] = 0 /\ ~Has(Store, <<c, h>>)
  /\ Calm /\ c <= taken => received[c] = 1 \/ Has(Store, <<c, h>>)

ChunkInv == TypeOK /\ Shape /\ FramedInv /\ \A c \in Chunk, h \in 1..2 : OnePlace(c, h)

LEMMA PlacesAt ==
  ASSUME TypeOK, NEW q, NEW x
  PROVE  x \in Places(q) <=> \E y \in Keys : \E i \in Nat : x = <<y, i>> /\ Holds(Store, y, i, q)
<1> DEFINE in(w, n, bytes) == {<<w, n>>} \X {i \in 1..Len(bytes) : bytes[i] = q}
<1>1. x \in Places(q) <=> \E n \in Connections : \/ x \in in("unsent", n, unsent[n])
                                                 \/ x \in in("data", n, data[n])
                                                 \/ x \in in("held", n, held[n])
  <2> DEFINE at(n) == in("unsent", n, unsent[n]) \cup in("data", n, data[n])
                        \cup in("held", n, held[n])
  <2>1. Places(q) = UNION {at(n) : n \in Connections}
    BY Zenon DEF Places
  <2>2. ASSUME NEW n
        PROVE  x \in at(n) <=> \/ x \in in("unsent", n, unsent[n])
                               \/ x \in in("data", n, data[n])
                               \/ x \in in("held", n, held[n])
    <3> HIDE DEF in
    <3> QED OBVIOUS
  <2> HIDE DEF at, in
  <2>3. x \in UNION {at(n) : n \in Connections} <=> \E n \in Connections : x \in at(n)
    OBVIOUS
  <2> QED BY <2>1, <2>2, <2>3
<1>2. ASSUME NEW n \in Connections
      PROVE  /\ Store[<<"unsent", n>>] = unsent[n] /\ Store[<<"data", n>>] = data[n]
             /\ Store[<<"held", n>>] = held[n]
             /\ <<"unsent", n>> \in Keys /\ <<"data", n>> \in Keys /\ <<"held", n>> \in Keys
  BY StoreValues, KeyTyped
<1>3. ASSUME NEW w \in Where, NEW n \in Connections, NEW bytes, bytes = Store[<<w, n>>],
             x \in in(w, n, bytes)
      PROVE  \E y \in Keys : \E i \in Nat : x = <<y, i>> /\ Holds(Store, y, i, q)
  <2>1. PICK i \in 1..Len(bytes) : x = <<<<w, n>>, i>> /\ bytes[i] = q
    BY <1>3
  <2>2. <<w, n>> \in Keys
    BY <1>2 DEF Where
  <2>3. Len(bytes) \in Nat
    BY <1>3, <2>2, StoreTyped, LineLen
  <2> QED BY <1>3, <2>1, <2>2, <2>3 DEF Holds
<1>4. ASSUME NEW y \in Keys, NEW i \in Nat, x = <<y, i>>, Holds(Store, y, i, q)
      PROVE  \E n \in Connections : \/ x \in in("unsent", n, unsent[n])
                                    \/ x \in in("data", n, data[n])
                                    \/ x \in in("held", n, held[n])
  <2>1. y[1] \in Where /\ y = <<y[1], y[2]>> /\ i \in 1..Len(Store[y]) /\ Store[y][i] = q
    BY <1>4, KeyParts DEF Holds
  <2>2. y[2] \in Connections
    <3>1. y[2] \notin Connections => Store[y] = <<>>
      BY DEF Store
    <3>2. 1..Len(<<>>) = {}
      OBVIOUS
    <3> QED BY <2>1, <3>1, <3>2
  <2>3. x \in in(y[1], y[2], Store[y])
    BY <1>4, <2>1
  <2> HIDE DEF in
  <2>4. CASE y[1] = "unsent"
    BY <1>2, <2>1, <2>2, <2>3, <2>4
  <2>5. CASE y[1] = "data"
    BY <1>2, <2>1, <2>2, <2>3, <2>5
  <2>6. CASE y[1] = "held"
    BY <1>2, <2>1, <2>2, <2>3, <2>6
  <2> QED BY <2>1, <2>4, <2>5, <2>6 DEF Where
<1> HIDE DEF in
<1>5. (\E n \in Connections : \/ x \in in("unsent", n, unsent[n])
                              \/ x \in in("data", n, data[n])
                              \/ x \in in("held", n, held[n]))
        => \E y \in Keys : \E i \in Nat : x = <<y, i>> /\ Holds(Store, y, i, q)
  <2>1. "unsent" \in Where /\ "data" \in Where /\ "held" \in Where
    BY DEF Where
  <2> QED BY <1>2, <1>3, <2>1
<1> QED
  BY <1>1, <1>4, <1>5

LEMMA OnePlaceCounted ==
  ASSUME ChunkInv
  PROVE  ChunksTracked
<1> SUFFICES ASSUME NEW c \in Chunk, NEW h \in 1..2
             PROVE  LET places == received[c] + Cardinality(Places(<<c, h>>))
                    IN  places <= 1 /\ (Calm /\ c <= taken => places = 1)
  BY DEF ChunksTracked, Undisturbed, Calm
<1> DEFINE q == <<c, h>>
<1>1. OnePlace(c, h) /\ TypeOK
  BY DEF ChunkInv
<1>2. CASE Has(Store, q)
  <2>1. PICK y \in Keys, i \in Nat : Holds(Store, y, i, q)
    BY <1>2 DEF Has
  <2>2. Once(Store, q) /\ received[c] = 0
    BY <1>1, <1>2 DEF OnePlace
  <2> HIDE DEF q
  <2>3. \A x \in Places(q) : x = <<y, i>>
    BY <1>1, <2>1, <2>2, PlacesAt DEF Once
  <2>4. <<y, i>> \in Places(q)
    BY <1>1, <2>1, PlacesAt
  <2>5. Places(q) = {<<y, i>>}
    BY <2>3, <2>4
  <2>6. Cardinality(Places(q)) = 1
    BY <2>5, FS_Singleton
  <2> QED BY <2>2, <2>6 DEF q
<1>3. CASE ~Has(Store, q)
  <2> HIDE DEF q
  <2>1. Places(q) = {}
    BY <1>1, <1>3, PlacesAt DEF Has
  <2>2. Cardinality(Places(q)) = 0
    BY <2>1, FS_EmptySet
  <2> QED BY <1>1, <1>3, <2>2 DEF OnePlace, q
<1> QED
  BY <1>2, <1>3

LEMMA ChunkInit == Init => ChunkInv
<1> SUFFICES ASSUME Init PROVE ChunkInv
  OBVIOUS
<1>1. TypeOK /\ Shape
  BY TypeInit, ShapeInit
<1>2. ASSUME NEW x \in Keys PROVE Store[x] = <<>>
  <2>1. Connections = {}
    BY DEF Init, Connections
  <2> QED BY <2>1 DEF Store
<1>3. ASSUME NEW c \in Chunk, NEW h \in 1..2 PROVE OnePlace(c, h)
  <2>1. ~Has(Store, <<c, h>>) /\ Once(Store, <<c, h>>)
    <3>1. 1..Len(<<>>) = {}
      OBVIOUS
    <3>2. \A x \in Keys : \A i \in Nat : ~Holds(Store, x, i, <<c, h>>)
      BY <1>2, <3>1 DEF Holds
    <3> QED BY <3>2 DEF Has, Once
  <2>2. received[c] = 0 /\ taken = 0 /\ c \in Nat /\ c >= 1
    BY BoundsAssumption DEF Init, Chunk
  <2> QED BY <2>1, <2>2 DEF OnePlace
<1>4. ASSUME NEW n \in Threads PROVE Framed(Line(Store, n))
  <2>1. Line(Store, n) = <<>> \o (<<>> \o <<>>)
    <3>1. <<"unsent", n>> \in Keys /\ <<"data", n>> \in Keys /\ <<"held", n>> \in Keys
      BY DEF Keys, Where
    <3> QED BY <1>2, <3>1 DEF Line
  <2>2. <<>> \o <<>> = <<>>
    BY EmptySeq, ConcatEmptySeq
  <2>3. 1..Len(<<>>) = {}
    OBVIOUS
  <2> QED BY <2>1, <2>2, <2>3 DEF Framed
<1> QED
  BY <1>1, <1>3, <1>4 DEF ChunkInv, FramedInv

(* Steps that leave a piece where it is, or lose it in disturbance.        *)
LEMMA OnePlaceKept ==
  ASSUME NEW c, NEW h, OnePlace(c, h), taken' = taken, received'[c] = received[c],
         Calm' => Calm, Once(Store, <<c, h>>) => Once(Store', <<c, h>>),
         Has(Store', <<c, h>>) => Has(Store, <<c, h>>),
         Calm' => (Has(Store, <<c, h>>) => Has(Store', <<c, h>>))
  PROVE  OnePlace(c, h)'
BY DEF OnePlace

LEMMA ChunkStays ==
  ASSUME ChunkInv, UNCHANGED <<received, taken>>, Calm' => Calm, Store' = Store
  PROVE  \A c \in Chunk, h \in 1..2 : OnePlace(c, h)'
BY OnePlaceKept DEF ChunkInv

(* A chunk taken is in the thread's hand, and what is sent of it moves on. *)
LEMMA ChunkSend ==
  ASSUME ChunkInv, TypeOK', NEW n \in Connections, SendChunk(n), NEW c \in Chunk, NEW h \in 1..2
  PROVE  OnePlace(c, h)'
<1> DEFINE q == <<c, h>>
           a == <<"unsent", n>>
<1>1. /\ TypeOK /\ OnePlace(c, h) /\ UNCHANGED <<peer, received>> /\ a \in Keys
      /\ taken \in 0..MaxChunks /\ MaxChunks \in Nat /\ c \in Nat
      /\ taken' = IF taken < MaxChunks THEN taken + 1 ELSE taken
  <2>1. TypeOK /\ OnePlace(c, h)
    BY DEF ChunkInv
  <2>2. a \in Keys
    BY <2>1, KeyTyped
  <2>3. UNCHANGED <<peer, received>> /\ taken' = IF taken < MaxChunks THEN taken + 1 ELSE taken
    BY DEF SendChunk
  <2>4. taken \in 0..MaxChunks /\ MaxChunks \in Nat /\ c \in Nat
    BY <2>1, BoundsAssumption DEF TypeOK, Chunk
  <2> QED BY <2>1, <2>2, <2>3, <2>4
<1>2. Store \in Lines /\ Store' \in Lines
  BY <1>1, StoreTyped, StoreTypedNext
<1>3. CASE ~Undisturbed' /\ Store' = Store
  <2>1. ~Calm'
    BY <1>3 DEF Calm
  <2>2. c > taken' => c > taken
    BY <1>1
  <2> QED BY <1>1, <1>3, <2>1, <2>2 DEF OnePlace
<1>4. ASSUME UNCHANGED <<thread, broken>>, NEW r \in Connections, NEW L \in Lines,
             NEW k \in 0..Len(L[a]),
             IF taken < MaxChunks THEN Filled(Store, L, a, taken + 1) ELSE L = Store,
             Moved(L, Store', <<"data", r>>, a, k)
      PROVE  OnePlace(c, h)'
  <2> HIDE DEF q
  <2>1. Calm' => Calm
    BY <1>1, <1>4, CalmSame
  <2>2. (Once(L, q) => Once(Store', q)) /\ (Has(L, q) <=> Has(Store', q))
    <3>1. <<"data", r>> \in Keys /\ <<"data", r>> # a
      BY <1>1, KeyTyped
    <3> HIDE DEF a
    <3> QED BY <1>1, <1>2, <1>4, <3>1, MovedKeeps
  <2> HIDE DEF a
  <2>3. CASE ~(taken < MaxChunks)
    BY <1>1, <1>4, <2>1, <2>2, <2>3 DEF OnePlace, q
  <2>4. CASE taken < MaxChunks /\ c # taken + 1
    <3>1. q \notin {<<taken + 1, 1>>, <<taken + 1, 2>>}
      BY <2>4 DEF q
    <3>2. PICK d : d = taken + 1
      OBVIOUS
    <3>3. Filled(Store, L, a, d) /\ q \notin {<<d, 1>>, <<d, 2>>}
      BY <1>4, <2>4, <3>1, <3>2
    <3>4. (Once(Store, q) => Once(L, q)) /\ (Has(L, q) <=> Has(Store, q))
      BY <1>1, <1>2, <3>3, FilledKeeps
    <3>5. (c > taken' <=> c > taken) /\ (c <= taken' <=> c <= taken)
      BY <1>1, <2>4
    <3> QED BY <1>1, <2>1, <2>2, <3>4, <3>5 DEF OnePlace, q
  <2>5. CASE taken < MaxChunks /\ c = taken + 1
    <3>1. q \in {<<c, 1>>, <<c, 2>>}
      BY DEF q
    <3>2. c > taken
      BY <1>1, <2>5
    <3>3. ~Has(Store, q) /\ received[c] = 0
      BY <1>1, <3>2 DEF OnePlace, q
    <3>4. Filled(Store, L, a, c)
      BY <1>4, <2>5
    <3>5. Once(L, q) /\ Has(L, q)
      BY <1>1, <1>2, <3>1, <3>3, <3>4, FilledKeeps
    <3>6. ~(c > taken')
      BY <1>1, <2>5
    <3> QED BY <1>1, <2>2, <3>3, <3>5, <3>6 DEF OnePlace, q
  <2> QED BY <2>3, <2>4, <2>5
<1> QED
  BY <1>1, <1>3, <1>4, SendFlow

LEMMA ChunkRest ==
  ASSUME ChunkInv, TypeOK', NEW n \in Connections, SendRest(n), NEW c \in Chunk, NEW h \in 1..2
  PROVE  OnePlace(c, h)'
<1> DEFINE q == <<c, h>>
<1>1. /\ TypeOK /\ Shape /\ OnePlace(c, h)
      /\ UNCHANGED <<peer, broken, received, taken>>
  BY DEF ChunkInv, SendRest
<1>2. Store \in Lines /\ Store' \in Lines
  BY <1>1, StoreTyped, StoreTypedNext
<1>3. q[2] # 0
  OBVIOUS
<1>4. ASSUME ~Calm', NEW a \in Keys, NEW d \in 0..Len(Store[a]), Dropped(Store, Store', a, d)
      PROVE  OnePlace(c, h)'
  <2> HIDE DEF q
  <2>1. (Once(Store, q) => Once(Store', q)) /\ (Has(Store', q) => Has(Store, q))
    BY <1>2, <1>3, <1>4, DroppedKeeps
  <2> QED BY <1>1, <1>4, <2>1, OnePlaceKept DEF q
<1>5. ASSUME UNCHANGED thread, NEW r \in Connections, NEW k \in 0..Len(Store[<<"unsent", n>>]),
             Moved(Store, Store', <<"data", r>>, <<"unsent", n>>, k)
      PROVE  OnePlace(c, h)'
  <2>1. Calm' => Calm
    BY <1>1, <1>5, CalmSame
  <2>2. <<"data", r>> \in Keys /\ <<"unsent", n>> \in Keys /\ <<"data", r>> # <<"unsent", n>>
    BY <1>1, KeyTyped
  <2> HIDE DEF q
  <2>3. (Once(Store, q) => Once(Store', q)) /\ (Has(Store, q) <=> Has(Store', q))
    BY <1>2, <1>5, <2>2, MovedKeeps
  <2> QED BY <1>1, <2>1, <2>3, OnePlaceKept DEF q
<1> QED
  BY <1>1, <1>4, <1>5, RestFlow

(* A chunk is passed on when both its halves are the first that a thread   *)
(* has, and leaves with them.                                              *)
LEMMA ChunkReceive ==
  ASSUME ChunkInv, TypeOK', NEW n \in Connections, ReceiveChunk(n), NEW c \in Chunk, NEW h \in 1..2
  PROVE  OnePlace(c, h)'
<1> DEFINE q == <<c, h>>
           a == <<"held", n>>
<1>1. /\ TypeOK /\ Shape /\ FramedInv /\ OnePlace(c, h) /\ a \in Keys
      /\ UNCHANGED <<peer, broken, taken>> /\ Other(sending) \in End
  <2>1. TypeOK /\ Shape /\ FramedInv /\ OnePlace(c, h)
    BY DEF ChunkInv
  <2>2. a \in Keys
    BY <2>1, KeyTyped
  <2>3. UNCHANGED <<peer, broken, taken>> /\ Other(sending) \in End
    BY <2>1 DEF ReceiveChunk, Other, End, TypeOK
  <2> QED BY <2>1, <2>2, <2>3
<1>2. Store \in Lines /\ Store' \in Lines
  BY <1>1, StoreTyped, StoreTypedNext
<1>3. q[2] # 0
  OBVIOUS
<1>4. ASSUME ~Undisturbed', UNCHANGED received,
             NEW b \in Keys, NEW d \in 0..Len(Store[b]), Dropped(Store, Store', b, d)
      PROVE  OnePlace(c, h)'
  <2> HIDE DEF q
  <2>1. (Once(Store, q) => Once(Store', q)) /\ (Has(Store', q) => Has(Store, q))
    BY <1>2, <1>3, <1>4, DroppedKeeps
  <2>2. ~Calm'
    BY <1>4 DEF Calm
  <2> QED BY <1>1, <1>4, <2>1, <2>2, OnePlaceKept DEF q
<1>5. ASSUME UNCHANGED thread, thread[n][Other(sending)] = "running",
             NEW r \in Connections, NEW k \in 0..Len(Store[<<"data", r>>]), NEW L \in Lines,
             NEW d \in 0..Len(L[a]), r \in Referred(n, Other(sending)),
             Moved(Store, L, a, <<"data", r>>, k), L[a] # <<>>,
             CutMoves(L, Store', a, d)
      PROVE  OnePlace(c, h)'
  <2>1. Calm' => Calm
    BY <1>1, <1>5, CalmSame
  <2>2. (Once(Store, q) => Once(L, q)) /\ (Has(Store, q) <=> Has(L, q))
    <3>1. <<"data", r>> \in Keys /\ a # <<"data", r>>
      BY <1>1, KeyTyped
    <3> HIDE DEF q, a
    <3> QED BY <1>1, <1>2, <1>5, <3>1, MovedKeeps
  <2>3. Calm' => InStep(L[a])
    <3> SUFFICES ASSUME Calm' PROVE InStep(L[a])
      OBVIOUS
    <3>1. r = n
      BY <1>1, <1>5, <2>1, UsesOwn
    <3> QED BY <1>1, <1>5, <2>1, <3>1, ReadInStep
  <2> HIDE DEF q, a
  <2>4. CASE ~InStep(L[a]) /\ Dropped(L, Store', a, d) /\ UNCHANGED received
    <3>1. (Once(L, q) => Once(Store', q)) /\ (Has(Store', q) => Has(L, q))
      BY <1>1, <1>2, <1>3, <1>5, <2>4, DroppedKeeps
    <3>2. ~Calm'
      BY <2>3, <2>4
    <3> QED BY <1>1, <2>2, <2>4, <3>1, <3>2, OnePlaceKept DEF q
  <2>5. CASE d = 0 /\ Released(L, Store', a, d) /\ UNCHANGED received
    <3>1. \A i \in 1..d : L[a][i] # q
      BY <2>5
    <3>2. (Once(L, q) => Once(Store', q)) /\ (Has(Store', q) <=> Has(L, q))
      BY <1>1, <1>2, <1>5, <2>5, <3>1, ReleasedKeeps
    <3> QED BY <1>1, <2>1, <2>2, <2>5, <3>2, OnePlaceKept DEF q
  <2>6. CASE /\ InStep(L[a]) /\ Len(L[a]) > 2 /\ d = 2 /\ Released(L, Store', a, d)
             /\ Passed(L[a])
    <3>1. PICK p \in Chunk : L[a][1] = <<p, 1>> /\ L[a][2] = <<p, 2>>
      <4>1. L[a] \in Seq(Piece) /\ Len(L[a]) \in Nat
        BY <1>1, LineLen
      <4>2. L[a][1] \in Piece
        BY <2>6, <4>1, ElementOfSeq
      <4>3. L[a][1] = <<L[a][1][1], L[a][1][2]>> /\ L[a][1][1] \in Chunk
        BY <4>2 DEF Piece
      <4> QED BY <2>6, <4>3 DEF InStep
    <3>2. received' = [received EXCEPT ![p] = @ + 1] /\ received \in [Chunk -> Nat]
      BY <1>1, <2>6, <3>1 DEF Passed, TypeOK
    <3>3. CASE c # p
      <4>1. received'[c] = received[c]
        BY <3>2, <3>3
      <4>2. \A i \in 1..d : L[a][i] # q
        <5>1. q # <<p, 1>> /\ q # <<p, 2>>
          BY <3>3 DEF q
        <5>2. \A i \in 1..2 : i = 1 \/ i = 2
          OBVIOUS
        <5> QED BY <2>6, <3>1, <5>1, <5>2
      <4>3. (Once(L, q) => Once(Store', q)) /\ (Has(Store', q) <=> Has(L, q))
        BY <1>1, <1>2, <1>5, <2>6, <4>2, ReleasedKeeps
      <4> QED BY <1>1, <2>1, <2>2, <4>1, <4>3, OnePlaceKept DEF q
    <3>4. CASE c = p
      <4>1. h \in 1..d /\ h \in Nat /\ L[a][h] = q
        <5>1. h = 1 \/ h = 2
          OBVIOUS
        <5> QED BY <2>6, <3>1, <3>4, <5>1 DEF q
      <4>2. Has(L, q)
        <5>1. h \in 1..Len(L[a])
          <6>1. Len(L[a]) \in Nat
            BY <1>1, LineLen
          <6> QED BY <2>6, <6>1
        <5> QED BY <1>1, <4>1, <5>1 DEF Has, Holds
      <4>3. Once(L, q) /\ received[c] = 0 /\ ~(c > taken)
        BY <1>1, <2>2, <4>2 DEF OnePlace, q
      <4>4. ~Has(Store', q)
        BY <1>1, <1>2, <1>5, <2>6, <4>1, <4>3, ReleasedGone
      <4>5. received'[c] = 1
        BY <3>2, <3>4, <4>3
      <4>6. Once(Store', q)
        BY <4>4 DEF Once, Has
      <4> QED BY <1>1, <4>3, <4>4, <4>5, <4>6 DEF OnePlace, q
    <3> QED BY <3>3, <3>4
  <2> QED BY <1>5, <2>4, <2>5, <2>6 DEF CutMoves
<1> QED
  BY <1>1, <1>4, <1>5, ReadFlow

LEMMA ChunkStep == ChunkInv /\ [Next]_vars => ChunkInv'
<1> SUFFICES ASSUME ChunkInv, [Next]_vars PROVE ChunkInv'
  OBVIOUS
<1>1. TypeOK' /\ Shape' /\ FramedInv' /\ TypeOK /\ Shape
  <2>1. TypeOK' /\ TypeOK /\ Shape /\ FramedInv
    BY TypeStep DEF ChunkInv
  <2> QED BY <2>1, ShapeStep, FramedStep
<1> DEFINE Placed == \A c \in Chunk, h \in 1..2 : OnePlace(c, h)'
<1>2. CASE UNCHANGED vars \/ Bind
  <2>1. UNCHANGED <<wires, thread, hands, received, taken>>
    BY <1>2 DEF vars, Bind
  <2> QED BY <1>1, <2>1, CalmSame, StoreStays, ChunkStays DEF wires, hands, ChunkInv, Chunk
<1>3. ASSUME NEW p \in Peers, Connect(p) PROVE Placed
  <2>1. UNCHANGED <<received, taken>>
    BY <1>3 DEF Connect
  <2> QED BY <1>1, <1>3, <2>1, CalmConnect, StoreConnect, ChunkStays
<1>4. ASSUME NEW n \in Connections, Accept(n) PROVE Placed
  <2>1. UNCHANGED <<wires, hands, received, taken>>
    BY <1>4 DEF Accept
  <2> QED BY <1>1, <1>4, <2>1, CalmAccept, StoreStays, ChunkStays DEF wires, hands
<1>5. ASSUME NEW n \in Connections, SendChunk(n) \/ SendRest(n) \/ ReceiveChunk(n) PROVE Placed
  BY <1>1, <1>5, ChunkSend, ChunkRest, ChunkReceive
<1>6. ASSUME NEW n \in Connections, Ends(n) PROVE Placed
  <2>1. ~Calm' /\ UNCHANGED <<peer, data, unsent, held, received, taken>>
    BY <1>1, <1>6, EndsDisturb DEF Calm, hands
  <2> QED BY <1>1, <2>1, StoreStays, ChunkStays
<1>7. Placed \/ ChunkInv'
  BY <1>2, <1>3, <1>4, <1>5, <1>6 DEF Next, Ends
<1> QED
  BY <1>1, <1>7 DEF ChunkInv, Chunk

(* Whichever threads share a buffer or a socket, and however sends and     *)
(* reads divide the frames, a piece is in one place at most and no chunk   *)
(* is passed on twice; and none is lost before the first reset, end of a   *)
(* thread or second client.                                                *)
THEOREM ChunksAlwaysTracked == Spec => []ChunksTracked
<1>1. ChunkInv => ChunksTracked
  BY OnePlaceCounted
<1> QED
  BY <1>1, ChunkInit, ChunkStep, PTL DEF Spec
==============================================================================

------------------------ MODULE JSONDelivery_proofs ------------------------
(***************************************************************************)
(* Theorems about JSONDelivery, for any fields, capacity, retries and      *)
(* bounds: its types, and that the server is set back by late posts only.  *)
(***************************************************************************)
EXTENDS JSONDelivery, SequenceTheorems, FiniteSetTheorems, TLAPS

-----------------------------------------------------------------------------
(* Types.  TypeOK says of the server that its values were received, which  *)
(* takes that those of all copies on the way were.                         *)

Received == [Fields -> Torn..updates]

TypeInv ==
  /\ updates \in 0..MaxUpdates /\ merging \subseteq Fields
  /\ document \in [Fields -> 0..updates]
  /\ copying \subseteq Fields /\ copy \in Received /\ crashed \in BOOLEAN
  /\ buffer \in Seq(Received) /\ Len(buffer) <= Capacity
  /\ posting \in Received /\ attempt \in 0..MaxRetries + 1
  /\ late \subseteq Received /\ timeouts \in 0..MaxLate
  /\ server \in [Fields -> 0..updates]
  /\ IsFiniteSet(late)

LEMMA Bounds == Capacity \in Nat /\ MaxRetries \in Nat /\ MaxUpdates \in Nat /\ MaxLate \in Nat
BY BoundsAssumption

LEMMA BlankReceived ==
  ASSUME updates \in Nat
  PROVE  Blank \in Received /\ Blank \in [Fields -> 0..updates]
BY DEF Blank, Absent, Received, Torn

(* Sequences over a set are sequences over a larger one.                   *)
LEMMA SeqSubset ==
  ASSUME NEW S, NEW T, S \subseteq T, NEW s \in Seq(S)
  PROVE  s \in Seq(T)
<1>1. s \in [1..Len(s) -> S] /\ Len(s) \in Nat
  OBVIOUS
<1>2. s \in [1..Len(s) -> T]
  BY <1>1
<1> QED  BY <1>1, <1>2

LEMMA TypeImplied == TypeInv => TypeOK
<1> SUFFICES ASSUME TypeInv PROVE TypeOK
  OBVIOUS
<1>1. updates \in Nat /\ updates <= MaxUpdates /\ MaxUpdates \in Nat
  BY Bounds DEF TypeInv
<1>2. Torn..updates \subseteq Value
  BY <1>1 DEF Value, Torn
<1>3. Received \subseteq Document
  BY <1>2 DEF Received, Document
<1>4. 0..updates \subseteq Torn..updates
  BY <1>1 DEF Torn
<1>5. document \in Document
  BY <1>2, <1>4 DEF TypeInv, Document
<1>6. buffer \in Seq(Document)
  BY <1>3, SeqSubset DEF TypeInv
<1> QED  BY <1>3, <1>5, <1>6 DEF TypeInv, TypeOK

(* A value assigned to a field of a document leaves a document.            *)
LEMMA DocumentExcept ==
  ASSUME NEW V, NEW d \in [Fields -> V], NEW g, NEW v, g \in Fields => v \in V
  PROVE  [d EXCEPT ![g] = v] \in [Fields -> V]
<1>1. ASSUME NEW f \in Fields PROVE [d EXCEPT ![g] = v][f] \in V
  <2>1. CASE f = g
    BY <2>1
  <2>2. CASE f # g
    BY <2>2
  <2> QED  BY <2>1, <2>2
<1> QED  BY <1>1

LEMMA TypeInit == Init => TypeInv
<1> SUFFICES ASSUME Init PROVE TypeInv
  OBVIOUS
<1>1. updates \in Nat
  BY DEF Init
<1>2. Blank \in Received /\ Blank \in [Fields -> 0..updates]
  BY <1>1, BlankReceived
<1>3. IsFiniteSet(late)
  BY FS_EmptySet DEF Init
<1>4. buffer \in Seq(Received) /\ Len(buffer) = 0
  BY DEF Init
<1>5. document \in [Fields -> 0..updates] /\ copy \in Received /\ posting \in Received
  BY <1>2 DEF Init
<1>6. server \in [Fields -> 0..updates]
  BY <1>2 DEF Init
<1>7. updates \in 0..MaxUpdates /\ attempt \in 0..MaxRetries + 1 /\ timeouts \in 0..MaxLate
  BY Bounds DEF Init
<1>8. Len(buffer) <= Capacity
  BY <1>4, Bounds
<1>9. merging \subseteq Fields /\ copying \subseteq Fields /\ crashed \in BOOLEAN /\ late \subseteq Received
  BY DEF Init
<1> QED  BY <1>3, <1>4, <1>5, <1>6, <1>7, <1>8, <1>9 DEF TypeInv

-----------------------------------------------------------------------------
(* The accumulator.                                                        *)

LEMMA TypeReceiveDocument == TypeInv /\ ReceiveDocument => TypeInv'
<1> SUFFICES ASSUME TypeInv, ReceiveDocument PROVE TypeInv'
  OBVIOUS
<1>1. updates \in Nat /\ updates' \in 0..MaxUpdates /\ updates' = updates + 1
  BY Bounds DEF TypeInv, ReceiveDocument
<1>2. 0..updates \subseteq 0..updates' /\ Torn..updates \subseteq Torn..updates'
  BY <1>1 DEF Torn
<1>3. Received \subseteq Received'
  BY <1>2 DEF Received, Torn
<1>4. buffer' \in Seq(Received')
  BY <1>3, SeqSubset DEF TypeInv, ReceiveDocument, client
<1>5. document' \in [Fields -> 0..updates'] /\ server' \in [Fields -> 0..updates']
  BY <1>2 DEF TypeInv, ReceiveDocument, network
<1>6. merging' \subseteq Fields
  BY DEF ReceiveDocument
<1> QED  BY <1>1, <1>3, <1>4, <1>5, <1>6 DEF TypeInv, ReceiveDocument, client, network

LEMMA TypeAssignField == TypeInv /\ AssignField => TypeInv'
<1> SUFFICES ASSUME TypeInv, AssignField PROVE TypeInv'
  OBVIOUS
<1>1. updates \in Nat /\ updates' = updates /\ document \in [Fields -> 0..updates]
  BY DEF TypeInv, AssignField
<1>2. document' \in [Fields -> 0..updates']
  <2>1. updates \in 0..updates
    BY <1>1
  <2>2. document' = [document EXCEPT ![Assigned] = updates]
    BY DEF AssignField
  <2> QED  BY <1>1, <2>1, <2>2, DocumentExcept
<1>3. merging' \subseteq Fields
  BY DEF TypeInv, AssignField
<1>4. Received' = Received
  BY <1>1 DEF Received, Torn
<1> QED  BY <1>1, <1>2, <1>3, <1>4 DEF TypeInv, AssignField, client, network

LEMMA TypeWake == TypeInv /\ Wake => TypeInv'
BY DEF TypeInv, Wake, Received, Torn, client, network

(* What may be read of a field: its value, one half replaced, or nothing.  *)
LEMMA ValuesTyped ==
  ASSUME TypeInv, NEW g \in Fields, NEW v \in ValuesRead(g)
  PROVE  v \in Torn..updates /\ (v = document[g] \/ v <= 0)
<1>1. v \in {document[g], Torn, Absent}
  BY DEF ValuesRead
<1> QED  BY <1>1 DEF TypeInv, Torn, Absent

LEMMA TypePass ==
  ASSUME TypeInv, updates' = updates, NEW c \in Received, Pass(c)
  PROVE  copy' \in Received /\ buffer' \in Seq(Received) /\ Len(buffer') <= Capacity
<1>1. copy' \in Received
  BY BlankReceived DEF TypeInv, Pass
<1>2. buffer' \in Seq(Received) /\ Len(buffer') <= Capacity
  BY Bounds DEF TypeInv, Pass
<1> QED  BY <1>1, <1>2

LEMMA TypeCopyField == TypeInv /\ CopyField => TypeInv'
<1> SUFFICES ASSUME TypeInv, CopyField PROVE TypeInv'
  OBVIOUS
<1>1. updates' = updates /\ Received' = Received
  BY DEF CopyField, network, Received, Torn
<1> DEFINE m == Min(copying)
<1>2. PICK v \in ValuesRead(m) :
        \/ Cardinality(copying) = 1 /\ Pass([copy EXCEPT ![m] = v])
        \/ Cardinality(copying) > 1 /\ copy' = [copy EXCEPT ![m] = v] /\ UNCHANGED buffer
  BY DEF CopyField
<1>3. [copy EXCEPT ![m] = v] \in Received
  <2>1. m \in Fields => v \in Torn..updates
    BY <1>2, ValuesTyped
  <2>2. copy \in [Fields -> Torn..updates]
    BY DEF TypeInv, Received
  <2> HIDE DEF m
  <2> QED  BY <2>1, <2>2, DocumentExcept DEF Received
<1>4. copy' \in Received /\ buffer' \in Seq(Received) /\ Len(buffer') <= Capacity
  <2> HIDE DEF m
  <2>1. CASE Pass([copy EXCEPT ![m] = v])
    BY <1>1, <1>3, <2>1, TypePass
  <2>2. CASE copy' = [copy EXCEPT ![m] = v] /\ UNCHANGED buffer
    BY <1>3, <2>2 DEF TypeInv
  <2> QED  BY <1>2, <2>1, <2>2
<1>5. copying' \subseteq Fields
  BY DEF TypeInv, CopyField
<1> QED  BY <1>1, <1>4, <1>5 DEF TypeInv, CopyField, network

LEMMA TypeCopyFreed == TypeInv /\ CopyFreed => TypeInv'
<1> SUFFICES ASSUME TypeInv, CopyFreed PROVE TypeInv'
  OBVIOUS
<1>1. updates' = updates /\ Received' = Received /\ updates \in Nat
  BY DEF TypeInv, CopyFreed, network, Received, Torn
<1>2. Blank \in Received /\ Blank \in [Fields -> 0..updates]
  BY <1>1, BlankReceived
<1>3. <<>> \in Seq(Received) /\ Len(<<>>) = 0
  OBVIOUS
<1> QED  BY Bounds, <1>1, <1>2, <1>3 DEF TypeInv, CopyFreed, Done, network

-----------------------------------------------------------------------------
(* The post module and the server.                                         *)

LEMMA TypeTakeDocument == TypeInv /\ TakeDocument => TypeInv'
<1> SUFFICES ASSUME TypeInv, TakeDocument PROVE TypeInv'
  OBVIOUS
<1>1. updates' = updates /\ Received' = Received
  BY DEF TakeDocument, accumulator, Received, Torn
<1>2. Head(buffer) \in Received /\ Tail(buffer) \in Seq(Received) /\ Len(Tail(buffer)) <= Capacity
  BY Bounds DEF TypeInv, TakeDocument
<1> QED  BY Bounds, <1>1, <1>2 DEF TypeInv, TakeDocument, accumulator, network

LEMMA TypeRetry ==
  ASSUME TypeInv, Retry
  PROVE  /\ posting' \in Received /\ attempt' \in 0..MaxRetries + 1 /\ buffer' = buffer
         /\ posting' = posting \/ posting' = Blank
BY Bounds, BlankReceived DEF TypeInv, Retry, Done

LEMMA TypeArrives ==
  ASSUME TypeInv, NEW d \in Received, Arrives(d)
  PROVE  server' \in [Fields -> 0..updates]
<1>1. ASSUME NEW f \in Fields
      PROVE  (IF d[f] \in {Absent, Torn} THEN server[f] ELSE d[f]) \in 0..updates
  BY DEF TypeInv, Received, Absent, Torn
<1> QED  BY <1>1 DEF Arrives

LEMMA TypeSendBody == TypeInv /\ SendBody => TypeInv'
<1> SUFFICES ASSUME TypeInv, SendBody PROVE TypeInv'
  OBVIOUS
<1>1. accumulator' = accumulator /\ Received' = Received
  BY DEF SendBody, PostSucceeds, PostFails, AnswerLost, PostTimesOut, accumulator, Received, Torn
<1>2. /\ posting' \in Received /\ attempt' \in 0..MaxRetries + 1 /\ buffer' = buffer
  <2>1. PostSucceeds => posting' = Blank /\ attempt' = 0 /\ buffer' = buffer
    BY DEF PostSucceeds, Done
  <2>2. Blank \in Received
    BY BlankReceived DEF TypeInv
  <2> QED  BY Bounds, <2>1, <2>2, TypeRetry DEF SendBody, PostFails, AnswerLost, PostTimesOut
<1>3. server' \in [Fields -> 0..updates]
  <2>1. server' = server \/ Arrives(posting)
    BY DEF SendBody, PostSucceeds, PostFails, AnswerLost, PostTimesOut, network
  <2> QED  BY <2>1, TypeArrives DEF TypeInv
<1>4. late' \subseteq Received /\ timeouts' \in 0..MaxLate /\ IsFiniteSet(late')
  <2>1. \/ late' = late /\ timeouts' = timeouts
        \/ late' = late \cup {posting} /\ timeouts' = timeouts + 1 /\ timeouts < MaxLate
    BY DEF SendBody, PostSucceeds, PostFails, AnswerLost, PostTimesOut, network
  <2>2. IsFiniteSet(late) /\ IsFiniteSet(late \cup {posting})
    BY FS_AddElement DEF TypeInv
  <2>3. late \subseteq Received /\ late \cup {posting} \subseteq Received
    BY DEF TypeInv
  <2>4. IsFiniteSet(late') /\ late' \subseteq Received
    BY <2>1, <2>2, <2>3, Zenon
  <2>5. timeouts' \in 0..MaxLate
    BY Bounds, <2>1 DEF TypeInv
  <2> QED  BY <2>4, <2>5, <1>1
<1> QED  BY <1>1, <1>2, <1>3, <1>4 DEF TypeInv, accumulator

LEMMA TypeArrivesLate ==
  ASSUME TypeInv, NEW d \in late, ArrivesLate(d)
  PROVE  TypeInv'
<1>1. accumulator' = accumulator /\ client' = client /\ Received' = Received
  BY DEF ArrivesLate, accumulator, client, Received, Torn
<1>2. server' \in [Fields -> 0..updates]
  BY TypeArrives DEF TypeInv, ArrivesLate
<1>3. late' \subseteq Received /\ IsFiniteSet(late')
  BY FS_RemoveElement DEF TypeInv, ArrivesLate
<1> QED  BY <1>1, <1>2, <1>3 DEF TypeInv, ArrivesLate, accumulator, client

LEMMA TypeStutter == TypeInv /\ UNCHANGED vars => TypeInv'
BY DEF TypeInv, vars, accumulator, client, network, Received, Torn

LEMMA TypeStep == TypeInv /\ [Next]_vars => TypeInv'
BY TypeReceiveDocument, TypeAssignField, TypeWake, TypeCopyField, TypeCopyFreed,
   TypeTakeDocument, TypeSendBody, TypeArrivesLate, TypeStutter
DEF Next, Process_JSONChunk, WaitAndSendJSONDocuments

(* The state of both modules and of the server is well typed: in           *)
(* particular no copy, post or server has a value that was not received,   *)
(* and the buffer of HTTPPostModule never holds more than it may           *)
(* (JSONStateAccumulatorModule.cpp:26-76, HTTPPostModule.cpp:36-107).      *)
THEOREM TypeCorrect == FairSpec => []TypeOK
<1>1. Init => TypeInv
  BY TypeInit
<1>2. TypeInv /\ [Next]_vars => TypeInv'
  BY TypeStep
<1>3. TypeInv => TypeOK
  BY TypeImplied
<1> QED  BY <1>1, <1>2, <1>3, PTL DEF FairSpec

-----------------------------------------------------------------------------
(* Order.  Values of a field get older along the way to the server.        *)

Before(d, e) == \A f \in Fields : d[f] > 0 /\ e[f] > 0 => d[f] <= e[f]

(* d is older than whatever will be posted after it.                       *)
BeforeWaiting(d) ==
  /\ \A i \in 1..Len(buffer) : Before(d, buffer[i])
  /\ Before(d, copy)
  /\ Before(d, document)

InOrder ==
  /\ \A d \in late : Before(d, posting) /\ BeforeWaiting(d)
  /\ Before(server, posting) /\ BeforeWaiting(server)
  /\ BeforeWaiting(posting)
  /\ \A i, j \in 1..Len(buffer) : i < j => Before(buffer[i], buffer[j])
  /\ \A i \in 1..Len(buffer) : Before(buffer[i], copy) /\ Before(buffer[i], document)
  /\ Before(copy, document)

(* A process that crashed posts nothing any more.                          *)
OrderInv == ~crashed => InOrder

(* Nothing is older or newer than what has no values.                      *)
LEMMA BeforeBlank == \A d : Before(d, Blank) /\ Before(Blank, d)
BY DEF Before, Blank, Absent

LEMMA BeforeItself == \A d \in Received : Before(d, d)
BY DEF Before, Received, Torn

(* What was received before the last document is older than what it leaves. *)
LEMMA BeforeAssigned ==
  ASSUME TypeInv, AssignField, NEW d \in Received, Before(d, document)
  PROVE  Before(d, document')
<1> SUFFICES ASSUME NEW f \in Fields, d[f] > 0, document'[f] > 0
             PROVE  d[f] <= document'[f]
  BY DEF Before
<1>1. document'[f] = IF f = Assigned THEN updates ELSE document[f]
  BY DEF TypeInv, AssignField
<1>2. d[f] <= updates
  BY DEF TypeInv, Received, Torn
<1> QED  BY <1>1, <1>2 DEF Before

(* A copy with one field more is between the same documents.               *)
LEMMA BeforeCopied ==
  ASSUME TypeInv, NEW g, NEW v \in ValuesRead(g), NEW d \in Received,
         Before(d, copy), Before(d, document)
  PROVE  Before(d, [copy EXCEPT ![g] = v])
<1> SUFFICES ASSUME NEW f \in Fields, d[f] > 0, [copy EXCEPT ![g] = v][f] > 0
             PROVE  d[f] <= [copy EXCEPT ![g] = v][f]
  BY DEF Before
<1>1. [copy EXCEPT ![g] = v][f] = IF f = g THEN v ELSE copy[f]
  BY DEF TypeInv, Received
<1>2. CASE f = g
  <2>1. v \in Int /\ (v = document[f] \/ v <= 0)
    BY <1>2, ValuesTyped DEF TypeInv, Torn
  <2>2. document[f] \in Int
    BY DEF TypeInv
  <2> QED  BY <1>1, <1>2, <2>1, <2>2 DEF Before
<1>3. CASE f # g
  BY <1>1, <1>3 DEF Before
<1> QED  BY <1>2, <1>3

LEMMA CopiedBefore ==
  ASSUME TypeInv, NEW g, NEW v \in ValuesRead(g), Before(copy, document)
  PROVE  Before([copy EXCEPT ![g] = v], document)
<1> SUFFICES ASSUME NEW f \in Fields, [copy EXCEPT ![g] = v][f] > 0, document[f] > 0
             PROVE  [copy EXCEPT ![g] = v][f] <= document[f]
  BY DEF Before
<1>1. [copy EXCEPT ![g] = v][f] = IF f = g THEN v ELSE copy[f]
  BY DEF TypeInv, Received
<1>2. CASE f = g
  <2>1. v \in Int /\ (v = document[f] \/ v <= 0)
    BY <1>2, ValuesTyped DEF TypeInv, Torn
  <2>2. document[f] \in Int
    BY DEF TypeInv
  <2> QED  BY <1>1, <1>2, <2>1, <2>2
<1>3. CASE f # g
  BY <1>1, <1>3 DEF Before
<1> QED  BY <1>2, <1>3

(* The server is then before what it and the document that arrived were.   *)
LEMMA ArrivedBefore ==
  ASSUME NEW d, NEW e, Arrives(d), Before(server, e), Before(d, e)
  PROVE  Before(server', e)
BY DEF Arrives, Before

(* A document that does not overtake leaves no value older.                *)
LEMMA ArrivesForward ==
  ASSUME TypeInv, NEW d \in Received, Arrives(d), Before(server, d), NEW f \in Fields
  PROVE  server[f] <= server'[f]
<1>1. server[f] \in Nat /\ d[f] \in Torn..updates /\ updates \in Nat
  BY DEF TypeInv, Received
<1>2. server'[f] = IF d[f] \in {Absent, Torn} THEN server[f] ELSE d[f]
  BY DEF Arrives
<1> QED  BY <1>1, <1>2 DEF Before, Absent, Torn

-----------------------------------------------------------------------------
(* Each step keeps the order.                                              *)

LEMMA OrderSame ==
  ASSUME InOrder, UNCHANGED <<document, copy, buffer, posting, late, server>>
  PROVE  InOrder'
BY DEF InOrder, BeforeWaiting, Before

LEMMA OrderAssignField ==
  ASSUME TypeInv, InOrder, AssignField
  PROVE  InOrder'
<1>1. UNCHANGED <<copy, buffer, posting, late, server>>
  BY DEF AssignField, client, network
<1>2. /\ \A i \in 1..Len(buffer) : buffer[i] \in Received
      /\ copy \in Received /\ posting \in Received /\ server \in Received
      /\ late \subseteq Received
  BY DEF TypeInv, Received, Torn
<1>3. \A d \in Received : Before(d, document) => Before(d, document')
  BY BeforeAssigned
<1>4. \A d \in Received : BeforeWaiting(d) => BeforeWaiting(d)'
  BY <1>1, <1>3 DEF BeforeWaiting, Before
<1>5. \A i, j \in 1..Len(buffer) : i < j => Before(buffer[i], buffer[j])'
  BY <1>1 DEF InOrder, Before
<1>6. \A i \in 1..Len(buffer) : Before(buffer[i], copy)' /\ Before(buffer[i], document')
  BY <1>1, <1>2, <1>3 DEF InOrder, Before
<1>7. Before(copy, document') /\ Before(server, posting) /\ \A d \in late : Before(d, posting)
  BY <1>2, <1>3 DEF InOrder
<1>8. /\ \A d \in late : BeforeWaiting(d)'
      /\ BeforeWaiting(server)' /\ BeforeWaiting(posting)'
  BY <1>1, <1>2, <1>4 DEF InOrder, BeforeWaiting, Before
<1> QED  BY <1>1, <1>5, <1>6, <1>7, <1>8 DEF InOrder, Before

LEMMA OrderCopyField ==
  ASSUME TypeInv, InOrder, CopyField
  PROVE  InOrder'
<1> DEFINE m == Min(copying)
<1>1. PICK v \in ValuesRead(m) :
        \/ Cardinality(copying) = 1 /\ Pass([copy EXCEPT ![m] = v])
        \/ Cardinality(copying) > 1 /\ copy' = [copy EXCEPT ![m] = v] /\ UNCHANGED buffer
  BY DEF CopyField
<1> DEFINE c == [copy EXCEPT ![m] = v]
<1>2. UNCHANGED <<document, posting, late, server>>
  BY DEF CopyField, network
<1>3. /\ \A i \in 1..Len(buffer) : buffer[i] \in Received
      /\ posting \in Received /\ server \in Received /\ late \subseteq Received
      /\ buffer \in Seq(Received)
  BY DEF TypeInv, Received, Torn
<1> HIDE DEF m
<1>4. \A d \in Received : Before(d, copy) /\ Before(d, document) => Before(d, c)
  BY <1>1, BeforeCopied
<1>5. Before(c, document)
  BY <1>1, CopiedBefore DEF InOrder
<1> HIDE DEF c
<1>6. \A i \in 1..Len(buffer) : Before(buffer[i], c)
  BY <1>3, <1>4 DEF InOrder
(* What is waiting afterwards: the copy, in the buffer or not yet, or      *)
(* neither when it was dropped.                                            *)
<1>7. /\ copy' \in {c, Blank}
      /\ buffer' = buffer \/ (buffer' = Append(buffer, c) /\ copy' = Blank)
  BY <1>1 DEF Pass, c
<1>8. \A d \in Received : BeforeWaiting(d) => BeforeWaiting(d)'
  <2> SUFFICES ASSUME NEW d \in Received, BeforeWaiting(d) PROVE BeforeWaiting(d)'
    OBVIOUS
  <2>1. Before(d, c) /\ Before(d, Blank)
    BY <1>4, BeforeBlank DEF BeforeWaiting
  <2>2. Before(d, copy)' /\ Before(d, document)'
    BY <1>2, <1>7, <2>1 DEF BeforeWaiting, Before
  <2>3. ASSUME NEW i \in 1..Len(buffer') PROVE Before(d, buffer'[i])
    BY <1>3, <1>7, <2>1 DEF BeforeWaiting
  <2> QED  BY <2>2, <2>3 DEF BeforeWaiting, Before
<1>9. \A d \in late : Before(d, posting) /\ BeforeWaiting(d)'
  BY <1>3, <1>8 DEF InOrder
<1>10. Before(server, posting) /\ BeforeWaiting(server)' /\ BeforeWaiting(posting)'
  BY <1>2, <1>3, <1>8 DEF InOrder, BeforeWaiting, Before
<1>11. ASSUME NEW i \in 1..Len(buffer'), NEW j \in 1..Len(buffer'), i < j
       PROVE  Before(buffer'[i], buffer'[j])
  BY <1>3, <1>6, <1>7, <1>11 DEF InOrder
<1>12. ASSUME NEW i \in 1..Len(buffer')
       PROVE  Before(buffer'[i], copy') /\ Before(buffer'[i], document)
  BY <1>3, <1>5, <1>6, <1>7, BeforeBlank DEF InOrder
<1>13. Before(copy', document)
  BY <1>5, <1>7, BeforeBlank
<1> QED  BY <1>2, <1>9, <1>10, <1>11, <1>12, <1>13 DEF InOrder, Before

LEMMA OrderTakeDocument ==
  ASSUME TypeInv, InOrder, TakeDocument
  PROVE  InOrder'
<1>1. UNCHANGED <<document, copy, late, server>>
  BY DEF TakeDocument, accumulator, network
<1>2. /\ buffer \in Seq(Received) /\ Len(buffer) \in Nat \ {0}
      /\ posting' = buffer[1] /\ Len(buffer') = Len(buffer) - 1
      /\ \A i \in 1..Len(buffer') : buffer'[i] = buffer[i + 1]
  BY DEF TypeInv, TakeDocument
<1>3. \A i \in 1..Len(buffer') : i + 1 \in 1..Len(buffer) /\ 1 < i + 1
  BY <1>2
<1>4. \A d : BeforeWaiting(d) => BeforeWaiting(d)' /\ Before(d, posting')
  BY <1>1, <1>2, <1>3 DEF BeforeWaiting, Before
<1>5. BeforeWaiting(posting)'
  <2>1. \A i \in 1..Len(buffer') : Before(posting', buffer'[i])
    BY <1>2, <1>3 DEF InOrder
  <2>2. Before(posting', copy) /\ Before(posting', document)
    BY <1>2 DEF InOrder
  <2> QED  BY <1>1, <2>1, <2>2 DEF BeforeWaiting, Before
<1>6. \A d \in late : Before(d, posting') /\ BeforeWaiting(d)'
  BY <1>4 DEF InOrder
<1>7. Before(server, posting') /\ BeforeWaiting(server)'
  BY <1>1, <1>4 DEF InOrder, BeforeWaiting, Before
<1>8. \A i, j \in 1..Len(buffer') : i < j => Before(buffer'[i], buffer'[j])
  <2> SUFFICES ASSUME NEW i \in 1..Len(buffer'), NEW j \in 1..Len(buffer'), i < j
               PROVE  Before(buffer'[i], buffer'[j])
    OBVIOUS
  <2> QED  BY <1>2, <1>3 DEF InOrder
<1>9. \A i \in 1..Len(buffer') : Before(buffer'[i], copy) /\ Before(buffer'[i], document)
  BY <1>2, <1>3 DEF InOrder
<1> QED  BY <1>1, <1>5, <1>6, <1>7, <1>8, <1>9 DEF InOrder, Before

(* The document posted may be put among the late ones, be taken by the     *)
(* server, be kept for another attempt, or be done with.                   *)
LEMMA OrderSendBody ==
  ASSUME TypeInv, InOrder, SendBody
  PROVE  InOrder'
<1>1. UNCHANGED <<document, copy, buffer>>
  BY DEF SendBody, PostSucceeds, PostFails, AnswerLost, PostTimesOut, Retry, Done, accumulator
<1>2. posting' \in {posting, Blank}
  BY DEF SendBody, PostSucceeds, PostFails, AnswerLost, PostTimesOut, Retry, Done
<1>3. server' = server \/ Arrives(posting)
  BY DEF SendBody, PostSucceeds, PostFails, AnswerLost, PostTimesOut, network
<1>4. late' \subseteq late \cup {posting}
  BY DEF SendBody, PostSucceeds, PostFails, AnswerLost, PostTimesOut, network
<1>5. Before(posting, posting)
  BY BeforeItself DEF TypeInv
<1>6. \A d : BeforeWaiting(d) => BeforeWaiting(d)'
  BY <1>1 DEF BeforeWaiting, Before
<1>7. Before(server', posting) /\ BeforeWaiting(server')
  BY <1>3, <1>5, ArrivedBefore DEF InOrder, BeforeWaiting
<1>8. Before(server', posting') /\ BeforeWaiting(server)'
  BY <1>1, <1>2, <1>7, BeforeBlank DEF BeforeWaiting, Before
<1>9. BeforeWaiting(posting)'
  <2>1. BeforeWaiting(Blank)
    BY BeforeBlank DEF BeforeWaiting
  <2>2. BeforeWaiting(posting')
    BY <1>2, <2>1 DEF InOrder
  <2> QED  BY <1>1, <2>2 DEF BeforeWaiting, Before
<1>10. \A d \in late' : Before(d, posting') /\ BeforeWaiting(d)'
  BY <1>2, <1>4, <1>5, <1>6, BeforeBlank DEF InOrder
<1> QED  BY <1>1, <1>8, <1>9, <1>10 DEF InOrder, Before

LEMMA OrderArrivesLate ==
  ASSUME TypeInv, InOrder, NEW d \in late, ArrivesLate(d)
  PROVE  InOrder'
<1>1. UNCHANGED <<document, copy, buffer, posting>> /\ late' \subseteq late
  BY DEF ArrivesLate, accumulator, client
<1>2. Before(server', posting) /\ BeforeWaiting(server')
  BY ArrivedBefore DEF ArrivesLate, InOrder, BeforeWaiting
<1>3. BeforeWaiting(server)'
  BY <1>1, <1>2 DEF BeforeWaiting, Before
<1>4. \A e : BeforeWaiting(e) => BeforeWaiting(e)'
  BY <1>1 DEF BeforeWaiting, Before
<1>5. BeforeWaiting(posting)'
  BY <1>1 DEF InOrder, BeforeWaiting, Before
<1> QED  BY <1>1, <1>2, <1>3, <1>4, <1>5 DEF InOrder, Before

LEMMA OrderStep == TypeInv /\ OrderInv /\ [Next]_vars => OrderInv'
<1> SUFFICES ASSUME TypeInv, OrderInv, [Next]_vars, ~crashed' PROVE InOrder'
  BY DEF OrderInv
<1>1. ~crashed
  BY DEF Next, Process_JSONChunk, ReceiveDocument, AssignField, WaitAndSendJSONDocuments, Wake,
         CopyField, CopyFreed, TakeDocument, SendBody, PostSucceeds, PostFails, AnswerLost,
         PostTimesOut, Posting, ArrivesLate, accumulator, vars
<1>2. InOrder
  BY <1>1 DEF OrderInv
<1>3. CASE ReceiveDocument \/ Wake \/ UNCHANGED vars
  BY <1>2, <1>3, OrderSame DEF ReceiveDocument, Wake, vars, accumulator, client, network
<1>4. CASE AssignField
  BY <1>2, <1>4, OrderAssignField
<1>5. CASE CopyField
  BY <1>2, <1>5, OrderCopyField
<1>6. CASE CopyFreed
  BY <1>6 DEF CopyFreed
<1>7. CASE TakeDocument
  BY <1>2, <1>7, OrderTakeDocument
<1>8. CASE SendBody
  BY <1>2, <1>8, OrderSendBody
<1>9. ASSUME NEW d \in late, ArrivesLate(d) PROVE InOrder'
  BY <1>2, <1>9, OrderArrivesLate
<1> QED  BY <1>3, <1>4, <1>5, <1>6, <1>7, <1>8, <1>9
         DEF Next, Process_JSONChunk, WaitAndSendJSONDocuments

LEMMA OrderInit == Init => OrderInv
<1> SUFFICES ASSUME Init PROVE InOrder
  BY DEF OrderInv
<1>1. \A d : BeforeWaiting(d) <=> Before(d, Blank)
  BY DEF Init, BeforeWaiting
<1> QED  BY <1>1, BeforeBlank DEF Init, InOrder

(* A step that gives the server an older value is a late post's.           *)
LEMMA ForwardStep ==
  ASSUME TypeInv, OrderInv, [Next]_vars, NEW f \in Fields, server'[f] < server[f]
  PROVE  Cardinality(late') < Cardinality(late)
<1>1. server[f] \in Nat
  BY DEF TypeInv
<1>2. CASE UNCHANGED server
  BY <1>1, <1>2
<1>3. CASE SendBody
  <2>1. ~crashed
    BY <1>3 DEF SendBody, PostSucceeds, PostFails, AnswerLost, PostTimesOut, Posting
  <2>2. server' = server \/ Arrives(posting)
    BY <1>3 DEF SendBody, PostSucceeds, PostFails, AnswerLost, PostTimesOut, network
  <2>3. Arrives(posting) => server[f] <= server'[f] /\ server'[f] \in Nat
    BY <2>1, ArrivesForward, TypeArrives DEF OrderInv, InOrder, TypeInv
  <2> QED  BY <1>1, <2>2, <2>3
<1>4. ASSUME NEW d \in late, ArrivesLate(d)
      PROVE  Cardinality(late') < Cardinality(late)
  <2>1. late' = late \ {d}
    BY <1>4 DEF ArrivesLate
  <2>2. IsFiniteSet(late)
    BY DEF TypeInv
  <2>3. Cardinality(late \ {d}) = Cardinality(late) - 1 /\ Cardinality(late) \in Nat
    BY <1>4, <2>2, FS_RemoveElement, FS_CardinalityType
  <2> QED  BY <2>1, <2>3
<1> QED
  BY <1>2, <1>3, <1>4
  DEF Next, Process_JSONChunk, ReceiveDocument, AssignField, WaitAndSendJSONDocuments, Wake,
      CopyField, CopyFreed, TakeDocument, network, vars

(* However copies, retries, lost answers and a full buffer interleave, the *)
(* server goes back to an older value of a field only when a post given up *)
(* as timed out arrives: everything else is posted in the order in which   *)
(* the values were received (HTTPPostModule.cpp:43-51,                     *)
(* JSONStateAccumulatorModule.cpp:36-50).                                  *)
THEOREM ServerOnlySetBackLate == FairSpec => ServerNotSetBack
<1>1. TypeInv /\ OrderInv /\ [Next]_vars =>
        [(\E f \in Fields : server'[f] < server[f]) => Cardinality(late') < Cardinality(late)]_vars
  BY ForwardStep
<1>2. FairSpec => [](TypeInv /\ OrderInv)
  BY TypeInit, TypeStep, OrderInit, OrderStep, PTL DEF FairSpec
<1> QED
  BY <1>1, <1>2, PTL DEF FairSpec, ServerNotSetBack
=============================================================================

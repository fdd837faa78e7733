------------------------ MODULE TimeChunkSync_proofs ------------------------
(***************************************************************************)
(* Proofs about TimeChunkSync, for every set of sources, every rates and   *)
(* every bounds: type correctness, the agreement of the module's maps, the *)
(* spacing of emissions, and how far the map of oldest timestamps lags     *)
(* behind the queues.                                                      *)
(***************************************************************************)
EXTENDS TimeChunkSync, TLAPS, FiniteSetTheorems, SequenceTheorems

-----------------------------------------------------------------------------
(* Choosing the latest start and the first source is choosing a maximal    *)
(* element of a finite set.                                                *)

LEMMA MaximalExists ==
  ASSUME NEW D, IsFiniteSet(D), D # {}, NEW R,
         \A d \in D : <<d, d>> \notin R,
         \A d, e, g \in D : <<d, e>> \in R /\ <<e, g>> \in R => <<d, g>> \in R
  PROVE  \E d \in D : \A e \in D : <<d, e>> \notin R
<1> DEFINE Above(d) == {e \in D : <<d, e>> \in R}
           Aboves == {Above(d) : d \in D}
<1>1. IsWellFoundedOn(StrictSubsetOrdering(D), SUBSET D)
  BY FS_StrictSubsetOrderingWellFounded, FS_FiniteSubsetsOfFinite
<1>2. \E U \in Aboves : \A V \in Aboves : ~(<<V, U>> \in StrictSubsetOrdering(D))
  <2>1. PICK d \in D : TRUE
    OBVIOUS
  <2>2. Above(d) \in Aboves
    BY <2>1
  <2>3. ASSUME NEW U \in Aboves PROVE U \in SUBSET D
    <3>1. PICK e \in D : U = {g \in D : <<e, g>> \in R}
      OBVIOUS
    <3> QED
      BY <3>1
  <2> HIDE DEF Aboves
  <2>4. Aboves \subseteq SUBSET D /\ Aboves # {}
    BY <2>2, <2>3
  <2> QED
    BY ONLY <1>1, <2>2, <2>4, WFMin
<1>3. PICK d \in D : \A V \in Aboves : ~(<<V, Above(d)>> \in StrictSubsetOrdering(D))
  BY <1>2
<1>4. ASSUME NEW e \in D, <<d, e>> \in R PROVE FALSE
  <2>1. Above(e) \subseteq Above(d)
    BY <1>4
  <2>2. Above(e) \in Aboves /\ e \in Above(d) /\ e \notin Above(e)
    BY <1>4
  <2>3. <<Above(e), Above(d)>> \in StrictSubsetOrdering(D)
    BY <2>1, <2>2 DEF StrictSubsetOrdering
  <2> QED
    BY <2>3, <2>2, <1>3
<1> QED
  BY <1>4

LEMMA LatestStartType ==
  ASSUME NEW old, IsMapInto(old, Nat), DOMAIN old # {}
  PROVE  /\ LatestStart(old) \in Nat
         /\ \A s \in DOMAIN old : old[s] <= LatestStart(old)
         /\ \E s \in DOMAIN old : LatestStart(old) = old[s]
<1> DEFINE D == DOMAIN old
           R == {de \in D \X D : old[de[1]] < old[de[2]]}
<1>1. IsFiniteSet(D) /\ old \in [D -> Nat]
  BY FS_Subset, SourcesAssumption DEF IsMapInto
<1>2. \A d, e \in D : <<d, e>> \in R <=> old[d] < old[e]
  OBVIOUS
<1> HIDE DEF R
<1>3. \E d \in D : \A e \in D : <<d, e>> \notin R
  <2>1. /\ \A d \in D : <<d, d>> \notin R
        /\ \A d, e, g \in D : <<d, e>> \in R /\ <<e, g>> \in R => <<d, g>> \in R
    BY <1>1, <1>2
  <2> HIDE DEF D
  <2> QED
    BY <1>1, <2>1, MaximalExists DEF D
<1>4. PICK d \in D : \A e \in D : <<d, e>> \notin R
  BY <1>3
<1>5. \A e \in D : old[e] <= old[d]
  <2>1. \A e \in D : ~(old[d] < old[e])
    BY <1>2, <1>4
  <2> QED
    BY <2>1, <1>1
<1> QED
  BY <1>1, <1>4, <1>5 DEF LatestStart

LEMMA FirstSourceType ==
  ASSUME NEW old, IsMapInto(old, Nat), DOMAIN old # {}
  PROVE  FirstSource(old) \in DOMAIN old
<1> DEFINE D == DOMAIN old
           R == {de \in D \X D : de[2] < de[1]}
<1>1. IsFiniteSet(D) /\ D \subseteq Nat
  BY FS_Subset, SourcesAssumption DEF IsMapInto
<1>2. \A d, e \in D : <<d, e>> \in R <=> e < d
  OBVIOUS
<1> HIDE DEF R
<1>3. \E d \in D : \A e \in D : <<d, e>> \notin R
  <2>1. /\ \A d \in D : <<d, d>> \notin R
        /\ \A d, e, g \in D : <<d, e>> \in R /\ <<e, g>> \in R => <<d, g>> \in R
    BY <1>1, <1>2
  <2> HIDE DEF D
  <2> QED
    BY <1>1, <2>1, MaximalExists DEF D
<1>4. PICK d \in D : \A e \in D : <<d, e>> \notin R
  BY <1>3
<1>5. \A e \in D : d <= e
  <2>1. \A e \in D : ~(e < d)
    BY <1>2, <1>4
  <2> QED
    BY <2>1, <1>1
<1> QED
  BY <1>1, <1>4, <1>5 DEF FirstSource

-----------------------------------------------------------------------------
(* What the steps of the handler do to the maps.                           *)

LEMMA PutType ==
  ASSUME NEW V, NEW f, IsMapInto(f, V), NEW s \in Sources, NEW v \in V
  PROVE  /\ IsMapInto(Put(f, s, v), V)
         /\ DOMAIN Put(f, s, v) = DOMAIN f \cup {s}
         /\ Put(f, s, v)[s] = v
         /\ \A x \in DOMAIN f \ {s} : Put(f, s, v)[x] = f[x]
BY DEF Put, IsMapInto

LEMMA EmptyMapType ==
  ASSUME NEW V
  PROVE  IsMapInto(EmptyMap, V) /\ DOMAIN EmptyMap = {}
BY DEF EmptyMap, IsMapInto

LEMMA SamplesPerTick ==
  ASSUME NEW a \in Nat \ {0}, NEW b \in Nat \ {0}
  PROVE  a * b \in Nat \ {0}
OBVIOUS

LEMMA ProductNat ==
  ASSUME NEW a \in Nat, NEW b \in Nat
  PROVE  a * b \in Nat
OBVIOUS

(* The chunk a source sends is well typed and not empty.                   *)
LEMMA NextChunkType ==
  ASSUME TypeOK, NEW s \in Sources
  PROVE  /\ NextChunk(s).src = s
         /\ NextChunk(s).ts \in Nat
         /\ NextChunk(s).rate \in Nat \ {0}
         /\ NextChunk(s).channels \in Layouts
         /\ NextChunk(s).samples \in Seq(Sample)
         /\ Len(NextChunk(s).samples) \in Nat \ {0}
         /\ \A i \in 1..Len(NextChunk(s).samples) :
              NextChunk(s).samples[i].layout = NextChunk(s).channels
<1> DEFINE n == ChunkTicks * Rate[s]
           e(i) == [t |-> clock[s] + ((i - 1) \div Rate[s]), layout |-> layout[s]]
<1>1. Rate[s] \in Nat \ {0} /\ clock[s] \in Nat /\ layout[s] \in Layouts
  BY RateAssumption DEF TypeOK
<1>2. n \in Nat \ {0}
  BY <1>1, SamplesPerTick, DurationsAssumption
<1>3. \A i \in 1..n : e(i) \in Sample
  <2> SUFFICES ASSUME NEW i \in 1..n PROVE (i - 1) \div Rate[s] \in Nat
    BY <1>1 DEF Sample
  <2>1. i - 1 \in Nat
    BY <1>2
  <2> QED
    BY <2>1, <1>1
<1>4. NextChunk(s).samples = [i \in 1..n |-> e(i)]
  BY DEF NextChunk
<1>5. NextChunk(s).samples \in Seq(Sample) /\ Len(NextChunk(s).samples) = n
  <2> HIDE DEF n, e
  <2>1. [i \in 1..n |-> e(i)] \in Seq(Sample)
    BY <1>2, <1>3, IsASeq
  <2>2. DOMAIN [i \in 1..n |-> e(i)] = 1..n
    OBVIOUS
  <2>3. Len([i \in 1..n |-> e(i)]) = n
    BY <2>1, <2>2, <1>2, LenProperties
  <2> QED
    BY <2>1, <2>3, <1>4
<1>6. \A i \in 1..n : NextChunk(s).samples[i].layout = layout[s]
  BY <1>4
<1> QED
  BY <1>1, <1>2, <1>5, <1>6 DEF NextChunk

(* A map of queues as StoresAgree wants it.                                *)
GoodQueue(q) ==
  /\ q \in Queue /\ q.samples # <<>>
  /\ \A i \in 1..Len(q.samples) : q.samples[i].layout = q.channels

GoodQueues(data) ==
  IsMapInto(data, Queue) /\ \A s \in DOMAIN data : GoodQueue(data[s])

LEMMA SuffixElements ==
  ASSUME NEW q \in Seq(Sample), NEW n \in Nat, n < Len(q)
  PROVE  /\ SubSeq(q, n + 1, Len(q)) \in Seq(Sample)
         /\ Len(SubSeq(q, n + 1, Len(q))) = Len(q) - n
         /\ \A i \in 1..Len(q) - n : SubSeq(q, n + 1, Len(q))[i] = q[n + i]
<1>1. Len(q) \in Nat
  BY LenProperties
<1>2. \A i \in n + 1..Len(q) : q[i] \in Sample
  BY <1>1, ElementOfSeq
<1> QED
  BY <1>1, <1>2, SubSeqProperties

LEMMA QueueExcept ==
  ASSUME NEW q \in Queue, NEW v
  PROVE  [q EXCEPT !.samples = v] = [channels |-> q.channels, samples |-> v]
BY DEF Queue

(* Leaving out a proper beginning keeps a queue good.                      *)
LEMMA SuffixGood ==
  ASSUME NEW q, GoodQueue(q), NEW n \in Nat, n < Len(q.samples)
  PROVE  GoodQueue([q EXCEPT !.samples = SubSeq(@, n + 1, Len(@))])
<1> DEFINE sub == SubSeq(q.samples, n + 1, Len(q.samples))
<1>1. q.samples \in Seq(Sample) /\ Len(q.samples) \in Nat
  BY DEF GoodQueue, Queue
<1>2. /\ sub \in Seq(Sample)
      /\ Len(sub) = Len(q.samples) - n
      /\ \A i \in 1..Len(sub) : sub[i] = q.samples[n + i]
  BY <1>1, SuffixElements
<1>3. [q EXCEPT !.samples = SubSeq(@, n + 1, Len(@))]
        = [channels |-> q.channels, samples |-> sub]
  BY QueueExcept DEF GoodQueue
<1> HIDE DEF sub
<1>4. \A i \in 1..Len(sub) : sub[i].layout = q.channels
  <2> SUFFICES ASSUME NEW i \in 1..Len(sub) PROVE q.samples[n + i].layout = q.channels
    BY <1>2
  <2>1. n + i \in 1..Len(q.samples)
    BY <1>1, <1>2
  <2> QED
    BY <2>1 DEF GoodQueue
<1>5. sub # <<>>
  <2>1. Len(sub) # 0
    BY <1>1, <1>2
  <2> QED
    BY <2>1
<1>6. q.channels \in Layouts
  BY DEF GoodQueue, Queue
<1>7. GoodQueue([channels |-> q.channels, samples |-> sub])
  BY <1>2, <1>4, <1>5, <1>6 DEF GoodQueue, Queue
<1> QED
  BY <1>3, <1>7

LEMMA ConcatUniform ==
  ASSUME NEW a \in Seq(Sample), NEW b \in Seq(Sample), NEW n, Len(b) # 0,
         \A i \in 1..Len(a) : a[i].layout = n,
         \A i \in 1..Len(b) : b[i].layout = n
  PROVE  /\ a \o b \in Seq(Sample) /\ a \o b # <<>>
         /\ \A i \in 1..Len(a \o b) : (a \o b)[i].layout = n
<1>1. /\ a \o b \in Seq(Sample)
      /\ Len(a \o b) = Len(a) + Len(b)
      /\ \A i \in 1..Len(a) + Len(b) :
           (a \o b)[i] = IF i <= Len(a) THEN a[i] ELSE b[i - Len(a)]
  BY ConcatProperties
<1>2. Len(a) \in Nat /\ Len(b) \in Nat
  BY LenProperties
<1> DEFINE ab == a \o b
<1> HIDE DEF ab
<1>3. ab # <<>>
  <2>1. Len(ab) # 0
    BY <1>1, <1>2 DEF ab
  <2> QED
    BY <2>1
<1>4. ASSUME NEW i \in 1..Len(ab) PROVE ab[i].layout = n
  <2>1. CASE i <= Len(a)
    <3>1. i \in 1..Len(a) /\ ab[i] = a[i]
      BY <1>1, <1>2, <2>1 DEF ab
    <3> QED
      BY <3>1
  <2>2. CASE ~(i <= Len(a))
    <3>1. i - Len(a) \in 1..Len(b) /\ ab[i] = b[i - Len(a)]
      BY <1>1, <1>2, <2>2 DEF ab
    <3> QED
      BY <3>1
  <2> QED
    BY <2>1, <2>2
<1> QED
  BY <1>1, <1>3, <1>4 DEF ab

(* StoreData after TryInitialiseDataSource, for a chunk that passed        *)
(* IsChannelCountTheSame.                                                  *)
LEMMA StoredGood ==
  ASSUME TypeOK, StoresAgree, NEW s \in Sources,
         IsChannelCountTheSame(InitialisedData(NextChunk(s)), NextChunk(s))
  PROVE  LET data == StoredData(InitialisedData(NextChunk(s)), NextChunk(s))
         IN  GoodQueues(data) /\ DOMAIN data = DOMAIN timeData \cup {s}
<1> DEFINE c == NextChunk(s)
           init == InitialisedData(c)
           data == StoredData(init, c)
<1>1. /\ c.src = s /\ c.channels \in Layouts
      /\ c.samples \in Seq(Sample) /\ Len(c.samples) \in Nat \ {0}
      /\ \A i \in 1..Len(c.samples) : c.samples[i].layout = c.channels
  BY NextChunkType
<1> HIDE DEF c
<1>2. [channels |-> c.channels, samples |-> <<>>] \in Queue
  BY <1>1 DEF Queue
<1>3. IsMapInto(timeData, Queue)
  BY DEF TypeOK
<1>4. /\ IsMapInto(init, Queue) /\ DOMAIN init = DOMAIN timeData \cup {s}
      /\ \A x \in DOMAIN timeData : init[x] = timeData[x]
      /\ s \notin DOMAIN timeData => init[s] = [channels |-> c.channels, samples |-> <<>>]
  <2>1. CASE s \in DOMAIN timeData
    BY <1>1, <1>3, <2>1 DEF InitialisedData
  <2>2. CASE s \notin DOMAIN timeData
    <3>1. init = Put(timeData, s, [channels |-> c.channels, samples |-> <<>>])
      BY <1>1, <2>2 DEF InitialisedData
    <3> DEFINE v == [channels |-> c.channels, samples |-> <<>>]
    <3> HIDE DEF init, v
    <3>2. v \in Queue /\ init = Put(timeData, s, v)
      BY <3>1, <1>2 DEF v
    <3>3. /\ IsMapInto(init, Queue) /\ DOMAIN init = DOMAIN timeData \cup {s}
          /\ init[s] = v /\ \A x \in DOMAIN timeData \ {s} : init[x] = timeData[x]
      BY <3>2, <1>3, PutType
    <3> QED
      BY <3>3, <2>2 DEF v
  <2> QED
    BY <2>1, <2>2
<1> HIDE DEF init
<1>5. init[s] \in Queue /\ init[s].channels = c.channels
  BY <1>1, <1>4 DEF IsMapInto, IsChannelCountTheSame, c, init
<1>6. /\ DOMAIN data = DOMAIN timeData \cup {s}
      /\ data[s] = [channels |-> c.channels, samples |-> init[s].samples \o c.samples]
      /\ \A x \in DOMAIN timeData \ {s} : data[x] = timeData[x]
  <2>1. data = [init EXCEPT ![s] = [init[s] EXCEPT !.samples = init[s].samples \o c.samples]]
    BY <1>1 DEF StoredData
  <2>2. [init[s] EXCEPT !.samples = init[s].samples \o c.samples]
          = [channels |-> c.channels, samples |-> init[s].samples \o c.samples]
    BY <1>5, QueueExcept
  <2> HIDE DEF data
  <2> QED
    BY <1>4, <2>1, <2>2 DEF IsMapInto
<1>7. \A i \in 1..Len(init[s].samples) : init[s].samples[i].layout = c.channels
  <2>1. CASE s \in DOMAIN timeData
    BY <1>4, <1>5, <2>1 DEF StoresAgree
  <2>2. CASE s \notin DOMAIN timeData
    BY <1>4, <2>2
  <2> QED
    BY <2>1, <2>2
<1> DEFINE all == init[s].samples \o c.samples
<1>8. init[s].samples \in Seq(Sample)
  BY <1>5 DEF Queue
<1>9. /\ all \in Seq(Sample) /\ all # <<>>
      /\ \A i \in 1..Len(all) : all[i].layout = c.channels
  <2> HIDE DEF all
  <2> QED
    BY <1>1, <1>7, <1>8, ConcatUniform DEF all
<1> HIDE DEF all
<1>10. GoodQueue([channels |-> c.channels, samples |-> all])
  BY <1>1, <1>9 DEF GoodQueue, Queue
<1>11. \A x \in DOMAIN timeData : GoodQueue(timeData[x])
  BY <1>3 DEF StoresAgree, GoodQueue, IsMapInto
<1>12. \A x \in DOMAIN data : GoodQueue(data[x])
  BY <1>6, <1>10, <1>11 DEF all
<1>13. IsMapInto(data, Queue)
  <2>1. data = [x \in DOMAIN data |-> data[x]]
    BY <1>4 DEF StoredData, IsMapInto
  <2> HIDE DEF data
  <2> QED
    BY <2>1, <1>3, <1>6, <1>12 DEF IsMapInto, GoodQueue
<1> QED
  BY <1>6, <1>12, <1>13 DEF c, init, GoodQueues

LEMMA OldestType ==
  ASSUME TypeOK, StoresAgree, NEW s \in Sources
  PROVE  /\ IsMapInto(InitialisedOldest(NextChunk(s)), Nat)
         /\ DOMAIN InitialisedOldest(NextChunk(s)) = DOMAIN timeData \cup {s}
<1>1. NextChunk(s).src = s /\ NextChunk(s).ts \in Nat
  BY NextChunkType
<1>2. IsMapInto(oldest, Nat) /\ DOMAIN oldest = DOMAIN timeData
  BY DEF TypeOK, StoresAgree
<1>3. CASE s \in DOMAIN oldest
  BY <1>1, <1>2, <1>3 DEF InitialisedOldest
<1>4. CASE s \notin DOMAIN oldest
  <2> DEFINE ts == NextChunk(s).ts
  <2>1. InitialisedOldest(NextChunk(s)) = Put(oldest, s, ts) /\ ts \in Nat
    BY <1>1, <1>4 DEF InitialisedOldest
  <2> HIDE DEF ts
  <2>2. /\ IsMapInto(Put(oldest, s, ts), Nat)
        /\ DOMAIN Put(oldest, s, ts) = DOMAIN oldest \cup {s}
    BY <2>1, <1>2 DEF Put, IsMapInto
  <2> QED
    BY <2>1, <2>2, <1>2
<1> QED
  BY <1>3, <1>4

(* Trimming keeps the queues good and the timestamps numbers.              *)
LEMMA TrimmedGood ==
  ASSUME NEW data, GoodQueues(data), NEW old, IsMapInto(old, Nat),
         DOMAIN old = DOMAIN data, DOMAIN old # {}, NEW rate \in Nat
  PROVE  /\ GoodQueues(TrimmedData(data, old, rate))
         /\ DOMAIN TrimmedData(data, old, rate) = DOMAIN data
         /\ IsMapInto(TrimmedOldest(data, old, rate), Nat)
         /\ DOMAIN TrimmedOldest(data, old, rate) = DOMAIN data
<1>1. LatestStart(old) \in Nat
  BY LatestStartType
<1>2. ASSUME NEW s \in DOMAIN data
      PROVE  GoodQueue(TrimmedData(data, old, rate)[s])
  <2>1. GoodQueue(data[s]) /\ Len(data[s].samples) \in Nat
    BY <1>2 DEF GoodQueues, GoodQueue, Queue
  <2>2. CASE MayTrim(data, old, rate, s)
    <3>1. /\ SamplesToRemove(old, rate, s) \in Nat
          /\ SamplesToRemove(old, rate, s) < Len(data[s].samples)
      BY <2>1, <2>2 DEF MayTrim
    <3>2. TrimmedData(data, old, rate)[s] =
            [data[s] EXCEPT !.samples = SubSeq(@, SamplesToRemove(old, rate, s) + 1, Len(@))]
      BY <2>2, <1>2 DEF TrimmedData
    <3> QED
      BY <2>1, <3>1, <3>2, SuffixGood
  <2>3. CASE ~MayTrim(data, old, rate, s)
    BY <2>1, <2>3 DEF TrimmedData
  <2> QED
    BY <2>2, <2>3
<1>3. IsMapInto(TrimmedOldest(data, old, rate), Nat)
  BY <1>1 DEF TrimmedOldest, IsMapInto
<1>4. IsMapInto(TrimmedData(data, old, rate), Queue)
  <2>1. \A s \in DOMAIN data : TrimmedData(data, old, rate)[s] \in Queue
    BY <1>2 DEF GoodQueue
  <2> QED
    BY <2>1 DEF TrimmedData, GoodQueues, IsMapInto
<1> QED
  BY <1>2, <1>3, <1>4 DEF GoodQueues, TrimmedData, TrimmedOldest

(* Emitting leaves every queue good: at least one sample stays behind.     *)
LEMMA RemainingGood ==
  ASSUME NEW data, GoodQueues(data), NEW rate \in Nat,
         SamplesRequired(rate) \in Nat, CheckQueuesHaveEnoughData(data, rate)
  PROVE  /\ GoodQueues(RemainingData(data, rate))
         /\ DOMAIN RemainingData(data, rate) = DOMAIN data
<1>1. ASSUME NEW s \in DOMAIN data
      PROVE  GoodQueue(RemainingData(data, rate)[s])
  <2>1. GoodQueue(data[s]) /\ SamplesRequired(rate) < Len(data[s].samples)
    <3>1. Len(data[s].samples) \in Nat
      BY <1>1 DEF GoodQueues, GoodQueue, Queue
    <3> QED
      BY <1>1, <3>1 DEF GoodQueues, CheckQueuesHaveEnoughData
  <2>2. RemainingData(data, rate)[s] =
          [data[s] EXCEPT !.samples = SubSeq(@, SamplesRequired(rate) + 1, Len(@))]
    BY <1>1 DEF RemainingData
  <2> QED
    BY <2>1, <2>2, SuffixGood
<1>2. IsMapInto(RemainingData(data, rate), Queue)
  <2>1. \A s \in DOMAIN data : RemainingData(data, rate)[s] \in Queue
    BY <1>1 DEF GoodQueue
  <2> QED
    BY <2>1 DEF RemainingData, GoodQueues, IsMapInto
<1> QED
  BY <1>1, <1>2 DEF GoodQueues, RemainingData

(* The emitted chunk is well typed.                                        *)
LEMMA TDOAType ==
  ASSUME TypeOK, NEW data, GoodQueues(data), NEW old, IsMapInto(old, Nat),
         DOMAIN old = DOMAIN data, DOMAIN old # {}, NEW rate \in Nat,
         SamplesRequired(rate) \in Nat, CheckQueuesHaveEnoughData(data, rate)
  PROVE  LET chunk == CreateSynchronizedTimeChunk(data, old, rate)
         IN  /\ chunk.at = now /\ chunk.stamp \in Nat
             /\ IsMapInto(chunk.segments, Seq(Sample))
             /\ IsMapInto(chunk.positions, Position)
             /\ IsMapInto(PositionsAfterRead(data), Position)
<1>1. old[FirstSource(old)] \in Nat
  BY FirstSourceType DEF IsMapInto
<1>2. ASSUME NEW s \in DOMAIN data
      PROVE  SubSeq(data[s].samples, 1, SamplesRequired(rate)) \in Seq(Sample)
  <2>1. data[s].samples \in Seq(Sample) /\ Len(data[s].samples) \in Nat
    BY <1>2 DEF GoodQueues, GoodQueue, Queue
  <2>2. SamplesRequired(rate) < Len(data[s].samples)
    BY <1>2 DEF CheckQueuesHaveEnoughData
  <2>3. \A i \in 1..SamplesRequired(rate) : data[s].samples[i] \in Sample
    BY <2>1, <2>2, ElementOfSeq
  <2> QED
    BY <2>3, SubSeqProperties
<1>3. DOMAIN data \subseteq Sources
  BY DEF GoodQueues, IsMapInto
<1>4. IsMapInto(PositionsAfterRead(data), Position)
  <2>1. IsMapInto(gps, Position)
    BY DEF TypeOK
  <2> QED
    BY <2>1, <1>3 DEF PositionsAfterRead, IsMapInto, Position
<1>5. IsMapInto([s \in DOMAIN data |-> PositionsAfterRead(data)[s]], Position)
  <2>1. \A s \in DOMAIN data : PositionsAfterRead(data)[s] \in Position
    BY <1>4 DEF IsMapInto, PositionsAfterRead
  <2> QED
    BY <2>1, <1>3 DEF IsMapInto
<1>6. IsMapInto([s \in DOMAIN data |-> SubSeq(data[s].samples, 1, SamplesRequired(rate))],
                Seq(Sample))
  BY <1>2, <1>3 DEF IsMapInto
<1> QED
  BY <1>1, <1>4, <1>5, <1>6 DEF CreateSynchronizedTimeChunk

-----------------------------------------------------------------------------
(* Type correctness and the agreement of the maps are inductive together,  *)
(* with the fact that the history knows the same sources.                  *)

MapsInv == TypeOK /\ StoresAgree /\ DOMAIN history = DOMAIN timeData

HistoryEntry == [taken : Nat, jumped : BOOLEAN]

LEMMA HistoryType ==
  ASSUME MapsInv, NEW s \in Sources
  PROVE  /\ IsMapInto(Remember(NextChunk(s)), HistoryEntry)
         /\ DOMAIN Remember(NextChunk(s)) = DOMAIN timeData \cup {s}
         /\ IsMapInto(CountTaken(Remember(NextChunk(s))), HistoryEntry)
         /\ DOMAIN CountTaken(Remember(NextChunk(s))) = DOMAIN timeData \cup {s}
<1> DEFINE h == Remember(NextChunk(s))
<1>1. IsMapInto(history, HistoryEntry) /\ DOMAIN history = DOMAIN timeData
  BY DEF MapsInv, TypeOK, HistoryEntry
<1>2. NextChunk(s).src = s
  BY DEF NextChunk
<1>3. IsMapInto(h, HistoryEntry) /\ DOMAIN h = DOMAIN timeData \cup {s}
  <2>1. CASE s \in DOMAIN history
    BY <2>1, <1>1, <1>2 DEF Remember, IsMapInto, HistoryEntry
  <2>2. CASE s \notin DOMAIN history
    BY <2>2, <1>1, <1>2 DEF Remember, IsMapInto, HistoryEntry, Put
  <2> QED
    BY <2>1, <2>2
<1> HIDE DEF h
<1>4. IsMapInto(CountTaken(h), HistoryEntry) /\ DOMAIN CountTaken(h) = DOMAIN h
  BY <1>3 DEF CountTaken, IsMapInto, HistoryEntry
<1> QED
  BY <1>3, <1>4 DEF h

LEMMA MapsInit == Init => MapsInv
<1> SUFFICES ASSUME Init PROVE MapsInv
  OBVIOUS
<1>1. sampleRate \in Nat
  BY RateAssumption DEF Init
<1>2. clock \in [Sources -> Nat]
  BY LimitsAssumption DEF Init
<1> QED
  BY <1>1, <1>2, EmptyMapType DEF Init, MapsInv, TypeOK, StoresAgree

(* An accepted chunk.                                                      *)
LEMMA AcceptKeepsMaps ==
  ASSUME MapsInv, NEW s \in Sources, AcceptTimeChunk(NextChunk(s)),
         clock' = [clock EXCEPT ![s] = @ + ChunkTicks],
         UNCHANGED <<now, layout, faults>>
  PROVE  MapsInv'
<1> DEFINE c == NextChunk(s)
           data == StoredData(InitialisedData(c), c)
           old == InitialisedOldest(c)
           rate == c.rate
<1> USE DEF MapsInv
<1>1. rate \in Nat \ {0} /\ c.ts \in Nat /\ c.src = s
  BY NextChunkType
<1>2. GoodQueues(data) /\ DOMAIN data = DOMAIN timeData \cup {s}
  BY StoredGood DEF AcceptTimeChunk
<1>3. IsMapInto(old, Nat) /\ DOMAIN old = DOMAIN data
  BY OldestType, <1>2
<1>4. clock' \in [Sources -> Nat] /\ now' \in Nat /\ layout' \in [Sources -> Layouts]
      /\ faults' \in Nat
  BY DurationsAssumption DEF TypeOK
<1>5. IsMapInto(recent', Nat) /\ DOMAIN recent' = DOMAIN data
  <2>1. IsMapInto(recent, Nat) /\ DOMAIN recent = DOMAIN timeData
    BY DEF TypeOK, StoresAgree
  <2> QED
    BY <1>1, <1>2, <2>1 DEF AcceptTimeChunk, Put, IsMapInto
<1>6. sampleRate' \in Nat /\ lastSync' \in Nat
  BY <1>1 DEF AcceptTimeChunk, TypeOK, LastSyncAfterAttempt
<1>7. SamplesRequired(rate) \in Nat
  BY <1>1, SamplesPerTick, DurationsAssumption DEF SamplesRequired
<1> HIDE DEF data, old, rate, c
<1>8. /\ GoodQueues(timeData') /\ DOMAIN timeData' = DOMAIN data
      /\ IsMapInto(oldest', Nat) /\ DOMAIN oldest' = DOMAIN data
      /\ IsMapInto(history', HistoryEntry) /\ DOMAIN history' = DOMAIN data
      /\ IsMapInto(gps', Position)
      /\ tdoa' # NoChunk => /\ tdoa'.at \in Nat /\ tdoa'.stamp \in Nat
                            /\ IsMapInto(tdoa'.segments, Seq(Sample))
                            /\ IsMapInto(tdoa'.positions, Position)
  <2>1. /\ IsMapInto(Remember(c), HistoryEntry) /\ DOMAIN Remember(c) = DOMAIN data
        /\ IsMapInto(CountTaken(Remember(c)), HistoryEntry)
        /\ DOMAIN CountTaken(Remember(c)) = DOMAIN data
    BY <1>2, HistoryType DEF c
  <2>2. UNCHANGED <<gps, tdoa>> =>
          /\ IsMapInto(gps', Position)
          /\ tdoa' # NoChunk => /\ tdoa'.at \in Nat /\ tdoa'.stamp \in Nat
                                /\ IsMapInto(tdoa'.segments, Seq(Sample))
                                /\ IsMapInto(tdoa'.positions, Position)
    BY DEF TypeOK
  <2>3. CASE /\ timeData' = TrimmedData(data, old, rate)
             /\ oldest' = TrimmedOldest(data, old, rate)
             /\ history' = Remember(c) /\ UNCHANGED <<gps, tdoa>>
    <3>1. rate \in Nat /\ DOMAIN old # {}
      BY <1>1, <1>2, <1>3
    <3>2. /\ GoodQueues(TrimmedData(data, old, rate))
          /\ DOMAIN TrimmedData(data, old, rate) = DOMAIN data
          /\ IsMapInto(TrimmedOldest(data, old, rate), Nat)
          /\ DOMAIN TrimmedOldest(data, old, rate) = DOMAIN data
      BY <3>1, <1>2, <1>3, TrimmedGood
    <3> QED
      BY <2>1, <2>2, <2>3, <3>2
  <2>4. CASE /\ timeData' = data /\ oldest' = old
             /\ history' = Remember(c) /\ UNCHANGED <<gps, tdoa>>
    BY <2>1, <2>2, <2>4, <1>2, <1>3
  <2>5. CASE /\ CheckQueuesHaveEnoughData(data, rate)
             /\ tdoa' = CreateSynchronizedTimeChunk(data, old, rate)
             /\ timeData' = RemainingData(data, rate)
             /\ oldest' = old
             /\ gps' = PositionsAfterRead(data)
             /\ history' = CountTaken(Remember(c))
    <3>1. rate \in Nat /\ DOMAIN old # {} /\ now \in Nat
      BY <1>1, <1>2, <1>3 DEF TypeOK
    <3>2. GoodQueues(timeData') /\ DOMAIN timeData' = DOMAIN data
      BY <2>5, <3>1, <1>2, <1>7, RemainingGood
    <3>3. /\ tdoa'.at = now /\ tdoa'.stamp \in Nat
          /\ IsMapInto(tdoa'.segments, Seq(Sample))
          /\ IsMapInto(tdoa'.positions, Position)
          /\ IsMapInto(gps', Position)
      BY <2>5, <3>1, <1>2, <1>3, <1>7, TDOAType
    <3> QED
      BY <2>1, <2>5, <3>1, <3>2, <3>3, <1>3
  <2> QED
    BY <2>3, <2>4, <2>5 DEF AcceptTimeChunk, data, old, rate, c
<1>9. IsMapInto(timeData', Queue)
  BY <1>8 DEF GoodQueues
<1>10. StoresAgree'
  BY <1>5, <1>8 DEF StoresAgree, GoodQueues, GoodQueue
<1> QED
  BY <1>4, <1>5, <1>6, <1>8, <1>9, <1>10 DEF TypeOK, HistoryEntry

LEMMA RejectKeepsMaps ==
  ASSUME MapsInv, NEW s \in Sources, RejectTimeChunk(NextChunk(s)),
         clock' = [clock EXCEPT ![s] = @ + ChunkTicks],
         UNCHANGED <<now, layout, faults>>
  PROVE  MapsInv'
<1>1. clock' \in [Sources -> Nat]
  BY DurationsAssumption DEF MapsInv, TypeOK
<1> QED
  BY <1>1, EmptyMapType
  DEF RejectTimeChunk, ClearState, MapsInv, TypeOK, StoresAgree

LEMMA MapsNext == MapsInv /\ [Next]_vars => MapsInv'
<1> SUFFICES ASSUME MapsInv, [Next]_vars PROVE MapsInv'
  OBVIOUS
<1>1. CASE Tick
  BY <1>1 DEF Tick, sensors, store, MapsInv, TypeOK, StoresAgree
<1>2. ASSUME NEW s \in Sources, Process_TimeChunk(s) PROVE MapsInv'
  BY <1>2, AcceptKeepsMaps, RejectKeepsMaps DEF Process_TimeChunk
<1>3. ASSUME NEW s \in Sources, Process_GPSChunk(s) PROVE MapsInv'
  <2>1. IsMapInto(gps', Position)
    <3>1. IsMapInto(gps, Position)
      BY DEF MapsInv, TypeOK
    <3> QED
      BY <1>3, <3>1 DEF Process_GPSChunk, Put, IsMapInto, Position
  <2> QED
    BY <1>3, <2>1 DEF Process_GPSChunk, sensors, store, MapsInv, TypeOK, StoresAgree
<1>4. ASSUME NEW s \in Sources, LoseChunk(s) PROVE MapsInv'
  <2>1. clock' \in [Sources -> Nat] /\ faults' \in Nat
    BY <1>4, DurationsAssumption DEF LoseChunk, MapsInv, TypeOK
  <2> QED
    BY <1>4, <2>1 DEF LoseChunk, store, MapsInv, TypeOK, StoresAgree
<1>5. ASSUME NEW s \in Sources, Reboot(s) PROVE MapsInv'
  <2>1. clock' \in [Sources -> Nat] /\ layout' \in [Sources -> Layouts] /\ faults' \in Nat
    BY <1>5 DEF Reboot, MapsInv, TypeOK
  <2> QED
    BY <1>5, <2>1 DEF Reboot, store, MapsInv, TypeOK, StoresAgree
<1>6. CASE UNCHANGED vars
  BY <1>6 DEF vars, sensors, store, MapsInv, TypeOK, StoresAgree
<1> QED
  BY <1>1, <1>2, <1>3, <1>4, <1>5, <1>6 DEF Next

THEOREM MapsCorrect == Spec => []MapsInv
<1> QED
  BY MapsInit, MapsNext, PTL DEF Spec

(* Every state of TimeChunkSync is well typed.                             *)
THEOREM TypeCorrect == Spec => []TypeOK
<1>1. MapsInv => TypeOK
  BY DEF MapsInv
<1> QED
  BY MapsCorrect, <1>1, PTL

(* Between two handlers the maps of the module know the same sources, no   *)
(* queue is empty and none mixes two channel layouts: the early returns of *)
(* Process_TimeChunk, its trimming and its emission keep them in step.     *)
THEOREM StoresAlwaysAgree == Spec => []StoresAgree
<1>1. MapsInv => StoresAgree
  BY DEF MapsInv
<1> QED
  BY MapsCorrect, <1>1, PTL

-----------------------------------------------------------------------------
(* Emissions are spaced because the last emission is never later than the  *)
(* last synchronisation attempt, which a clear only moves forward.         *)

AttemptInv ==
  /\ lastSync <= now
  /\ tdoa # NoChunk => tdoa.at <= lastSync

LEMMA AttemptInit == Init => AttemptInv
BY DEF Init, AttemptInv

(* The next-state relation seen through the clock, the last attempt and    *)
(* the last emission.                                                      *)
LEMMA AttemptStep ==
  ASSUME MapsInv, [Next]_vars
  PROVE  \/ /\ now' = now /\ tdoa' = tdoa /\ lastSync' \in {lastSync, now}
         \/ /\ now' = now + 1 /\ UNCHANGED <<tdoa, lastSync>>
         \/ /\ now' = now /\ tdoa' # NoChunk /\ tdoa'.at = now
            /\ now - lastSync > SyncInterval /\ lastSync' = now
<1>1. CASE Tick
  BY <1>1 DEF Tick
<1>2. ASSUME NEW s \in Sources, Process_TimeChunk(s)
      PROVE  \/ /\ now' = now /\ tdoa' = tdoa /\ lastSync' \in {lastSync, now}
             \/ /\ now' = now /\ tdoa' # NoChunk /\ tdoa'.at = now
                /\ now - lastSync > SyncInterval /\ lastSync' = now
  <2>1. CASE RejectTimeChunk(NextChunk(s))
    BY <1>2, <2>1 DEF Process_TimeChunk, RejectTimeChunk, ClearState
  <2>2. CASE AcceptTimeChunk(NextChunk(s))
    <3> DEFINE c == NextChunk(s)
               data == StoredData(InitialisedData(c), c)
               old == InitialisedOldest(c)
               rate == c.rate
    <3>1. lastSync' = LastSyncAfterAttempt /\ now' = now
      BY <1>2, <2>2 DEF Process_TimeChunk, AcceptTimeChunk
    <3>2. tdoa' = tdoa \/ /\ ShouldWeTrySynchronise
                          /\ tdoa' = CreateSynchronizedTimeChunk(data, old, rate)
      BY <2>2 DEF AcceptTimeChunk
    <3>3. CASE tdoa' = tdoa
      BY <3>1, <3>3 DEF LastSyncAfterAttempt
    <3>4. CASE ShouldWeTrySynchronise /\ tdoa' = CreateSynchronizedTimeChunk(data, old, rate)
      <4>1. tdoa'.at = now
        BY <3>4 DEF CreateSynchronizedTimeChunk
      <4>2. now # -1
        BY DEF MapsInv, TypeOK
      <4>3. tdoa' # NoChunk
        BY <4>1, <4>2 DEF NoChunk
      <4> QED
        BY <3>1, <3>4, <4>1, <4>3 DEF LastSyncAfterAttempt, ShouldWeTrySynchronise
    <3> QED
      BY <3>2, <3>3, <3>4
  <2> QED
    BY <1>2, <2>1, <2>2 DEF Process_TimeChunk
<1>3. ASSUME NEW s \in Sources, Process_GPSChunk(s) \/ LoseChunk(s) \/ Reboot(s)
      PROVE  UNCHANGED <<now, tdoa, lastSync>>
  BY <1>3 DEF Process_GPSChunk, LoseChunk, Reboot
<1>4. CASE UNCHANGED vars
  BY <1>4 DEF vars
<1> QED
  BY <1>1, <1>2, <1>3, <1>4 DEF Next

LEMMA AttemptNext == MapsInv /\ AttemptInv /\ [Next]_vars => AttemptInv'
<1> SUFFICES ASSUME MapsInv, AttemptInv, [Next]_vars PROVE AttemptInv'
  OBVIOUS
<1>1. /\ now \in Nat /\ lastSync \in Nat /\ SyncInterval \in Nat
      /\ tdoa # NoChunk => tdoa.at \in Nat
  BY DurationsAssumption DEF MapsInv, TypeOK
<1> QED
  BY <1>1, AttemptStep DEF AttemptInv

(* Between two emissions more than the sync interval passes.               *)
THEOREM EmissionsAlwaysSpaced == Spec => EmissionsSpaced
<1>1. MapsInv /\ AttemptInv /\ [Next]_vars =>
        [tdoa' # tdoa /\ tdoa # NoChunk => tdoa'.at - tdoa.at > SyncInterval]_vars
  <2> SUFFICES ASSUME MapsInv, AttemptInv, [Next]_vars, tdoa' # tdoa, tdoa # NoChunk
               PROVE  tdoa'.at - tdoa.at > SyncInterval
    OBVIOUS
  <2>1. /\ now \in Nat /\ lastSync \in Nat /\ SyncInterval \in Nat /\ tdoa.at \in Nat
    BY DurationsAssumption DEF MapsInv, TypeOK
  <2>2. tdoa'.at = now /\ now - lastSync > SyncInterval
    BY AttemptStep
  <2> QED
    BY <2>1, <2>2 DEF AttemptInv
<1>2. Spec => []AttemptInv
  BY MapsCorrect, AttemptInit, AttemptNext, PTL DEF Spec
<1> QED
  BY <1>1, <1>2, MapsCorrect, PTL DEF Spec, EmissionsSpaced

-----------------------------------------------------------------------------
(* Where a queue that never jumped lies on its source's time line.         *)

LEMMA TicksShift ==
  ASSUME NEW r \in Nat \ {0}, NEW i \in Nat, NEW d \in Nat
  PROVE  (i + r * d) \div r = (i \div r) + d
OBVIOUS

LEMMA TicksNat ==
  ASSUME NEW r \in Nat \ {0}, NEW i \in Nat
  PROVE  i \div r \in Nat
OBVIOUS

(* The samples of q fill the time from head up to end, r of them per tick. *)
Line(q, r, head, end) ==
  /\ end - head \in Nat \ {0}
  /\ Len(q) = r * (end - head)
  /\ \A i \in 1..Len(q) : q[i].t = head + ((i - 1) \div r)

LEMMA LineSuffix ==
  ASSUME NEW q \in Seq(Sample), NEW r \in Nat \ {0}, NEW head \in Nat, NEW end \in Nat,
         Line(q, r, head, end), NEW d \in Nat, r * d < Len(q)
  PROVE  Line(SubSeq(q, r * d + 1, Len(q)), r, head + d, end)
<1> DEFINE sub == SubSeq(q, r * d + 1, Len(q))
<1>1. r * d \in Nat /\ Len(q) \in Nat
  BY LenProperties
<1>2. /\ Len(sub) = Len(q) - r * d
      /\ \A i \in 1..Len(q) - r * d : sub[i] = q[r * d + i]
  <2> DEFINE n == r * d
  <2> HIDE DEF n
  <2>1. n \in Nat /\ n < Len(q)
    BY <1>1 DEF n
  <2>2. /\ Len(SubSeq(q, n + 1, Len(q))) = Len(q) - n
        /\ \A i \in 1..Len(q) - n : SubSeq(q, n + 1, Len(q))[i] = q[n + i]
    BY <2>1, SuffixElements
  <2> QED
    BY <2>2 DEF n
<1> HIDE DEF sub
<1>3. r * (end - (head + d)) = r * (end - head) - r * d
  OBVIOUS
<1>4. end - (head + d) \in Nat \ {0}
  <2>1. r * (end - (head + d)) > 0
    BY <1>1, <1>3 DEF Line
  <2> QED
    BY <2>1
<1>5. ASSUME NEW i \in 1..Len(sub)
      PROVE  sub[i].t = head + d + ((i - 1) \div r)
  <2>1. r * d + i \in 1..Len(q) /\ sub[i] = q[r * d + i] /\ i - 1 \in Nat
    BY <1>1, <1>2
  <2>2. q[r * d + i].t = head + ((r * d + i - 1) \div r)
    BY <2>1 DEF Line
  <2>3. r * d + i - 1 = (i - 1) + r * d
    BY <1>1, <2>1
  <2>4. ((i - 1) + r * d) \div r = ((i - 1) \div r) + d
    BY <2>1, TicksShift
  <2>5. (i - 1) \div r \in Nat
    BY <2>1, TicksNat
  <2> DEFINE x == (i - 1) \div r
  <2>6. sub[i].t = head + (x + d)
    BY <2>1, <2>2, <2>3, <2>4
  <2> HIDE DEF x
  <2>7. x \in Nat
    BY <2>5 DEF x
  <2>8. head + (x + d) = head + d + x
    BY <2>7
  <2> QED
    BY <2>6, <2>8 DEF x
<1> QED
  BY <1>1, <1>2, <1>3, <1>4, <1>5 DEF Line, sub

LEMMA LineConcat ==
  ASSUME NEW a \in Seq(Sample), NEW b \in Seq(Sample), NEW r \in Nat \ {0},
         NEW head \in Nat, NEW mid \in Nat, NEW end \in Nat,
         Line(a, r, head, mid), Line(b, r, mid, end)
  PROVE  Line(a \o b, r, head, end)
<1> DEFINE ab == a \o b
<1>1. Len(a) \in Nat /\ Len(b) \in Nat
  BY LenProperties
<1>2. /\ Len(ab) = Len(a) + Len(b)
      /\ \A i \in 1..Len(a) + Len(b) : ab[i] = IF i <= Len(a) THEN a[i] ELSE b[i - Len(a)]
  BY ConcatProperties
<1> HIDE DEF ab
<1>3. end - head \in Nat \ {0}
  BY DEF Line
<1>4. Len(ab) = r * (end - head)
  <2>1. r * (mid - head) + r * (end - mid) = r * (end - head)
    OBVIOUS
  <2> QED
    BY <1>2, <2>1 DEF Line
<1>5. ASSUME NEW i \in 1..Len(ab)
      PROVE  ab[i].t = head + ((i - 1) \div r)
  <2>1. CASE i <= Len(a)
    <3>1. i \in 1..Len(a) /\ ab[i] = a[i]
      BY <1>1, <1>2, <2>1
    <3> QED
      BY <3>1 DEF Line
  <2>2. CASE ~(i <= Len(a))
    <3> DEFINE j == i - Len(a)
    <3>1. j \in 1..Len(b) /\ ab[i] = b[j] /\ j - 1 \in Nat
      BY <1>1, <1>2, <2>2
    <3>2. b[j].t = mid + ((j - 1) \div r)
      BY <3>1 DEF Line
    <3>3. i - 1 = (j - 1) + r * (mid - head) /\ mid - head \in Nat
      BY <1>1 DEF Line
    <3> HIDE DEF j
    <3>4. ((j - 1) + r * (mid - head)) \div r = ((j - 1) \div r) + (mid - head)
      BY <3>1, <3>3, TicksShift
    <3>5. (j - 1) \div r \in Nat
      BY <3>1, TicksNat
    <3> DEFINE x == (j - 1) \div r
    <3>6. (i - 1) \div r = x + (mid - head)
      BY <3>3, <3>4
    <3> HIDE DEF x
    <3>7. x \in Nat /\ ab[i].t = mid + x
      BY <3>1, <3>2, <3>5 DEF x
    <3>8. head + (x + (mid - head)) = mid + x
      BY <3>7
    <3> QED
      BY <3>6, <3>7, <3>8
  <2> QED
    BY <2>1, <2>2
<1> QED
  BY <1>3, <1>4, <1>5 DEF Line, ab

LEMMA LineChunk ==
  ASSUME TypeOK, NEW s \in Sources
  PROVE  Line(NextChunk(s).samples, Rate[s], NextChunk(s).ts, NextChunk(s).ts + ChunkTicks)
<1> DEFINE n == ChunkTicks * Rate[s]
<1>1. Rate[s] \in Nat \ {0} /\ clock[s] \in Nat /\ ChunkTicks \in Nat \ {0}
  BY RateAssumption, DurationsAssumption DEF TypeOK
<1>2. n \in Nat /\ n = Rate[s] * ((clock[s] + ChunkTicks) - clock[s])
  BY <1>1
<1>3. /\ DOMAIN NextChunk(s).samples = 1..n
      /\ \A i \in 1..n : NextChunk(s).samples[i].t = clock[s] + ((i - 1) \div Rate[s])
  BY DEF NextChunk
<1>4. Len(NextChunk(s).samples) = n
  <2>1. NextChunk(s).samples \in Seq(Sample)
    BY NextChunkType
  <2> HIDE DEF n
  <2> QED
    BY <2>1, <1>2, <1>3, LenProperties
<1>5. NextChunk(s).ts = clock[s]
  BY DEF NextChunk
<1> HIDE DEF n
<1> QED
  BY <1>1, <1>2, <1>3, <1>4, <1>5 DEF Line

(* The invariant behind HeadLag: each queue that never jumped fills the    *)
(* time line from TDOALength past its entry of the map for every stretch   *)
(* taken, up to the end of the last chunk.                                 *)
QueueLine(data, old, h, rec, s) ==
  Line(data[s].samples, Rate[s], old[s] + TDOALength * h[s].taken, rec[s] + ChunkTicks)

LinesInv ==
  SameRate => \A s \in DOMAIN timeData :
                ~history[s].jumped => QueueLine(timeData, oldest, history, recent, s)

(* The maps as StoreData leaves them still lie on their lines.             *)
LEMMA StoredLines ==
  ASSUME MapsInv, LinesInv, SameRate, NEW s \in Sources,
         IsChannelCountTheSame(InitialisedData(NextChunk(s)), NextChunk(s))
  PROVE  LET c == NextChunk(s)
             data == StoredData(InitialisedData(c), c)
         IN  \A x \in DOMAIN data : ~Remember(c)[x].jumped =>
               QueueLine(data, InitialisedOldest(c), Remember(c), Put(recent, s, c.ts), x)
<1> DEFINE c == NextChunk(s)
           data == StoredData(InitialisedData(c), c)
           old == InitialisedOldest(c)
           h == Remember(c)
           rec == Put(recent, s, c.ts)
<1>1. /\ c.src = s /\ c.ts \in Nat /\ c.samples \in Seq(Sample)
      /\ Line(c.samples, Rate[s], c.ts, c.ts + ChunkTicks)
      /\ Rate[s] \in Nat \ {0} /\ ChunkTicks \in Nat \ {0} /\ TDOALength \in Nat \ {0}
  BY NextChunkType, LineChunk, RateAssumption, DurationsAssumption DEF MapsInv
<1> HIDE DEF c
<1>2. /\ DOMAIN oldest = DOMAIN timeData /\ DOMAIN recent = DOMAIN timeData
      /\ DOMAIN history = DOMAIN timeData
      /\ IsMapInto(oldest, Nat) /\ IsMapInto(recent, Nat) /\ IsMapInto(timeData, Queue)
      /\ IsMapInto(history, HistoryEntry)
  BY DEF MapsInv, TypeOK, StoresAgree, HistoryEntry
<1>3. rec[s] = c.ts /\ \A x \in DOMAIN timeData \ {s} : rec[x] = recent[x]
  BY <1>2 DEF Put
<1>4. CASE s \in DOMAIN timeData
  <2>1. /\ old = oldest /\ DOMAIN data = DOMAIN timeData
        /\ data[s].samples = timeData[s].samples \o c.samples
        /\ \A x \in DOMAIN timeData \ {s} : data[x] = timeData[x]
    <3>1. data = [timeData EXCEPT ![s].samples = @ \o c.samples]
      BY <1>1, <1>4 DEF StoredData, InitialisedData
    <3>2. timeData[s] \in Queue
      BY <1>2, <1>4 DEF IsMapInto
    <3>3. data = [timeData EXCEPT ![s] =
                    [channels |-> timeData[s].channels,
                     samples |-> timeData[s].samples \o c.samples]]
      BY <3>1, <3>2, QueueExcept
    <3> HIDE DEF data
    <3> QED
      BY <1>1, <1>2, <1>4, <3>3 DEF InitialisedOldest, IsMapInto
  <2>2. /\ h[s].taken = history[s].taken
        /\ h[s].jumped = (history[s].jumped \/ c.ts # recent[s] + ChunkTicks)
        /\ \A x \in DOMAIN timeData \ {s} : h[x] = history[x]
    BY <1>1, <1>2, <1>4 DEF Remember, IsMapInto, HistoryEntry
  <2> HIDE DEF data, old, h, rec
  <2>3. ASSUME ~h[s].jumped PROVE QueueLine(data, old, h, rec, s)
    <3> DEFINE head == oldest[s] + TDOALength * history[s].taken
    <3>1. Line(timeData[s].samples, Rate[s], head, c.ts)
      BY <1>4, <2>2, <2>3 DEF LinesInv, QueueLine
    <3>2. head \in Nat /\ timeData[s].samples \in Seq(Sample)
      <4>1. oldest[s] \in Nat /\ history[s].taken \in Nat /\ timeData[s] \in Queue
        BY <1>2, <1>4 DEF IsMapInto, HistoryEntry
      <4>2. TDOALength * history[s].taken \in Nat
        BY <1>1, <4>1, ProductNat
      <4> QED
        BY <4>1, <4>2 DEF Queue
    <3> HIDE DEF head
    <3> DEFINE queued == timeData[s].samples
               end == c.ts + ChunkTicks
    <3>3. /\ c.ts \in Nat /\ end \in Nat /\ Rate[s] \in Nat \ {0}
          /\ c.samples \in Seq(Sample) /\ Line(c.samples, Rate[s], c.ts, end)
      BY <1>1
    <3>4. queued \in Seq(Sample) /\ Line(queued, Rate[s], head, c.ts)
      BY <3>1, <3>2
    <3> HIDE DEF queued, end
    <3>5. Line(queued \o c.samples, Rate[s], head, end)
      BY ONLY <3>2, <3>3, <3>4, LineConcat
    <3> QED
      BY <1>3, <2>1, <2>2, <3>5 DEF QueueLine, head, queued, end
  <2>4. ASSUME NEW x \in DOMAIN timeData \ {s}, ~h[x].jumped
        PROVE  QueueLine(data, old, h, rec, x)
    BY <1>3, <2>1, <2>2, <2>4 DEF LinesInv, QueueLine
  <2>5. \A x \in DOMAIN data : ~h[x].jumped => QueueLine(data, old, h, rec, x)
    BY <2>1, <2>3, <2>4
  <2> QED
    BY <2>5 DEF c, data, old, h, rec
<1>5. CASE s \notin DOMAIN timeData
  <2>1. /\ old[s] = c.ts /\ DOMAIN data = DOMAIN timeData \cup {s}
        /\ \A x \in DOMAIN timeData : old[x] = oldest[x] /\ data[x] = timeData[x]
        /\ data[s].samples = <<>> \o c.samples
    <3>1. old = Put(oldest, s, c.ts)
      BY <1>1, <1>2, <1>5 DEF InitialisedOldest
    <3> DEFINE base == Put(timeData, s, [channels |-> c.channels, samples |-> <<>>])
    <3>2. data = [base EXCEPT ![s].samples = @ \o c.samples]
      BY <1>1, <1>5 DEF StoredData, InitialisedData
    <3>3. /\ DOMAIN base = DOMAIN timeData \cup {s}
          /\ base[s] = [channels |-> c.channels, samples |-> <<>>]
          /\ \A x \in DOMAIN timeData : base[x] = timeData[x]
      BY <1>5 DEF Put
    <3> HIDE DEF data, old, base
    <3>4. /\ DOMAIN data = DOMAIN timeData \cup {s}
          /\ \A x \in DOMAIN timeData : data[x] = timeData[x]
      BY <1>5, <3>2, <3>3
    <3>5. data[s].samples = <<>> \o c.samples
      BY <3>2, <3>3
    <3>6. old[s] = c.ts /\ \A x \in DOMAIN timeData : old[x] = oldest[x]
      BY <1>2, <1>5, <3>1 DEF Put
    <3> QED
      BY <3>4, <3>5, <3>6
  <2>2. /\ h[s] = [taken |-> 0, jumped |-> FALSE]
        /\ \A x \in DOMAIN timeData : h[x] = history[x]
    BY <1>1, <1>2, <1>5 DEF Remember, Put
  <2> HIDE DEF data, old, h, rec
  <2>3. QueueLine(data, old, h, rec, s)
    <3>1. <<>> \o c.samples = c.samples
      BY <1>1, ConcatEmptySeq
    <3>2. old[s] + TDOALength * h[s].taken = c.ts
      BY <1>1, <2>1, <2>2
    <3> QED
      BY <1>1, <1>3, <2>1, <3>1, <3>2 DEF QueueLine
  <2>4. ASSUME NEW x \in DOMAIN timeData, ~h[x].jumped
        PROVE  QueueLine(data, old, h, rec, x)
    BY <1>3, <1>5, <2>1, <2>2, <2>4 DEF LinesInv, QueueLine
  <2>5. \A x \in DOMAIN data : ~h[x].jumped => QueueLine(data, old, h, rec, x)
    BY <2>1, <2>3, <2>4
  <2> QED
    BY <2>5 DEF c, data, old, h, rec
<1> QED
  BY <1>4, <1>5

(* Trimming moves samples and entry together.                              *)
LEMMA TrimmedLines ==
  ASSUME NEW data, GoodQueues(data), NEW old, IsMapInto(old, Nat),
         DOMAIN old = DOMAIN data, NEW h, IsMapInto(h, HistoryEntry),
         DOMAIN h = DOMAIN data, NEW rec, IsMapInto(rec, Nat), DOMAIN rec = DOMAIN data,
         NEW s \in DOMAIN data, QueueLine(data, old, h, rec, s), NEW rate, rate = Rate[s]
  PROVE  QueueLine(TrimmedData(data, old, rate), TrimmedOldest(data, old, rate), h, rec, s)
<1>1. s \in Sources /\ Rate[s] \in Nat \ {0} /\ ChunkTicks \in Nat /\ TDOALength \in Nat
  BY RateAssumption, DurationsAssumption DEF GoodQueues, IsMapInto
<1>2. CASE ~MayTrim(data, old, rate, s)
  BY <1>2 DEF QueueLine, TrimmedData, TrimmedOldest
<1>3. CASE MayTrim(data, old, rate, s)
  <2> DEFINE q == data[s].samples
             d == LatestStart(old) - old[s]
             head == old[s] + TDOALength * h[s].taken
             end == rec[s] + ChunkTicks
  <2>1. q \in Seq(Sample) /\ Len(q) \in Nat /\ data[s] \in Queue
    BY DEF GoodQueues, GoodQueue, Queue
  <2>2. old[s] \in Nat /\ h[s].taken \in Nat /\ rec[s] \in Nat
    BY DEF IsMapInto, HistoryEntry
  <2>3. head \in Nat /\ end \in Nat
    <3>1. TDOALength * h[s].taken \in Nat
      BY <1>1, <2>2, ProductNat
    <3> QED
      BY <1>1, <2>2, <3>1
  <2>4. LatestStart(old) \in Nat /\ old[s] <= LatestStart(old)
    BY LatestStartType
  <2>5. d \in Nat
    BY <2>2, <2>4
  <2>6. SamplesToRemove(old, rate, s) = Rate[s] * d
    BY DEF SamplesToRemove
  <2>7. /\ TrimmedOldest(data, old, rate)[s] = old[s] + d
        /\ TrimmedData(data, old, rate)[s].samples = SubSeq(q, Rate[s] * d + 1, Len(q))
    <3>1. TrimmedOldest(data, old, rate)[s] = LatestStart(old)
      BY <1>3 DEF TrimmedOldest
    <3>2. TrimmedData(data, old, rate)[s] =
            [data[s] EXCEPT !.samples =
               SubSeq(@, SamplesToRemove(old, rate, s) + 1, Len(@))]
      BY <1>3 DEF TrimmedData
    <3>3. TrimmedData(data, old, rate)[s].samples = SubSeq(q, Rate[s] * d + 1, Len(q))
      <4> DEFINE v == SubSeq(q, Rate[s] * d + 1, Len(q))
      <4>1. TrimmedData(data, old, rate)[s] = [data[s] EXCEPT !.samples = v]
        BY <2>6, <3>2
      <4>2. data[s] = [channels |-> data[s].channels, samples |-> data[s].samples]
        BY <2>1 DEF Queue
      <4> HIDE DEF v
      <4>3. [data[s] EXCEPT !.samples = v] = [channels |-> data[s].channels, samples |-> v]
        BY <4>2
      <4> QED
        BY <4>1, <4>3 DEF v
    <3> QED
      BY <2>2, <2>4, <3>1, <3>3
  <2>8. Rate[s] * d < Len(q)
    BY <1>3, <2>1, <2>6 DEF MayTrim
  <2>9. Line(q, Rate[s], head, end)
    BY DEF QueueLine
  <2>10. old[s] + d + TDOALength * h[s].taken = head + d
    <3>1. TDOALength * h[s].taken \in Nat
      BY <1>1, <2>2, ProductNat
    <3> HIDE DEF d
    <3> QED
      BY <2>2, <2>5, <3>1
  <2> HIDE DEF q, d, head, end
  <2>11. Line(SubSeq(q, Rate[s] * d + 1, Len(q)), Rate[s], head + d, end)
    BY <1>1, <2>1, <2>3, <2>5, <2>8, <2>9, LineSuffix
  <2> QED
    BY <2>7, <2>10, <2>11 DEF QueueLine, end
<1> QED
  BY <1>2, <1>3

(* Emitting moves the samples and is counted.                              *)
LEMMA RemainingLines ==
  ASSUME NEW data, GoodQueues(data), NEW old, IsMapInto(old, Nat),
         DOMAIN old = DOMAIN data, NEW h, IsMapInto(h, HistoryEntry),
         DOMAIN h = DOMAIN data, NEW rec, IsMapInto(rec, Nat), DOMAIN rec = DOMAIN data,
         NEW s \in DOMAIN data, QueueLine(data, old, h, rec, s), NEW rate, rate = Rate[s],
         CheckQueuesHaveEnoughData(data, rate)
  PROVE  QueueLine(RemainingData(data, rate), old, CountTaken(h), rec, s)
<1> DEFINE q == data[s].samples
           head == old[s] + TDOALength * h[s].taken
           end == rec[s] + ChunkTicks
<1>1. s \in Sources /\ Rate[s] \in Nat \ {0} /\ ChunkTicks \in Nat /\ TDOALength \in Nat
  BY RateAssumption, DurationsAssumption DEF GoodQueues, IsMapInto
<1>2. q \in Seq(Sample) /\ Len(q) \in Nat /\ data[s] \in Queue
  BY DEF GoodQueues, GoodQueue, Queue
<1>3. old[s] \in Nat /\ h[s].taken \in Nat /\ rec[s] \in Nat
  BY DEF IsMapInto, HistoryEntry
<1>4. TDOALength * h[s].taken \in Nat
  BY <1>1, <1>3, ProductNat
<1>5. head \in Nat /\ end \in Nat
  BY <1>1, <1>3, <1>4
<1>6. SamplesRequired(rate) = Rate[s] * TDOALength
  BY <1>1 DEF SamplesRequired
<1>7. RemainingData(data, rate)[s].samples = SubSeq(q, Rate[s] * TDOALength + 1, Len(q))
  <2>1. RemainingData(data, rate)[s] =
          [data[s] EXCEPT !.samples = SubSeq(@, SamplesRequired(rate) + 1, Len(@))]
    BY DEF RemainingData
  <2> DEFINE v == SubSeq(q, Rate[s] * TDOALength + 1, Len(q))
  <2>2. RemainingData(data, rate)[s] = [data[s] EXCEPT !.samples = v]
    BY <1>6, <2>1
  <2>3. data[s] = [channels |-> data[s].channels, samples |-> data[s].samples]
    BY <1>2 DEF Queue
  <2> HIDE DEF v
  <2>4. [data[s] EXCEPT !.samples = v] = [channels |-> data[s].channels, samples |-> v]
    BY <2>3
  <2> QED
    BY <2>2, <2>4 DEF v
<1>8. Rate[s] * TDOALength < Len(q)
  <2>1. Rate[s] * TDOALength \in Nat
    BY <1>1, ProductNat
  <2> QED
    BY <1>2, <1>6, <2>1 DEF CheckQueuesHaveEnoughData
<1>9. Line(q, Rate[s], head, end)
  BY DEF QueueLine
<1>10. CountTaken(h)[s].taken = h[s].taken + 1
  BY DEF CountTaken, IsMapInto, HistoryEntry
<1>11. old[s] + TDOALength * (h[s].taken + 1) = head + TDOALength
  <2>1. TDOALength * (h[s].taken + 1) = TDOALength * h[s].taken + TDOALength
    BY <1>1, <1>3
  <2> QED
    BY <1>1, <1>3, <1>4, <2>1
<1> HIDE DEF q, head, end
<1>12. Line(SubSeq(q, Rate[s] * TDOALength + 1, Len(q)), Rate[s], head + TDOALength, end)
  BY <1>1, <1>2, <1>5, <1>8, <1>9, LineSuffix
<1> QED
  BY <1>7, <1>10, <1>11, <1>12 DEF QueueLine, end

(* An accepted chunk keeps every queue on its line, whether it trims,      *)
(* only stores or emits.                                                   *)
LEMMA AcceptKeepsLines ==
  ASSUME MapsInv, LinesInv, SameRate, NEW s \in Sources, AcceptTimeChunk(NextChunk(s))
  PROVE  \A x \in DOMAIN timeData' :
           ~history'[x].jumped => QueueLine(timeData', oldest', history', recent', x)
<1> DEFINE c == NextChunk(s)
           data == StoredData(InitialisedData(c), c)
           old == InitialisedOldest(c)
           rate == c.rate
           h == Remember(c)
           rec == Put(recent, s, c.ts)
<1>1. c.src = s /\ c.ts \in Nat /\ rate \in Nat \ {0} /\ rate = Rate[s]
  BY NextChunkType DEF MapsInv, NextChunk
<1>2. /\ GoodQueues(data) /\ DOMAIN data = DOMAIN timeData \cup {s}
      /\ IsMapInto(old, Nat) /\ DOMAIN old = DOMAIN data
  BY StoredGood, OldestType DEF AcceptTimeChunk, MapsInv
<1>3. IsMapInto(h, HistoryEntry) /\ DOMAIN h = DOMAIN data
  BY <1>2, HistoryType
<1>4. \A x \in DOMAIN data : ~h[x].jumped => QueueLine(data, old, h, rec, x)
  BY StoredLines DEF AcceptTimeChunk
<1>5. recent' = rec
  BY <1>1 DEF AcceptTimeChunk
<1>6. \/ /\ timeData' = TrimmedData(data, old, rate)
         /\ oldest' = TrimmedOldest(data, old, rate) /\ history' = h
      \/ timeData' = data /\ oldest' = old /\ history' = h
      \/ /\ CheckQueuesHaveEnoughData(data, rate)
         /\ timeData' = RemainingData(data, rate)
         /\ oldest' = old /\ history' = CountTaken(h)
  BY DEF AcceptTimeChunk
<1>7. \A x \in DOMAIN data : rate = Rate[x]
  BY <1>1, <1>2 DEF SameRate, GoodQueues, IsMapInto
<1> DEFINE ts == c.ts
<1>8. IsMapInto(recent, Nat) /\ DOMAIN recent = DOMAIN timeData /\ ts \in Nat
  BY <1>1 DEF MapsInv, TypeOK, StoresAgree
<1>9. rec = Put(recent, s, ts)
  OBVIOUS
<1> HIDE DEF c, data, old, rate, h, rec, ts
<1>10. IsMapInto(rec, Nat) /\ DOMAIN rec = DOMAIN data
  BY <1>2, <1>8, <1>9 DEF Put, IsMapInto
<1>11. CASE /\ timeData' = TrimmedData(data, old, rate)
            /\ oldest' = TrimmedOldest(data, old, rate) /\ history' = h
  <2> SUFFICES ASSUME NEW x \in DOMAIN timeData', ~history'[x].jumped
               PROVE  QueueLine(timeData', oldest', history', recent', x)
    OBVIOUS
  <2>1. x \in DOMAIN data /\ QueueLine(data, old, h, rec, x)
    BY <1>4, <1>11 DEF TrimmedData
  <2> QED
    BY <1>2, <1>3, <1>5, <1>7, <1>10, <1>11, <2>1, TrimmedLines
<1>12. CASE timeData' = data /\ oldest' = old /\ history' = h
  BY <1>4, <1>5, <1>12
<1>13. CASE /\ CheckQueuesHaveEnoughData(data, rate)
            /\ timeData' = RemainingData(data, rate)
            /\ oldest' = old /\ history' = CountTaken(h)
  <2> SUFFICES ASSUME NEW x \in DOMAIN timeData', ~history'[x].jumped
               PROVE  QueueLine(timeData', oldest', history', recent', x)
    OBVIOUS
  <2>1. x \in DOMAIN data
    BY <1>13 DEF RemainingData
  <2>2. h[x] \in HistoryEntry
    BY <1>3, <2>1 DEF IsMapInto
  <2>3. ~h[x].jumped
    BY <1>3, <1>13, <2>1, <2>2 DEF CountTaken, HistoryEntry
  <2>4. QueueLine(data, old, h, rec, x)
    BY <1>4, <2>1, <2>3
  <2> QED
    BY <1>2, <1>3, <1>5, <1>7, <1>10, <1>13, <2>1, <2>4, RemainingLines
<1> QED
  BY <1>6, <1>11, <1>12, <1>13

LEMMA LinesNext == MapsInv /\ LinesInv /\ [Next]_vars => LinesInv'
<1> SUFFICES ASSUME MapsInv, LinesInv, [Next]_vars, SameRate
             PROVE  \A x \in DOMAIN timeData' :
                      ~history'[x].jumped => QueueLine(timeData', oldest', history', recent', x)
  BY DEF LinesInv, SameRate
<1>1. CASE UNCHANGED <<oldest, recent, timeData, history>>
  BY <1>1 DEF LinesInv
<1>2. ASSUME NEW s \in Sources, RejectTimeChunk(NextChunk(s)) PROVE timeData' = EmptyMap
  BY <1>2 DEF RejectTimeChunk, ClearState
<1>3. ASSUME NEW s \in Sources, Process_TimeChunk(s)
      PROVE  \A x \in DOMAIN timeData' :
               ~history'[x].jumped => QueueLine(timeData', oldest', history', recent', x)
  <2>1. CASE RejectTimeChunk(NextChunk(s))
    BY <1>2, <2>1 DEF EmptyMap
  <2>2. CASE AcceptTimeChunk(NextChunk(s))
    BY <2>2, AcceptKeepsLines
  <2> QED
    BY <1>3, <2>1, <2>2 DEF Process_TimeChunk
<1>4. \/ \E s \in Sources : Process_TimeChunk(s)
      \/ UNCHANGED <<oldest, recent, timeData, history>>
  BY DEF Next, Tick, Process_GPSChunk, LoseChunk, Reboot, store, vars
<1> QED
  BY <1>1, <1>3, <1>4

LEMMA LinesLag == MapsInv /\ LinesInv => HeadLag
<1> SUFFICES ASSUME MapsInv, LinesInv, SameRate, NEW s \in DOMAIN timeData,
                    ~history[s].jumped
             PROVE  timeData[s].samples[1].t = oldest[s] + TDOALength * history[s].taken
  BY DEF HeadLag
<1> DEFINE q == timeData[s].samples
           head == oldest[s] + TDOALength * history[s].taken
<1>1. Line(q, Rate[s], head, recent[s] + ChunkTicks)
  BY DEF LinesInv, QueueLine
<1>2. q \in Seq(Sample) /\ Len(q) \in Nat /\ q # <<>>
  BY DEF MapsInv, TypeOK, StoresAgree, IsMapInto, Queue
<1>3. Len(q) >= 1
  BY <1>2, EmptySeq
<1>4. head \in Nat /\ Rate[s] \in Nat \ {0}
  <2>1. /\ oldest[s] \in Nat /\ history[s].taken \in Nat /\ s \in Sources
        /\ TDOALength \in Nat
    BY DurationsAssumption DEF MapsInv, TypeOK, StoresAgree, IsMapInto
  <2>2. TDOALength * history[s].taken \in Nat
    BY <2>1, ProductNat
  <2> QED
    BY <2>1, <2>2, RateAssumption
<1> HIDE DEF q, head
<1>5. q[1].t = head + ((1 - 1) \div Rate[s])
  BY <1>1, <1>2, <1>3 DEF Line
<1>6. (1 - 1) \div Rate[s] = 0
  BY <1>4
<1> QED
  BY <1>4, <1>5, <1>6 DEF q, head

(* m_OldestSourceTimestampMap lags behind the queues by exactly one        *)
(* TDOALength per emission, for any number of sources of one rate: see     *)
(* HeadLag.                                                                *)
THEOREM HeadAlwaysLags == Spec => []HeadLag
<1>1. Init => LinesInv
  BY DEF Init, LinesInv, EmptyMap
<1> QED
  BY <1>1, MapsInit, MapsNext, LinesNext, LinesLag, PTL DEF Spec

-----------------------------------------------------------------------------
(* Neighbours in a queue, of one rate or of many.  The inductive invariant *)
(* adds where the queue ends: a tick before the end of the chunk that      *)
(* IsDataContinuous compares the next one with.                            *)

Neighbours(q) ==
  \A i \in 1..Len(q) - 1 : q[i + 1].t - q[i].t \in -ErrBound..ErrBound + 1

QueueGaps(q, end) == Neighbours(q) /\ q[Len(q)].t = end - 1

GapsInv == \A s \in DOMAIN timeData : QueueGaps(timeData[s].samples, recent[s] + ChunkTicks)

LEMMA DivBounds ==
  ASSUME NEW r \in Nat \ {0}, NEW i \in Nat
  PROVE  r * (i \div r) <= i /\ i < r * (i \div r) + r
OBVIOUS

LEMMA DivSmall ==
  ASSUME NEW r \in Nat \ {0}, NEW i \in 0..r - 1
  PROVE  i \div r = 0
OBVIOUS

LEMMA DivSuccessor ==
  ASSUME NEW r \in Nat \ {0}, NEW i \in Nat
  PROVE  ((i + 1) \div r) - (i \div r) \in 0..1
<1> DEFINE d == i \div r
           k == i - r * d
<1>1. d \in Nat
  BY TicksNat
<1>2. k \in 0..r - 1 /\ i = k + r * d
  <2>1. r * d \in Nat
    BY <1>1, ProductNat
  <2> QED
    BY <2>1, DivBounds
<1> HIDE DEF d, k
<1>3. CASE k + 1 < r
  <2>1. i + 1 = (k + 1) + r * d
    BY <1>1, <1>2, ProductNat
  <2>2. k + 1 \in 0..r - 1
    BY <1>2, <1>3
  <2>3. ((k + 1) + r * d) \div r = ((k + 1) \div r) + d
    BY <1>1, <2>2, TicksShift, SMTT(30)
  <2>4. (k + 1) \div r = 0
    BY <2>2, DivSmall
  <2>5. (i + 1) \div r = d
    BY <1>1, <2>1, <2>3, <2>4
  <2> QED
    BY <1>1, <2>5 DEF d
<1>4. CASE ~(k + 1 < r)
  <2>1. k + 1 = r
    BY <1>2, <1>4
  <2>2. i + 1 = 0 + r * (d + 1)
    <3>1. r * (d + 1) = r * d + r
      BY <1>1
    <3> QED
      BY <1>1, <1>2, <2>1, <3>1, ProductNat
  <2>3. (0 + r * (d + 1)) \div r = (0 \div r) + (d + 1)
    BY <1>1, TicksShift
  <2>4. 0 \div r = 0
    BY DivSmall
  <2>5. (i + 1) \div r = d + 1
    BY <1>1, <2>2, <2>3, <2>4
  <2> QED
    BY <1>1, <2>5 DEF d
<1> QED
  BY <1>3, <1>4

(* A chunk is an unbroken line of its duration.                            *)
LEMMA ChunkGaps ==
  ASSUME TypeOK, NEW s \in Sources
  PROVE  /\ NextChunk(s).samples[1].t = NextChunk(s).ts
         /\ QueueGaps(NextChunk(s).samples, NextChunk(s).ts + ChunkTicks)
         /\ Len(NextChunk(s).samples) \div NextChunk(s).rate = ChunkTicks
<1> DEFINE q == NextChunk(s).samples
           r == Rate[s]
           ts == NextChunk(s).ts
<1>1. /\ r \in Nat \ {0} /\ ChunkTicks \in Nat \ {0} /\ ErrBound \in Nat
      /\ ts \in Nat /\ NextChunk(s).rate = r /\ Len(q) \in Nat \ {0}
  BY NextChunkType, RateAssumption, DurationsAssumption DEF NextChunk
<1>2. Line(q, r, ts, ts + ChunkTicks)
  BY LineChunk
<1> HIDE DEF q, r, ts
<1>3. \A i \in 1..Len(q) : q[i].t = ts + ((i - 1) \div r)
  BY <1>2 DEF Line
<1>4. Len(q) = r * ChunkTicks
  <2>1. (ts + ChunkTicks) - ts = ChunkTicks
    BY <1>1
  <2>2. Len(q) = r * ((ts + ChunkTicks) - ts)
    BY <1>2, Zenon DEF Line
  <2> QED
    BY <2>1, <2>2, Zenon
<1>5. q[1].t = ts
  <2>1. 0 \div r = 0
    BY <1>1, DivSmall
  <2>2. q[1].t = ts + ((1 - 1) \div r)
    BY <1>1, <1>3
  <2> QED
    BY <1>1, <2>1, <2>2
<1>6. Neighbours(q)
  <2> SUFFICES ASSUME NEW i \in 1..Len(q) - 1
               PROVE  q[i + 1].t - q[i].t \in -ErrBound..ErrBound + 1
    BY DEF Neighbours
  <2> DEFINE j == i - 1
             a == j \div r
             b == (j + 1) \div r
  <2>1. j \in Nat /\ j + 1 \in Nat /\ i \in 1..Len(q) /\ i + 1 \in 1..Len(q) /\ i + 1 - 1 = j + 1
    BY <1>1
  <2>2. a \in Nat /\ b \in Nat /\ b - a \in 0..1
    BY <1>1, <2>1, TicksNat, DivSuccessor
  <2>3. q[i].t = ts + a /\ q[i + 1].t = ts + b
    BY <1>3, <2>1
  <2> HIDE DEF j, a, b
  <2> QED
    BY <1>1, <2>2, <2>3
<1>7. q[Len(q)].t = ts + ChunkTicks - 1
  <2> DEFINE n == ChunkTicks - 1
  <2>1. n \in Nat /\ r - 1 \in Nat /\ r - 1 \in 0..r - 1
    BY <1>1
  <2>2. Len(q) - 1 = (r - 1) + r * n
    <3>1. r * ChunkTicks = r * n + r
      BY <1>1
    <3>2. r * n \in Nat
      BY <1>1, <2>1, ProductNat
    <3> QED
      BY <1>1, <1>4, <3>1, <3>2
  <2>3. ((r - 1) + r * n) \div r = ((r - 1) \div r) + n
    BY <1>1, <2>1, TicksShift
  <2>4. (r - 1) \div r = 0
    BY <1>1, <2>1, DivSmall
  <2>5. q[Len(q)].t = ts + ((Len(q) - 1) \div r)
    BY <1>1, <1>3
  <2>6. (Len(q) - 1) \div r = n
    BY <2>1, <2>2, <2>3, <2>4
  <2> QED
    BY <1>1, <2>5, <2>6
<1>8. Len(q) \div r = ChunkTicks
  <2>1. Len(q) = 0 + r * ChunkTicks
    BY <1>1, <1>4, ProductNat
  <2>2. (0 + r * ChunkTicks) \div r = (0 \div r) + ChunkTicks
    BY <1>1, TicksShift
  <2>3. 0 \div r = 0
    BY <1>1, DivSmall
  <2> QED
    BY <1>1, <2>1, <2>2, <2>3
<1> QED
  BY <1>1, <1>5, <1>6, <1>7, <1>8 DEF QueueGaps, q, r, ts

LEMMA GapsSuffix ==
  ASSUME NEW q \in Seq(Sample), NEW n \in Nat, n < Len(q), NEW end, QueueGaps(q, end)
  PROVE  QueueGaps(SubSeq(q, n + 1, Len(q)), end)
<1> DEFINE sub == SubSeq(q, n + 1, Len(q))
<1>1. Len(q) \in Nat
  BY LenProperties
<1>2. Len(sub) = Len(q) - n /\ \A i \in 1..Len(q) - n : sub[i] = q[n + i]
  BY SuffixElements
<1> HIDE DEF sub
<1>3. Neighbours(sub)
  <2> SUFFICES ASSUME NEW i \in 1..Len(sub) - 1
               PROVE  sub[i + 1].t - sub[i].t \in -ErrBound..ErrBound + 1
    BY DEF Neighbours
  <2>1. n + i \in 1..Len(q) - 1 /\ n + (i + 1) = n + i + 1
    BY <1>1, <1>2
  <2>2. sub[i] = q[n + i] /\ sub[i + 1] = q[n + i + 1]
    BY <1>1, <1>2, <2>1
  <2> QED
    BY <2>1, <2>2 DEF QueueGaps, Neighbours
<1>4. sub[Len(sub)] = q[Len(q)]
  BY <1>1, <1>2
<1> QED
  BY <1>3, <1>4 DEF QueueGaps, sub

LEMMA GapsConcat ==
  ASSUME NEW a \in Seq(Sample), NEW b \in Seq(Sample), Len(b) # 0, NEW end,
         Neighbours(a), QueueGaps(b, end),
         Len(a) # 0 => b[1].t - a[Len(a)].t \in -ErrBound..ErrBound + 1
  PROVE  QueueGaps(a \o b, end)
<1> DEFINE ab == a \o b
<1>1. Len(a) \in Nat /\ Len(b) \in Nat \ {0}
  BY LenProperties
<1>2. /\ Len(ab) = Len(a) + Len(b)
      /\ \A i \in 1..Len(a) + Len(b) : ab[i] = IF i <= Len(a) THEN a[i] ELSE b[i - Len(a)]
  BY ConcatProperties
<1> HIDE DEF ab
<1>3. Neighbours(ab)
  <2> SUFFICES ASSUME NEW i \in 1..Len(ab) - 1
               PROVE  ab[i + 1].t - ab[i].t \in -ErrBound..ErrBound + 1
    BY DEF Neighbours
  <2>1. CASE i < Len(a)
    <3>1. i \in 1..Len(a) - 1 /\ ab[i] = a[i] /\ ab[i + 1] = a[i + 1]
      BY <1>1, <1>2, <2>1
    <3> QED
      BY <3>1 DEF Neighbours
  <2>2. CASE i = Len(a)
    <3>1. ab[i] = a[Len(a)] /\ ab[i + 1] = b[1] /\ Len(a) # 0
      BY <1>1, <1>2, <2>2
    <3> QED
      BY <3>1
  <2>3. CASE i > Len(a)
    <3> DEFINE j == i - Len(a)
    <3>1. /\ j \in 1..Len(b) - 1 /\ i + 1 - Len(a) = j + 1
          /\ ab[i] = b[j] /\ ab[i + 1] = b[i + 1 - Len(a)]
      BY <1>1, <1>2, <2>3, SMTT(30)
    <3> QED
      BY <3>1 DEF QueueGaps, Neighbours
  <2> QED
    BY <1>1, <2>1, <2>2, <2>3
<1>4. ab[Len(ab)] = b[Len(b)]
  <2>1. ab[Len(ab)] = b[Len(ab) - Len(a)]
    BY <1>1, <1>2
  <2> QED
    BY <1>1, <1>2, <2>1
<1> QED
  BY <1>3, <1>4 DEF QueueGaps, ab

(* A chunk that passed IsDataContinuous goes on where its queue ends, to   *)
(* the tolerated error.                                                    *)
LEMMA StoredGaps ==
  ASSUME MapsInv, GapsInv, NEW s \in Sources,
         IsDataContinuous(InitialisedRecent(NextChunk(s)), NextChunk(s)),
         IsChannelCountTheSame(InitialisedData(NextChunk(s)), NextChunk(s))
  PROVE  LET c == NextChunk(s)
             data == StoredData(InitialisedData(c), c)
         IN  \A x \in DOMAIN data :
               QueueGaps(data[x].samples, Put(recent, s, c.ts)[x] + ChunkTicks)
<1> DEFINE c == NextChunk(s)
           data == StoredData(InitialisedData(c), c)
           rec == Put(recent, s, c.ts)
<1>1. /\ c.src = s /\ c.ts \in Nat /\ c.samples \in Seq(Sample) /\ Len(c.samples) # 0
      /\ c.samples[1].t = c.ts /\ QueueGaps(c.samples, c.ts + ChunkTicks)
      /\ Len(c.samples) \div c.rate = ChunkTicks
      /\ ChunkTicks \in Nat /\ ErrBound \in Nat
      /\ IsDataContinuous(InitialisedRecent(c), c)
  BY NextChunkType, ChunkGaps, DurationsAssumption DEF MapsInv
<1> HIDE DEF c
<1>2. /\ DOMAIN recent = DOMAIN timeData
      /\ IsMapInto(recent, Nat) /\ IsMapInto(timeData, Queue)
  BY DEF MapsInv, TypeOK, StoresAgree
<1>3. rec[s] = c.ts /\ \A x \in DOMAIN timeData \ {s} : rec[x] = recent[x]
  BY <1>2 DEF Put
<1>4. CASE s \in DOMAIN timeData
  <2>1. /\ DOMAIN data = DOMAIN timeData
        /\ data[s].samples = timeData[s].samples \o c.samples
        /\ \A x \in DOMAIN timeData \ {s} : data[x] = timeData[x]
    <3>1. data = [timeData EXCEPT ![s].samples = @ \o c.samples]
      BY <1>1, <1>4 DEF StoredData, InitialisedData
    <3>2. timeData[s] \in Queue
      BY <1>2, <1>4 DEF IsMapInto
    <3>3. data = [timeData EXCEPT ![s] =
                    [channels |-> timeData[s].channels,
                     samples |-> timeData[s].samples \o c.samples]]
      BY <3>1, <3>2, QueueExcept
    <3> HIDE DEF data
    <3> QED
      BY <1>1, <1>2, <1>4, <3>3 DEF IsMapInto
  <2> DEFINE q == timeData[s].samples
             end == c.ts + ChunkTicks
  <2>2. q \in Seq(Sample) /\ recent[s] \in Nat
    BY <1>2, <1>4 DEF IsMapInto, Queue
  <2>3. Neighbours(q) /\ q[Len(q)].t = (recent[s] + ChunkTicks) - 1
    BY <1>4 DEF GapsInv, QueueGaps
  <2>4. Abs(c.ts - (recent[s] + ChunkTicks)) <= ErrBound
    <3>1. InitialisedRecent(c) = recent /\ s \in DOMAIN recent
      BY <1>1, <1>2, <1>4 DEF InitialisedRecent
    <3> QED
      BY <1>1, <3>1 DEF IsDataContinuous
  <2> HIDE DEF q, end, data, rec
  <2>5. c.samples[1].t - q[Len(q)].t \in -ErrBound..ErrBound + 1
    <3> DEFINE first == c.samples[1].t
               final == q[Len(q)].t
               expected == recent[s] + ChunkTicks
    <3>1. /\ expected \in Nat /\ ErrBound \in Nat /\ first \in Nat
          /\ final = expected - 1 /\ Abs(first - expected) <= ErrBound
      BY <1>1, <2>2, <2>3, <2>4
    <3> HIDE DEF first, final, expected
    <3>2. first - final \in -ErrBound..ErrBound + 1
      BY <3>1 DEF Abs
    <3> QED
      BY <3>2 DEF first, final
  <2>6. QueueGaps(q \o c.samples, end)
    BY <1>1, <2>2, <2>3, <2>5, GapsConcat DEF end
  <2>7. \A x \in DOMAIN data : QueueGaps(data[x].samples, rec[x] + ChunkTicks)
    BY <1>3, <1>4, <2>1, <2>6 DEF q, end, GapsInv
  <2> QED
    BY <2>7 DEF c, data, rec
<1>5. CASE s \notin DOMAIN timeData
  <2>1. /\ DOMAIN data = DOMAIN timeData \cup {s}
        /\ \A x \in DOMAIN timeData : data[x] = timeData[x]
        /\ data[s].samples = <<>> \o c.samples
    <3> DEFINE base == Put(timeData, s, [channels |-> c.channels, samples |-> <<>>])
    <3>1. data = [base EXCEPT ![s].samples = @ \o c.samples]
      BY <1>1, <1>5 DEF StoredData, InitialisedData
    <3>2. /\ DOMAIN base = DOMAIN timeData \cup {s}
          /\ base[s] = [channels |-> c.channels, samples |-> <<>>]
          /\ \A x \in DOMAIN timeData : base[x] = timeData[x]
      BY <1>5 DEF Put
    <3> HIDE DEF data, base
    <3>3. /\ DOMAIN data = DOMAIN timeData \cup {s}
          /\ \A x \in DOMAIN timeData : data[x] = timeData[x]
      BY <1>5, <3>1, <3>2
    <3>4. data[s].samples = <<>> \o c.samples
      BY <3>1, <3>2
    <3> QED
      BY <3>3, <3>4
  <2>2. <<>> \o c.samples = c.samples
    BY <1>1, ConcatEmptySeq
  <2> HIDE DEF data, rec
  <2>3. \A x \in DOMAIN data : QueueGaps(data[x].samples, rec[x] + ChunkTicks)
    BY <1>1, <1>3, <1>5, <2>1, <2>2 DEF GapsInv
  <2> QED
    BY <2>3 DEF c, data, rec
<1> QED
  BY <1>4, <1>5

(* What TrimmedData and RemainingData leave of a queue ends where it did.  *)
LEMMA TrimmedGaps ==
  ASSUME NEW data, GoodQueues(data), NEW old, NEW rate, NEW s \in DOMAIN data, NEW end,
         QueueGaps(data[s].samples, end)
  PROVE  QueueGaps(TrimmedData(data, old, rate)[s].samples, end)
<1> DEFINE n == SamplesToRemove(old, rate, s)
           q == data[s].samples
<1>1. data[s] \in Queue /\ q \in Seq(Sample) /\ Len(q) \in Nat
  BY DEF GoodQueues, GoodQueue, Queue
<1>2. CASE MayTrim(data, old, rate, s)
  <2>1. n \in Nat /\ n < Len(q)
    BY <1>1, <1>2 DEF MayTrim
  <2>2. TrimmedData(data, old, rate)[s] = [data[s] EXCEPT !.samples = SubSeq(q, n + 1, Len(q))]
    BY <1>2 DEF TrimmedData
  <2> HIDE DEF n
  <2>3. TrimmedData(data, old, rate)[s].samples = SubSeq(q, n + 1, Len(q))
    <3> DEFINE v == SubSeq(q, n + 1, Len(q))
    <3>1. TrimmedData(data, old, rate)[s] = [data[s] EXCEPT !.samples = v]
      BY <2>2
    <3> HIDE DEF v
    <3>2. [data[s] EXCEPT !.samples = v] = [channels |-> data[s].channels, samples |-> v]
      BY <1>1, QueueExcept
    <3>3. TrimmedData(data, old, rate)[s].samples = v
      BY <3>1, <3>2
    <3> QED
      BY <3>3 DEF v
  <2> HIDE DEF q
  <2> QED
    BY <1>1, <2>1, <2>3, GapsSuffix DEF q
<1>3. CASE ~MayTrim(data, old, rate, s)
  BY <1>3 DEF TrimmedData
<1> QED
  BY <1>2, <1>3

LEMMA RemainingGaps ==
  ASSUME NEW data, GoodQueues(data), NEW rate, SamplesRequired(rate) \in Nat,
         CheckQueuesHaveEnoughData(data, rate), NEW s \in DOMAIN data, NEW end,
         QueueGaps(data[s].samples, end)
  PROVE  QueueGaps(RemainingData(data, rate)[s].samples, end)
<1> DEFINE n == SamplesRequired(rate)
           q == data[s].samples
<1>1. data[s] \in Queue /\ q \in Seq(Sample) /\ n < Len(q)
  BY DEF GoodQueues, GoodQueue, Queue, CheckQueuesHaveEnoughData
<1>2. RemainingData(data, rate)[s] = [data[s] EXCEPT !.samples = SubSeq(q, n + 1, Len(q))]
  BY DEF RemainingData
<1> HIDE DEF n
<1>3. RemainingData(data, rate)[s].samples = SubSeq(q, n + 1, Len(q))
  <2> DEFINE v == SubSeq(q, n + 1, Len(q))
  <2>1. RemainingData(data, rate)[s] = [data[s] EXCEPT !.samples = v]
    BY <1>2
  <2> HIDE DEF v
  <2>2. [data[s] EXCEPT !.samples = v] = [channels |-> data[s].channels, samples |-> v]
    BY <1>1, QueueExcept
  <2>3. RemainingData(data, rate)[s].samples = v
    BY <2>1, <2>2
  <2> QED
    BY <2>3 DEF v
<1> HIDE DEF q
<1> QED
  BY <1>1, <1>3, GapsSuffix DEF q, n

(* A stretch cut from queues without gaps, all at the rate of the chunk    *)
(* that triggered it.                                                      *)
LEMMA EmittedWellFormed ==
  ASSUME NEW data, GoodQueues(data), NEW old, NEW s \in DOMAIN data,
         \A x \in DOMAIN data : Neighbours(data[x].samples),
         SamplesRequired(Rate[s]) \in Nat, CheckQueuesHaveEnoughData(data, Rate[s]),
         CheckQueuesHaveDataForMultilateration(data),
         tdoa' = CreateSynchronizedTimeChunk(data, old, Rate[s])
  PROVE  TDOAWellFormed'
<1> DEFINE n == SamplesRequired(Rate[s])
<1>1. /\ DOMAIN tdoa'.segments = DOMAIN data /\ DOMAIN tdoa'.positions = DOMAIN data
      /\ \A x \in DOMAIN data : tdoa'.segments[x] = SubSeq(data[x].samples, 1, n)
  BY DEF CreateSynchronizedTimeChunk
<1>2. n \in {TDOALength * Rate[x] : x \in DOMAIN data}
  BY DEF SamplesRequired
<1>3. n \in Nat
  OBVIOUS
<1>4. \A x \in DOMAIN data : n < Len(data[x].samples)
  BY DEF CheckQueuesHaveEnoughData
<1> HIDE DEF n
<1>5. ASSUME NEW x \in DOMAIN data
      PROVE  /\ Len(tdoa'.segments[x]) = n
             /\ \A i \in 1..n - 1 :
                  /\ tdoa'.segments[x][i + 1].layout = tdoa'.segments[x][i].layout
                  /\ tdoa'.segments[x][i + 1].t - tdoa'.segments[x][i].t
                       \in -ErrBound..ErrBound + 1
  <2> DEFINE q == data[x].samples
             sub == tdoa'.segments[x]
  <2>1. /\ q \in Seq(Sample) /\ Len(q) \in Nat /\ n < Len(q) /\ Neighbours(q)
        /\ sub = SubSeq(q, 1, n)
        /\ \A i \in 1..Len(q) : q[i].layout = data[x].channels
    BY <1>1, <1>4, <1>5 DEF GoodQueues, GoodQueue, Queue
  <2> HIDE DEF q, sub
  <2>2. \A i \in 1..n : q[i] \in Sample
    BY <1>3, <2>1, ElementOfSeq
  <2>3. Len(sub) = n /\ \A i \in 1..n : sub[i] = q[i]
    BY <1>3, <2>1, <2>2, SubSeqProperties
  <2>4. ASSUME NEW i \in 1..n - 1
        PROVE  /\ sub[i + 1].layout = sub[i].layout
               /\ sub[i + 1].t - sub[i].t \in -ErrBound..ErrBound + 1
    <3>1. i \in 1..Len(q) - 1 /\ i \in 1..Len(q) /\ i + 1 \in 1..Len(q)
      BY <1>3, <2>1
    <3>2. sub[i] = q[i] /\ sub[i + 1] = q[i + 1]
      BY <1>3, <2>3
    <3> QED
      BY <2>1, <3>1, <3>2 DEF Neighbours
  <2> QED
    BY <2>3, <2>4 DEF sub
<1>6. Cardinality(DOMAIN tdoa'.segments) >= MinSources
  BY <1>1 DEF CheckQueuesHaveDataForMultilateration
<1> QED
  BY <1>1, <1>2, <1>5, <1>6 DEF TDOAWellFormed

LEMMA AcceptKeepsGaps ==
  ASSUME MapsInv, GapsInv, TDOAWellFormed, NEW s \in Sources, AcceptTimeChunk(NextChunk(s))
  PROVE  GapsInv' /\ TDOAWellFormed'
<1> DEFINE c == NextChunk(s)
           data == StoredData(InitialisedData(c), c)
           old == InitialisedOldest(c)
           rate == c.rate
           ts == c.ts
<1>1. c.src = s /\ rate = Rate[s] /\ rate \in Nat \ {0}
  BY NextChunkType DEF MapsInv, NextChunk
<1>2. GoodQueues(data) /\ DOMAIN data = DOMAIN timeData \cup {s}
  BY StoredGood DEF AcceptTimeChunk, MapsInv
<1>3. \A x \in DOMAIN data : QueueGaps(data[x].samples, Put(recent, s, ts)[x] + ChunkTicks)
  BY StoredGaps DEF AcceptTimeChunk
<1>4. recent' = Put(recent, s, ts)
  BY <1>1 DEF AcceptTimeChunk
<1>5. \/ timeData' = TrimmedData(data, old, rate) /\ UNCHANGED tdoa
      \/ timeData' = data /\ UNCHANGED tdoa
      \/ /\ CheckQueuesHaveDataForMultilateration(data)
         /\ CheckQueuesHaveEnoughData(data, rate)
         /\ timeData' = RemainingData(data, rate)
         /\ tdoa' = CreateSynchronizedTimeChunk(data, old, rate)
  BY DEF AcceptTimeChunk
<1> HIDE DEF c, data, old, rate, ts
<1>6. SamplesRequired(rate) \in Nat
  BY <1>1, SamplesPerTick, DurationsAssumption DEF SamplesRequired
<1>7. CASE timeData' = TrimmedData(data, old, rate) /\ UNCHANGED tdoa
  <2>1. ASSUME NEW x \in DOMAIN timeData'
        PROVE  QueueGaps(timeData'[x].samples, recent'[x] + ChunkTicks)
    <3>1. x \in DOMAIN data
      BY <1>7 DEF TrimmedData
    <3> QED
      BY <1>2, <1>3, <1>4, <1>7, <3>1, TrimmedGaps
  <2> QED
    BY <1>7, <2>1 DEF GapsInv, TDOAWellFormed
<1>8. CASE timeData' = data /\ UNCHANGED tdoa
  BY <1>3, <1>4, <1>8 DEF GapsInv, TDOAWellFormed
<1>9. CASE /\ CheckQueuesHaveDataForMultilateration(data)
           /\ CheckQueuesHaveEnoughData(data, rate)
           /\ timeData' = RemainingData(data, rate)
           /\ tdoa' = CreateSynchronizedTimeChunk(data, old, rate)
  <2>1. ASSUME NEW x \in DOMAIN timeData'
        PROVE  QueueGaps(timeData'[x].samples, recent'[x] + ChunkTicks)
    <3>1. x \in DOMAIN data
      BY <1>9 DEF RemainingData
    <3> QED
      BY <1>2, <1>3, <1>4, <1>6, <1>9, <3>1, RemainingGaps
  <2>2. s \in DOMAIN data /\ \A x \in DOMAIN data : Neighbours(data[x].samples)
    BY <1>2, <1>3 DEF QueueGaps
  <2>3. TDOAWellFormed'
    BY <1>1, <1>2, <1>6, <1>9, <2>2, EmittedWellFormed
  <2> QED
    BY <2>1, <2>3 DEF GapsInv
<1> QED
  BY <1>5, <1>7, <1>8, <1>9

LEMMA GapsNext ==
  MapsInv /\ GapsInv /\ TDOAWellFormed /\ [Next]_vars => GapsInv' /\ TDOAWellFormed'
<1> SUFFICES ASSUME MapsInv, GapsInv, TDOAWellFormed, [Next]_vars
             PROVE  GapsInv' /\ TDOAWellFormed'
  OBVIOUS
<1>1. CASE UNCHANGED <<recent, timeData, tdoa>>
  BY <1>1 DEF GapsInv, TDOAWellFormed
<1>2. ASSUME NEW s \in Sources, Process_TimeChunk(s)
      PROVE  GapsInv' /\ TDOAWellFormed'
  <2>1. CASE RejectTimeChunk(NextChunk(s))
    BY <2>1 DEF RejectTimeChunk, ClearState, EmptyMap, GapsInv, TDOAWellFormed
  <2>2. CASE AcceptTimeChunk(NextChunk(s))
    BY <2>2, AcceptKeepsGaps
  <2> QED
    BY <1>2, <2>1, <2>2 DEF Process_TimeChunk
<1>3. \/ \E s \in Sources : Process_TimeChunk(s)
      \/ UNCHANGED <<recent, timeData, tdoa>>
  BY DEF Next, Tick, Process_GPSChunk, LoseChunk, Reboot, store, vars
<1> QED
  BY <1>1, <1>2, <1>3

LEMMA GapsCorrect == Spec => [](GapsInv /\ TDOAWellFormed)
<1>1. Init => GapsInv /\ TDOAWellFormed
  BY DEF Init, EmptyMap, GapsInv, TDOAWellFormed
<1> QED
  BY <1>1, MapsInit, MapsNext, GapsNext, PTL DEF Spec

(* Whatever is lost or reboots, and for sources of any rates, no queue     *)
(* has a gap or an overlap between neighbours beyond the error that        *)
(* IsDataContinuous tolerates, also across what SynchronizeChannels or an  *)
(* emission cut off.                                                       *)
THEOREM GapsAlwaysBounded == Spec => []GapsBounded
<1>1. GapsInv => GapsBounded
  BY DEF GapsInv, QueueGaps, Neighbours, GapsBounded
<1> QED
  BY <1>1, GapsCorrect, PTL

(* Every TDOA chunk has stretches of enough sources, all equally long even *)
(* when their rates differ, each of one channel layout and without a gap   *)
(* beyond the tolerated error, and a position for each.                    *)
THEOREM TDOAAlwaysWellFormed == Spec => []TDOAWellFormed
BY GapsCorrect, PTL

-----------------------------------------------------------------------------
(* Emissions move on.  Before the first fault no source jumps, so every    *)
(* queue starts at its head and ends at its source's clock; what was       *)
(* emitted of a source ended before that head, and once a clear forgot     *)
(* the queue, before the clock.                                            *)

HeadTime(old, h, s) == old[s] + TDOALength * h[s].taken

Start(s) == IF s \in DOMAIN timeData THEN HeadTime(oldest, history, s) ELSE clock[s]

Steady ==
  \A s \in DOMAIN timeData : ~history[s].jumped /\ recent[s] + ChunkTicks = clock[s]

EmittedBefore ==
  tdoa # NoChunk => \A s \in DOMAIN tdoa.segments :
    tdoa.segments[s][Len(tdoa.segments[s])].t \in 0..Start(s) - 1

AdvanceInv == faults = 0 => Steady /\ EmittedBefore

(* A stretch of d ticks is cut from the beginning of a longer queue.       *)
Cut(sub, q, r, d) == r * d < Len(q) /\ sub = SubSeq(q, 1, r * d)

LEMMA LinePrefix ==
  ASSUME NEW q \in Seq(Sample), NEW r \in Nat \ {0}, NEW head \in Nat, NEW end \in Nat,
         Line(q, r, head, end), NEW d \in Nat \ {0},
         NEW sub, Cut(sub, q, r, d)
  PROVE  sub[1].t = head /\ sub[Len(sub)].t = head + (d - 1)
<1> DEFINE n == r * d
<1>1. n \in Nat \ {0} /\ Len(q) \in Nat /\ n < Len(q) /\ sub = SubSeq(q, 1, n)
  BY SamplesPerTick, LenProperties DEF Cut
<1>2. n - 1 = (r - 1) + r * (d - 1)
  <2>1. r * d = r * (d - 1) + r
    OBVIOUS
  <2>2. r * (d - 1) \in Nat
    BY ProductNat
  <2> QED
    BY <2>1, <2>2
<1> HIDE DEF n
<1>3. ((r - 1) + r * (d - 1)) \div r = ((r - 1) \div r) + (d - 1)
  <2> DEFINE i == r - 1
             k == d - 1
  <2>1. i \in Nat /\ k \in Nat
    OBVIOUS
  <2> HIDE DEF i, k
  <2>2. (i + r * k) \div r = (i \div r) + k
    BY <2>1, TicksShift
  <2> QED
    BY <2>2 DEF i, k
<1>4. (r - 1) \div r = 0 /\ 0 \div r = 0
  <2> DEFINE i == r - 1
  <2>1. i \in 0..r - 1 /\ 0 \in 0..r - 1
    OBVIOUS
  <2> HIDE DEF i
  <2> QED
    BY <2>1, DivSmall DEF i
<1>5. Len(sub) = n /\ \A i \in 1..n : sub[i] = q[i]
  <2>1. \A i \in 1..n : q[i] \in Sample
    BY <1>1, ElementOfSeq
  <2> QED
    BY <1>1, <2>1, SubSeqProperties
<1>6. \A i \in 1..n : q[i].t = head + ((i - 1) \div r)
  BY <1>1 DEF Line
<1>7. sub[1].t = head
  <2>1. sub[1].t = head + ((1 - 1) \div r)
    BY <1>1, <1>5, <1>6
  <2> QED
    BY <1>4, <2>1
<1>8. sub[Len(sub)].t = head + (d - 1)
  <2>1. sub[Len(sub)].t = head + ((n - 1) \div r)
    BY <1>1, <1>5, <1>6
  <2>2. (n - 1) \div r = d - 1
    <3>1. (n - 1) \div r = ((r - 1) \div r) + (d - 1)
      BY <1>2, <1>3, Zenon
    <3>2. 0 + (d - 1) = d - 1
      OBVIOUS
    <3> QED
      BY <1>4, <3>1, <3>2, Zenon
  <2> QED
    BY <2>1, <2>2
<1> QED
  BY <1>7, <1>8

(* A chunk that follows on neither jumps nor moves a head.                 *)
LEMMA StoredHeads ==
  ASSUME MapsInv, Steady, NEW s \in Sources
  PROVE  \A x \in DOMAIN timeData \cup {s} :
           /\ ~Remember(NextChunk(s))[x].jumped
           /\ HeadTime(InitialisedOldest(NextChunk(s)), Remember(NextChunk(s)), x) = Start(x)
<1> DEFINE c == NextChunk(s)
           old == InitialisedOldest(c)
           h == Remember(c)
<1>1. c.src = s /\ c.ts = clock[s] /\ c.ts \in Nat /\ TDOALength \in Nat
  BY NextChunkType, DurationsAssumption DEF MapsInv, NextChunk
<1> HIDE DEF c
<1>2. /\ DOMAIN oldest = DOMAIN timeData /\ DOMAIN history = DOMAIN timeData
      /\ IsMapInto(oldest, Nat) /\ IsMapInto(history, HistoryEntry)
  BY DEF MapsInv, TypeOK, StoresAgree, HistoryEntry
<1>3. CASE s \in DOMAIN timeData
  <2>1. old = oldest
    BY <1>1, <1>2, <1>3 DEF InitialisedOldest
  <2>2. /\ h[s].taken = history[s].taken
        /\ h[s].jumped = (history[s].jumped \/ c.ts # recent[s] + ChunkTicks)
        /\ \A x \in DOMAIN timeData \ {s} : h[x] = history[x]
    BY <1>1, <1>2, <1>3 DEF Remember, IsMapInto, HistoryEntry
  <2> HIDE DEF old, h
  <2>3. \A x \in DOMAIN timeData : ~h[x].jumped /\ h[x].taken = history[x].taken
    BY <1>1, <1>3, <2>2 DEF Steady
  <2>4. \A x \in DOMAIN timeData : HeadTime(old, h, x) = Start(x)
    BY <2>1, <2>3 DEF HeadTime, Start
  <2> QED
    BY <1>3, <2>3, <2>4 DEF c, old, h
<1>4. CASE s \notin DOMAIN timeData
  <2>1. old[s] = c.ts /\ \A x \in DOMAIN timeData : old[x] = oldest[x]
    BY <1>1, <1>2, <1>4 DEF InitialisedOldest, Put
  <2>2. /\ h[s] = [taken |-> 0, jumped |-> FALSE]
        /\ \A x \in DOMAIN timeData : h[x] = history[x]
    BY <1>1, <1>2, <1>4 DEF Remember, Put
  <2> HIDE DEF old, h
  <2>3. HeadTime(old, h, s) = Start(s)
    BY <1>1, <1>4, <2>1, <2>2 DEF HeadTime, Start
  <2>4. \A x \in DOMAIN timeData : HeadTime(old, h, x) = Start(x)
    BY <2>1, <2>2 DEF HeadTime, Start
  <2>5. \A x \in DOMAIN timeData \cup {s} : ~h[x].jumped /\ HeadTime(old, h, x) = Start(x)
    BY <2>2, <2>3, <2>4 DEF Steady
  <2> QED
    BY <2>5 DEF c, old, h
<1> QED
  BY <1>3, <1>4

(* An accepted chunk moves no head back; an emission starts at the heads   *)
(* and moves each past what it took.                                       *)
LEMMA AcceptMovesHeads ==
  ASSUME MapsInv, LinesInv, SameRate, Steady, NEW s \in Sources,
         AcceptTimeChunk(NextChunk(s))
  PROVE  /\ DOMAIN timeData' = DOMAIN timeData \cup {s}
         /\ recent' = Put(recent, s, clock[s])
         /\ \A x \in DOMAIN timeData' :
              ~history'[x].jumped /\ HeadTime(oldest, history, x)' >= Start(x)
         /\ tdoa' # tdoa =>
              /\ DOMAIN tdoa'.segments = DOMAIN timeData'
              /\ \A x \in DOMAIN timeData' :
                   /\ tdoa'.segments[x][1].t = Start(x)
                   /\ tdoa'.segments[x][Len(tdoa'.segments[x])].t
                        \in 0..HeadTime(oldest, history, x)' - 1
<1> DEFINE c == NextChunk(s)
           data == StoredData(InitialisedData(c), c)
           old == InitialisedOldest(c)
           rate == c.rate
           h == Remember(c)
           rec == Put(recent, s, c.ts)
<1>1. /\ c.src = s /\ c.ts \in Nat /\ c.ts = clock[s] /\ rate \in Nat \ {0} /\ rate = Rate[s]
      /\ TDOALength \in Nat \ {0} /\ ChunkTicks \in Nat
  BY NextChunkType, DurationsAssumption DEF MapsInv, NextChunk
<1>2. /\ GoodQueues(data) /\ DOMAIN data = DOMAIN timeData \cup {s}
      /\ IsMapInto(old, Nat) /\ DOMAIN old = DOMAIN data
  BY StoredGood, OldestType DEF AcceptTimeChunk, MapsInv
<1>3. IsMapInto(h, HistoryEntry) /\ DOMAIN h = DOMAIN data
  BY <1>2, HistoryType
<1>4. \A x \in DOMAIN data : ~h[x].jumped => QueueLine(data, old, h, rec, x)
  BY StoredLines DEF AcceptTimeChunk
<1>5. \A x \in DOMAIN data : ~h[x].jumped /\ HeadTime(old, h, x) = Start(x)
  BY <1>2, StoredHeads
<1>6. recent' = Put(recent, s, clock[s]) /\ rec = Put(recent, s, clock[s])
  BY <1>1 DEF AcceptTimeChunk
<1>7. \/ /\ timeData' = TrimmedData(data, old, rate)
         /\ oldest' = TrimmedOldest(data, old, rate) /\ history' = h /\ tdoa' = tdoa
      \/ timeData' = data /\ oldest' = old /\ history' = h /\ tdoa' = tdoa
      \/ /\ CheckQueuesHaveEnoughData(data, rate)
         /\ tdoa' = CreateSynchronizedTimeChunk(data, old, rate)
         /\ timeData' = RemainingData(data, rate)
         /\ oldest' = old /\ history' = CountTaken(h)
  BY DEF AcceptTimeChunk
<1>8. \A x \in DOMAIN data : rate = Rate[x] /\ x \in Sources
  BY <1>1, <1>2 DEF SameRate, GoodQueues, IsMapInto
<1> HIDE DEF c, data, old, rate, h
<1>9. IsMapInto(rec, Nat) /\ DOMAIN rec = DOMAIN data
  <2>1. IsMapInto(recent, Nat) /\ DOMAIN recent = DOMAIN timeData /\ clock[s] \in Nat
    BY <1>1 DEF MapsInv, TypeOK, StoresAgree
  <2> HIDE DEF rec
  <2> QED
    BY <1>2, <1>6, <2>1 DEF Put, IsMapInto
<1> HIDE DEF rec
<1>10. \A x \in DOMAIN data :
         old[x] \in Nat /\ h[x].taken \in Nat /\ HeadTime(old, h, x) \in Nat
  <2> SUFFICES ASSUME NEW x \in DOMAIN data
               PROVE  old[x] \in Nat /\ h[x].taken \in Nat /\ HeadTime(old, h, x) \in Nat
    OBVIOUS
  <2>1. old[x] \in Nat /\ h[x].taken \in Nat
    BY <1>2, <1>3 DEF IsMapInto, HistoryEntry
  <2>2. TDOALength * h[x].taken \in Nat
    BY <1>1, <2>1, ProductNat
  <2> QED
    BY <2>1, <2>2 DEF HeadTime
<1>11. CASE /\ timeData' = TrimmedData(data, old, rate)
            /\ oldest' = TrimmedOldest(data, old, rate) /\ history' = h /\ tdoa' = tdoa
  <2>1. DOMAIN timeData' = DOMAIN data
    BY <1>11 DEF TrimmedData
  <2>2. ASSUME NEW x \in DOMAIN data PROVE HeadTime(oldest, history, x)' >= Start(x)
    <3>1. LatestStart(old) \in Nat /\ old[x] <= LatestStart(old)
      BY <1>2, LatestStartType
    <3>2. oldest'[x] \in Nat /\ oldest'[x] >= old[x]
      BY <1>2, <1>10, <1>11, <3>1 DEF TrimmedOldest
    <3>3. history'[x].taken = h[x].taken /\ TDOALength * h[x].taken \in Nat
      BY <1>1, <1>10, <1>11, ProductNat
    <3> DEFINE k == TDOALength * h[x].taken
    <3>4. HeadTime(oldest, history, x)' = oldest'[x] + k /\ Start(x) = old[x] + k
      BY <1>5, <3>3 DEF HeadTime
    <3> HIDE DEF k
    <3> QED
      BY <1>10, <3>2, <3>3, <3>4 DEF k
  <2> QED
    BY <1>2, <1>5, <1>6, <1>11, <2>1, <2>2
<1>12. CASE timeData' = data /\ oldest' = old /\ history' = h /\ tdoa' = tdoa
  <2>1. \A x \in DOMAIN data : HeadTime(oldest, history, x)' = HeadTime(old, h, x)
    BY <1>12 DEF HeadTime
  <2> QED
    BY <1>2, <1>5, <1>6, <1>10, <1>12, <2>1
<1>13. CASE /\ CheckQueuesHaveEnoughData(data, rate)
            /\ tdoa' = CreateSynchronizedTimeChunk(data, old, rate)
            /\ timeData' = RemainingData(data, rate)
            /\ oldest' = old /\ history' = CountTaken(h)
  <2>1. DOMAIN timeData' = DOMAIN data /\ DOMAIN tdoa'.segments = DOMAIN data
    BY <1>13 DEF RemainingData, CreateSynchronizedTimeChunk
  <2>2. ASSUME NEW x \in DOMAIN data
        PROVE  /\ ~history'[x].jumped
               /\ HeadTime(oldest, history, x)' = Start(x) + TDOALength
    <3>1. history'[x].taken = h[x].taken + 1 /\ history'[x].jumped = h[x].jumped
      BY <1>3, <1>13 DEF CountTaken, IsMapInto, HistoryEntry
    <3>2. TDOALength * (h[x].taken + 1) = TDOALength * h[x].taken + TDOALength
      BY <1>1, <1>10
    <3>3. TDOALength * h[x].taken \in Nat
      BY <1>1, <1>10, ProductNat
    <3> DEFINE k == TDOALength * h[x].taken
    <3>4. HeadTime(oldest, history, x)' = old[x] + (k + TDOALength) /\ Start(x) = old[x] + k
      BY <1>5, <1>13, <3>1, <3>2 DEF HeadTime
    <3> HIDE DEF k
    <3>5. HeadTime(oldest, history, x)' = Start(x) + TDOALength
      BY <1>1, <1>10, <3>3, <3>4 DEF k
    <3> QED
      BY <1>5, <3>1, <3>5
  <2>3. ASSUME NEW x \in DOMAIN data
        PROVE  /\ Start(x) \in Nat /\ tdoa'.segments[x][1].t = Start(x)
               /\ tdoa'.segments[x][Len(tdoa'.segments[x])].t = Start(x) + (TDOALength - 1)
    <3> DEFINE q == data[x].samples
               head == Start(x)
               end == rec[x] + ChunkTicks
    <3>1. head \in Nat /\ end \in Nat /\ rate \in Nat \ {0}
      BY <1>1, <1>5, <1>9, <1>10 DEF IsMapInto
    <3>2. q \in Seq(Sample) /\ Len(q) \in Nat
      BY <1>2 DEF GoodQueues, GoodQueue, Queue
    <3>3. Line(q, rate, head, end)
      BY <1>4, <1>5, <1>8 DEF QueueLine, HeadTime
    <3>4. SamplesRequired(rate) = rate * TDOALength
      BY <1>1, <3>1 DEF SamplesRequired
    <3> DEFINE n == SamplesRequired(rate)
               sub == tdoa'.segments[x]
    <3>5. n < Len(q)
      BY <1>13, <3>2 DEF CheckQueuesHaveEnoughData
    <3>6. sub = SubSeq(q, 1, n)
      BY <1>13 DEF CreateSynchronizedTimeChunk
    <3> HIDE DEF q, head, end, n, sub
    <3>7. Cut(sub, q, rate, TDOALength)
      BY <3>4, <3>5, <3>6, Zenon DEF Cut, n
    <3>8. sub[1].t = head /\ sub[Len(sub)].t = head + (TDOALength - 1)
      BY <1>1, <3>1, <3>2, <3>3, <3>7, LinePrefix
    <3> QED
      BY <3>1, <3>8 DEF head, sub
  <2>4. \A x \in DOMAIN data :
          /\ HeadTime(oldest, history, x)' >= Start(x)
          /\ tdoa'.segments[x][Len(tdoa'.segments[x])].t \in 0..HeadTime(oldest, history, x)' - 1
    BY <1>1, <2>2, <2>3
  <2> QED
    BY <1>2, <1>6, <2>1, <2>2, <2>3, <2>4
<1> QED
  BY <1>7, <1>11, <1>12, <1>13

LEMMA ProcessAdvances ==
  ASSUME MapsInv, LinesInv, SameRate, Steady, EmittedBefore, NEW s \in Sources,
         Process_TimeChunk(s)
  PROVE  /\ Steady' /\ EmittedBefore'
         /\ tdoa' # tdoa /\ tdoa # NoChunk =>
              \A x \in DOMAIN tdoa.segments \cap DOMAIN tdoa'.segments :
                tdoa'.segments[x][1].t > tdoa.segments[x][Len(tdoa.segments[x])].t
<1>1. /\ clock \in [Sources -> Nat] /\ ChunkTicks \in Nat
      /\ clock' = [clock EXCEPT ![s] = @ + ChunkTicks]
      /\ DOMAIN timeData \subseteq Sources /\ IsMapInto(recent, Nat)
      /\ DOMAIN recent = DOMAIN timeData
      /\ tdoa # NoChunk => DOMAIN tdoa.segments \subseteq Sources
  BY DurationsAssumption DEF MapsInv, TypeOK, StoresAgree, IsMapInto, Process_TimeChunk
<1>2. ASSUME NEW x \in Sources PROVE Start(x) \in Nat /\ Start(x) <= clock[x]
  <2>1. CASE x \in DOMAIN timeData
    <3> DEFINE head == HeadTime(oldest, history, x)
               end == recent[x] + ChunkTicks
    <3>1. oldest[x] \in Nat /\ history[x].taken \in Nat /\ TDOALength \in Nat
      BY <2>1, DurationsAssumption DEF MapsInv, TypeOK, StoresAgree, IsMapInto
    <3>2. TDOALength * history[x].taken \in Nat
      BY <3>1, ProductNat
    <3>3. head \in Nat
      BY <3>1, <3>2 DEF HeadTime
    <3>4. end = clock[x] /\ end \in Nat
      BY <1>1, <1>2, <2>1 DEF Steady
    <3>5. end - head \in Nat
      BY <2>1 DEF LinesInv, QueueLine, Line, HeadTime, Steady
    <3>6. Start(x) = head
      BY <2>1 DEF Start
    <3> HIDE DEF head, end
    <3> QED
      BY <3>3, <3>4, <3>5, <3>6
  <2>2. CASE x \notin DOMAIN timeData
    BY <1>1, <2>2 DEF Start
  <2> QED
    BY <2>1, <2>2
<1>3. CASE RejectTimeChunk(NextChunk(s))
  <2>1. timeData' = EmptyMap /\ UNCHANGED tdoa
    BY <1>3 DEF RejectTimeChunk, ClearState
  <2>2. \A x \in Sources : Start(x)' = clock'[x] /\ clock'[x] \in Nat /\ clock'[x] >= clock[x]
    BY <1>1, <2>1 DEF Start, EmptyMap
  <2>3. \A x \in Sources : Start(x)' \in Nat /\ Start(x)' >= Start(x)
    BY <1>1, <1>2, <2>2
  <2>4. EmittedBefore'
    BY <1>1, <1>2, <2>1, <2>3, SMTT(30) DEF EmittedBefore
  <2> QED
    BY <2>1, <2>4 DEF Steady, EmptyMap
<1>4. CASE AcceptTimeChunk(NextChunk(s))
  <2>1. /\ DOMAIN timeData' = DOMAIN timeData \cup {s}
        /\ recent' = Put(recent, s, clock[s])
        /\ \A x \in DOMAIN timeData' :
             ~history'[x].jumped /\ HeadTime(oldest, history, x)' >= Start(x)
        /\ tdoa' # tdoa =>
             /\ DOMAIN tdoa'.segments = DOMAIN timeData'
             /\ \A x \in DOMAIN timeData' :
                  /\ tdoa'.segments[x][1].t = Start(x)
                  /\ tdoa'.segments[x][Len(tdoa'.segments[x])].t
                       \in 0..HeadTime(oldest, history, x)' - 1
    BY <1>4, AcceptMovesHeads
  <2>2. Steady'
    <3>1. \A x \in DOMAIN timeData' : recent'[x] + ChunkTicks = clock'[x]
      BY <1>1, <2>1 DEF Put, Steady
    <3> QED
      BY <2>1, <3>1 DEF Steady
  <2>3. \A x \in DOMAIN timeData' : Start(x)' = HeadTime(oldest, history, x)'
    BY DEF Start
  <2>4. CASE tdoa' = tdoa
    <3>1. ASSUME tdoa # NoChunk, NEW x \in DOMAIN tdoa.segments
          PROVE  tdoa.segments[x][Len(tdoa.segments[x])].t \in 0..Start(x)' - 1
      <4>1. tdoa.segments[x][Len(tdoa.segments[x])].t \in 0..Start(x) - 1
        BY <3>1 DEF EmittedBefore
      <4>2. x \in Sources /\ Start(x) \in Nat
        BY <1>1, <1>2, <3>1
      <4>3. CASE x \in DOMAIN timeData'
        <5>1. MapsInv'
          BY <1>4, AcceptKeepsMaps DEF Process_TimeChunk
        <5>2. /\ oldest'[x] \in Nat /\ history'[x].taken \in Nat /\ TDOALength \in Nat
          BY <4>3, <5>1, DurationsAssumption DEF MapsInv, TypeOK, StoresAgree, IsMapInto
        <5>3. TDOALength * history'[x].taken \in Nat
          BY <5>2, ProductNat
        <5>4. Start(x)' \in Nat /\ Start(x)' >= Start(x)
          BY <2>1, <2>3, <4>3, <5>2, <5>3 DEF HeadTime
        <5> QED
          BY <4>1, <4>2, <5>4
      <4>4. CASE x \notin DOMAIN timeData'
        <5>1. Start(x)' = Start(x)
          BY <1>1, <2>1, <4>2, <4>4 DEF Start
        <5> QED
          BY <4>1, <5>1
      <4> QED
        BY <4>3, <4>4
    <3> QED
      BY <2>2, <2>4, <3>1 DEF EmittedBefore
  <2>5. CASE tdoa' # tdoa
    <3>1. EmittedBefore'
      BY <2>1, <2>3, <2>5 DEF EmittedBefore
    <3>2. ASSUME tdoa # NoChunk, NEW x \in DOMAIN tdoa.segments \cap DOMAIN tdoa'.segments
          PROVE  tdoa'.segments[x][1].t > tdoa.segments[x][Len(tdoa.segments[x])].t
      <4>1. tdoa.segments[x][Len(tdoa.segments[x])].t \in 0..Start(x) - 1
        BY <3>2 DEF EmittedBefore
      <4>2. tdoa'.segments[x][1].t = Start(x) /\ Start(x) \in Nat
        BY <1>1, <1>2, <2>1, <2>5, <3>2
      <4> QED
        BY <4>1, <4>2
    <3> QED
      BY <2>2, <3>1, <3>2
  <2> QED
    BY <2>4, <2>5
<1> QED
  BY <1>3, <1>4 DEF Process_TimeChunk

LEMMA AdvanceNext ==
  ASSUME SameRate, MapsInv, LinesInv, AdvanceInv, [Next]_vars
  PROVE  /\ AdvanceInv'
         /\ tdoa' # tdoa /\ tdoa # NoChunk /\ faults = 0 =>
              \A s \in DOMAIN tdoa.segments \cap DOMAIN tdoa'.segments :
                tdoa'.segments[s][1].t > tdoa.segments[s][Len(tdoa.segments[s])].t
<1>1. faults \in Nat
  BY DEF MapsInv, TypeOK
<1>2. CASE UNCHANGED <<clock, faults, store, tdoa, history>>
  BY <1>2 DEF AdvanceInv, Steady, EmittedBefore, Start, HeadTime, store
<1>3. ASSUME NEW s \in Sources, Process_TimeChunk(s) PROVE UNCHANGED faults
  BY <1>3 DEF Process_TimeChunk
<1>4. CASE \E s \in Sources : Process_TimeChunk(s)
  BY <1>3, <1>4, ProcessAdvances DEF AdvanceInv
<1>5. CASE \E s \in Sources : LoseChunk(s) \/ Reboot(s)
  <2>1. faults' # 0 /\ tdoa' = tdoa
    BY <1>1, <1>5 DEF LoseChunk, Reboot
  <2> QED
    BY <2>1 DEF AdvanceInv
<1>6. CASE Tick \/ \E s \in Sources : Process_GPSChunk(s)
  BY <1>2, <1>6 DEF Tick, Process_GPSChunk, sensors
<1>7. CASE UNCHANGED vars
  BY <1>2, <1>7 DEF vars, sensors
<1> QED
  BY <1>4, <1>5, <1>6, <1>7 DEF Next

(* With one rate for all sources, no sample of a source is ever emitted    *)
(* twice before the first loss or reboot: not across the unconditional     *)
(* trims, not across a clear that forgot what was emitted.                 *)
THEOREM EmissionsAlwaysAdvance == ASSUME SameRate PROVE Spec => EmissionsAdvance
<1>1. Init => LinesInv /\ AdvanceInv
  BY DEF Init, LinesInv, AdvanceInv, Steady, EmittedBefore, EmptyMap
<1>2. MapsInv /\ LinesInv /\ AdvanceInv /\ [Next]_vars => AdvanceInv'
  BY AdvanceNext
<1>3. MapsInv /\ LinesInv /\ AdvanceInv /\ [Next]_vars =>
        [tdoa' # tdoa /\ tdoa # NoChunk /\ faults = 0 =>
           \A s \in DOMAIN tdoa.segments \cap DOMAIN tdoa'.segments :
             tdoa'.segments[s][1].t > tdoa.segments[s][Len(tdoa.segments[s])].t]_vars
  BY AdvanceNext
<1> QED
  BY <1>1, <1>2, <1>3, MapsInit, MapsNext, LinesNext, PTL DEF Spec, EmissionsAdvance

=============================================================================

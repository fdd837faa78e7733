------------------------ MODULE MultiClientTCP_proofs ------------------------
(***************************************************************************)
(* Proofs about MultiClientTCP, for any clients, any width of a port and   *)
(* any number of requests: the state is well typed, a client's threads are *)
(* accounted for by its refused connections and its flag, and a client     *)
(* that takes itself for connected has a thread that will find out.        *)
(***************************************************************************)
EXTENDS MultiClientTCP, TLAPS, SequenceTheorems, FiniteSetTheorems

-----------------------------------------------------------------------------
(* Entries of a sequence that have or lack a value, counted.               *)

AliveIn(q) == {k \in 1..Len(q) : q[k] # "ended"}
RefusedIn(q) == {k \in 1..Len(q) : q[k] = "refused"}

LEMMA CountsFinite ==
  ASSUME NEW S, NEW q \in Seq(S)
  PROVE  /\ IsFiniteSet(AliveIn(q)) /\ Cardinality(AliveIn(q)) \in Nat
         /\ IsFiniteSet(RefusedIn(q)) /\ Cardinality(RefusedIn(q)) \in Nat
<1>1. IsFiniteSet(1..Len(q))
  BY LenProperties, FS_Interval
<1>2. AliveIn(q) \in SUBSET (1..Len(q)) /\ RefusedIn(q) \in SUBSET (1..Len(q))
  BY DEF AliveIn, RefusedIn
<1>3. IsFiniteSet(AliveIn(q)) /\ IsFiniteSet(RefusedIn(q))
  BY <1>1, <1>2, FS_Subset
<1> QED
  BY <1>3, FS_CardinalityType

LEMMA AliveAppend ==
  ASSUME NEW S, NEW q \in Seq(S), NEW e \in S, e # "ended"
  PROVE  Cardinality(AliveIn(Append(q, e))) = Cardinality(AliveIn(q)) + 1
<1> DEFINE n == Len(q)
<1>1. /\ n \in Nat /\ Len(Append(q, e)) = n + 1 /\ Append(q, e)[n + 1] = e
      /\ \A i \in 1..n : Append(q, e)[i] = q[i]
  BY LenProperties, AppendProperties
<1>2. AliveIn(Append(q, e)) = AliveIn(q) \cup {n + 1} /\ n + 1 \notin AliveIn(q)
  BY <1>1 DEF AliveIn
<1> QED
  BY <1>2, CountsFinite, FS_AddElement

LEMMA RefusedAppend ==
  ASSUME NEW S, NEW q \in Seq(S), NEW e \in S
  PROVE  Cardinality(RefusedIn(Append(q, e))) =
           Cardinality(RefusedIn(q)) + One(e = "refused")
<1> DEFINE n == Len(q)
<1>1. /\ n \in Nat /\ Len(Append(q, e)) = n + 1 /\ Append(q, e)[n + 1] = e
      /\ \A i \in 1..n : Append(q, e)[i] = q[i]
  BY LenProperties, AppendProperties
<1>2. CASE e = "refused"
  <2>1. RefusedIn(Append(q, e)) = RefusedIn(q) \cup {n + 1} /\ n + 1 \notin RefusedIn(q)
    BY <1>1, <1>2 DEF RefusedIn
  <2> QED
    BY <1>2, <2>1, CountsFinite, FS_AddElement DEF One
<1>3. CASE e # "refused"
  <2>1. RefusedIn(Append(q, e)) = RefusedIn(q)
    BY <1>1, <1>3 DEF RefusedIn
  <2> QED
    BY <1>3, <2>1, CountsFinite DEF One
<1> QED
  BY <1>2, <1>3

LEMMA AliveExcept ==
  ASSUME NEW S, NEW q \in Seq(S), NEW k \in 1..Len(q), NEW e \in S, q[k] # "ended"
  PROVE  Cardinality(AliveIn([q EXCEPT ![k] = e])) =
           Cardinality(AliveIn(q)) - One(e = "ended")
<1> DEFINE r == [q EXCEPT ![k] = e]
<1>1. Len(r) = Len(q) /\ \A j \in 1..Len(q) : r[j] = IF j = k THEN e ELSE q[j]
  BY ExceptSeq
<1> HIDE DEF r
<1>2. CASE e = "ended"
  <2>1. AliveIn(r) = AliveIn(q) \ {k} /\ k \in AliveIn(q)
    BY <1>1, <1>2 DEF AliveIn
  <2>2. Cardinality(AliveIn(r)) = Cardinality(AliveIn(q)) - 1
    BY <2>1, CountsFinite, FS_RemoveElement
  <2> QED
    BY <1>2, <2>2 DEF One, r
<1>3. CASE e # "ended"
  <2>1. AliveIn(r) = AliveIn(q)
    BY <1>1, <1>3 DEF AliveIn
  <2> QED
    BY <1>3, <2>1, CountsFinite DEF One, r
<1> QED
  BY <1>2, <1>3

-----------------------------------------------------------------------------
(* Most steps leave the number of sockets and the refused ones as they     *)
(* are.                                                                    *)

SocketsKept ==
  /\ sockets' \in [Clients -> Seq(SocketState)]
  /\ \A d \in Clients : Len(sockets'[d]) = Len(sockets[d])
                        /\ RefusedIn(sockets'[d]) = RefusedIn(sockets[d])

LEMMA OneSocketKept ==
  ASSUME TypeOK, NEW c \in Clients, NEW k, NEW v \in SocketState,
         v # "refused", sockets[c][k] # "refused",
         sockets' = [sockets EXCEPT ![c][k] = v]
  PROVE  SocketsKept
<1> DEFINE q == sockets[c]
           r == [q EXCEPT ![k] = v]
<1>1. q \in Seq(SocketState) /\ sockets \in [Clients -> Seq(SocketState)]
  BY DEF TypeOK
<1>2. sockets' = [sockets EXCEPT ![c] = r]
  OBVIOUS
<1>3. r \in Seq(SocketState) /\ Len(r) = Len(q) /\ RefusedIn(r) = RefusedIn(q)
  <2>1. CASE k \in 1..Len(q)
    <3>1. /\ r \in Seq(SocketState) /\ Len(r) = Len(q)
          /\ \A j \in 1..Len(q) : r[j] = IF j = k THEN v ELSE q[j]
      BY <1>1, <2>1, ExceptSeq
    <3> HIDE DEF r
    <3> QED
      BY <3>1 DEF RefusedIn
  <2>2. CASE k \notin 1..Len(q)
    <3>1. r = q
      BY <1>1, <2>2, LenProperties
    <3> QED
      BY <1>1, <3>1
  <2> QED
    BY <2>1, <2>2
<1> HIDE DEF q, r
<1> QED
  BY <1>1, <1>2, <1>3 DEF SocketsKept, q

LEMMA SameSocketsKept ==
  ASSUME TypeOK, sockets' = sockets
  PROVE  SocketsKept
BY DEF TypeOK, SocketsKept

LEMMA TerminateKeeps ==
  ASSUME TypeOK, Terminate
  PROVE  SocketsKept
<1> DEFINE r(c) == [k \in 1..Len(sockets[c]) |->
                      IF sockets[c][k] = "open" THEN "reset" ELSE sockets[c][k]]
<1>1. ASSUME NEW c \in Clients
      PROVE  /\ r(c) \in Seq(SocketState) /\ Len(r(c)) = Len(sockets[c])
             /\ RefusedIn(r(c)) = RefusedIn(sockets[c])
  <2>1. sockets[c] \in Seq(SocketState) /\ Len(sockets[c]) \in Nat
    BY LenProperties DEF TypeOK
  <2>2. \A k \in 1..Len(sockets[c]) : r(c)[k] \in SocketState
    BY <2>1, ElementOfSeq DEF SocketState
  <2>3. r(c) \in Seq(SocketState) /\ Len(r(c)) = Len(sockets[c])
    <3>1. r(c) \in [1..Len(sockets[c]) -> SocketState]
      BY <2>2
    <3> HIDE DEF r
    <3> QED
      BY <2>1, <3>1, LenProperties
  <2>4. \A k \in 1..Len(sockets[c]) : r(c)[k] = "refused" <=> sockets[c][k] = "refused"
    OBVIOUS
  <2> HIDE DEF r
  <2> QED
    BY <2>3, <2>4 DEF RefusedIn
<1>2. sockets' = [c \in Clients |-> r(c)]
  BY DEF Terminate
<1> HIDE DEF r
<1> QED
  BY <1>1, <1>2 DEF SocketsKept

-----------------------------------------------------------------------------
(* Type correctness.  The server answers only who is in its backlog.       *)

Answering == server = "allocating" => backlog # <<>>
TInv == TypeOK /\ Answering

LEMMA TInit == Init => TInv
BY PortsAssumption DEF Init, TInv, TypeOK, Answering, LoopState, ServerState, NoReply, Ports

LEMMA HandlerState ==
  ASSUME TInv, NEW n \in 1..Len(handlers), NEW e \in {"accepting", "serving", "ended"}
  PROVE  handlers[n] \in Handler /\ [handlers[n] EXCEPT !.state = e] \in Handler
<1>1. handlers[n] \in Handler
  BY ElementOfSeq DEF TInv, TypeOK
<1> QED
  BY <1>1 DEF Handler

LEMMA TypeTerminate == TInv /\ Terminate => TInv'
<1> SUFFICES ASSUME TInv, Terminate PROVE TInv'
  OBVIOUS
<1>1. SocketsKept
  BY TerminateKeeps DEF TInv
<1>2. handlers' \in Seq(Handler)
  <2> DEFINE h(n) == [handlers[n] EXCEPT !.state = "ended"]
             f == [n \in 1..Len(handlers) |-> h(n)]
  <2>1. handlers \in Seq(Handler) /\ Len(handlers) \in Nat
    BY LenProperties DEF TInv, TypeOK
  <2>2. \A n \in 1..Len(handlers) : h(n) \in Handler
    BY HandlerState
  <2>3. handlers' = f
    BY DEF Terminate
  <2> HIDE DEF h
  <2>4. f \in [1..Len(handlers) -> Handler]
    BY <2>2
  <2> HIDE DEF f
  <2> QED
    BY <2>1, <2>3, <2>4
<1>3. reply' \in [Clients -> Ports \cup {NoReply, Reset}]
  BY DEF TInv, TypeOK, Terminate
<1>4. \A c \in Clients : Len(sockets'[c]) = Len(sockets[c]) /\ sockets' \in [Clients -> Seq(SocketState)]
  BY <1>1 DEF SocketsKept
<1> QED
  BY <1>2, <1>3, <1>4, EmptySeq DEF TInv, TypeOK, Terminate, Answering, ServerState

LEMMA TypeOpenBasePort == TInv /\ OpenBasePort => TInv'
<1> SUFFICES ASSUME TInv, OpenBasePort PROVE TInv'
  OBVIOUS
<1>1. CASE Terminate
  BY <1>1, TypeTerminate
<1>2. CASE UNCHANGED <<client, count, handlers>> /\ server' = "accepting" /\ backlog' = <<>>
  BY <1>2 DEF TInv, TypeOK, Answering, client, ServerState
<1> QED
  BY <1>1, <1>2 DEF OpenBasePort

LEMMA TypeAcceptRequest == TInv /\ AcceptRequest => TInv'
<1> SUFFICES ASSUME TInv, AcceptRequest PROVE TInv'
  OBVIOUS
<1>1. count' \in Ports /\ AllocatedPort(count') \in Ports
  BY PortsAssumption DEF TInv, TypeOK, AcceptRequest, AllocatedPort, Ports
<1>2. handlers' \in Seq(Handler)
  BY <1>1 DEF TInv, TypeOK, AcceptRequest, Handler
<1> QED
  BY <1>1, <1>2 DEF TInv, TypeOK, AcceptRequest, Answering, client, ServerState

LEMMA TypeSendPort == TInv /\ SendPort => TInv'
<1> SUFFICES ASSUME TInv, SendPort PROVE TInv'
  OBVIOUS
<1>1. AllocatedPort(count) \in Ports
  BY PortsAssumption DEF TInv, TypeOK, AllocatedPort, Ports
<1>2. backlog' \in Seq(Clients \cup {Nobody})
  BY HeadTailProperties DEF TInv, TypeOK, SendPort, Answering
<1> QED
  BY <1>1, <1>2 DEF TInv, TypeOK, SendPort, Answering, ServerState

LEMMA TypeCloseBasePort == TInv /\ CloseBasePort => TInv'
BY DEF TInv, TypeOK, CloseBasePort, ResetWaiting, Answering, ServerState, Reset

LEMMA TypeListenForClient ==
  ASSUME TInv, NEW n \in 1..Len(handlers), ListenForClient(n)
  PROVE  TInv'
<1>1. CASE Terminate
  BY <1>1, TypeTerminate
<1>2. CASE handlers' = [handlers EXCEPT ![n].state = "accepting"] /\ UNCHANGED <<client, listener>>
  <2>1. handlers' \in Seq(Handler)
    BY <1>2, HandlerState, ExceptSeq DEF TInv, TypeOK
  <2> QED
    BY <1>2, <2>1 DEF TInv, TypeOK, Answering, client, listener
<1> QED
  BY <1>1, <1>2 DEF ListenForClient

LEMMA TypeAcceptClient ==
  ASSUME TInv, NEW n \in 1..Len(handlers), AcceptClient(n)
  PROVE  TInv'
<1> DEFINE h == handlers[n]
           g == [h EXCEPT !.state = "serving", !.peer = <<Head(h.queue)>>, !.queue = Tail(h.queue)]
<1>0. h \in Handler
  BY HandlerState
<1>1. h.queue \in Seq(Connection) /\ h.queue # <<>>
  BY <1>0 DEF Handler, AcceptClient
<1>2. Head(h.queue) \in Connection /\ Tail(h.queue) \in Seq(Connection)
  BY <1>1, HeadTailProperties
<1>3. g \in Handler
  <2>1. <<Head(h.queue)>> \in Seq(Connection)
    BY <1>2
  <2>2. \A x \in Handler, q \in Seq(Connection), p \in Seq(Connection) :
          [x EXCEPT !.state = "serving", !.peer = p, !.queue = q] \in Handler
    BY DEF Handler
  <2> HIDE DEF h
  <2> QED
    BY <1>0, <1>2, <2>1, <2>2
<1>4. handlers' = [handlers EXCEPT ![n] = g]
  BY DEF AcceptClient
<1>5. handlers' \in Seq(Handler)
  BY <1>3, <1>4, ExceptSeq DEF TInv, TypeOK
<1> QED
  BY <1>5 DEF TInv, TypeOK, Answering, client, listener, AcceptClient

LEMMA StopServingKeeps ==
  ASSUME TInv, NEW n \in 1..Len(handlers), StopServing(n)
  PROVE  SocketsKept
<1> DEFINE c == handlers[n].peer[1][1]
           k == handlers[n].peer[1][2]
<1>1. CASE c \in Clients /\ sockets[c][k] = "open"
  <2>1. sockets' = [sockets EXCEPT ![c][k] = "peer closed"]
    BY <1>1 DEF StopServing
  <2> QED
    BY <1>1, <2>1, OneSocketKept DEF TInv, SocketState
<1>2. CASE ~(c \in Clients /\ sockets[c][k] = "open")
  <2>1. sockets' = sockets \/ (c \notin Clients /\ \E q : sockets' = [sockets EXCEPT ![c] = q])
    BY <1>2 DEF StopServing
  <2>2. sockets' = sockets
    BY <2>1 DEF TInv, TypeOK
  <2> QED
    BY <2>2, SameSocketsKept DEF TInv
<1> QED
  BY <1>1, <1>2

LEMMA TypeStopServing ==
  ASSUME TInv, NEW n \in 1..Len(handlers), StopServing(n)
  PROVE  TInv'
<1>1. SocketsKept
  BY StopServingKeeps
<1>2. handlers' \in Seq(Handler)
  BY HandlerState, ExceptSeq DEF TInv, TypeOK, StopServing
<1> QED
  BY <1>1, <1>2 DEF TInv, TypeOK, SocketsKept, Answering, listener, StopServing

LEMMA TypeRequestPort == ASSUME TInv, NEW c \in Clients, RequestPort(c) PROVE TInv'
<1>1. backlog' \in Seq(Clients \cup {Nobody}) /\ backlog' # <<>>
  <2>1. backlog \in Seq(Clients \cup {Nobody}) /\ c \in Clients \cup {Nobody}
    BY DEF TInv, TypeOK
  <2>2. backlog' = Append(backlog, c)
    BY DEF RequestPort
  <2> QED
    BY <2>1, <2>2, AppendProperties
<1> QED
  BY <1>1 DEF TInv, TypeOK, Answering, RequestPort, LoopState

LEMMA TypeCheckConnected ==
  ASSUME TInv, NEW c \in Clients, CheckConnected(c)
  PROVE  TInv'
<1>1. /\ Abandoned(c) \in Seq(Clients \cup {Nobody})
      /\ backlog # <<>> => Abandoned(c) # <<>>
  <2>1. backlog \in Seq(Clients \cup {Nobody}) /\ Len(backlog) \in Nat
    BY LenProperties DEF TInv, TypeOK
  <2>2. Abandoned(c) \in [1..Len(backlog) -> Clients \cup {Nobody}]
    BY <2>1, ElementOfSeq DEF Abandoned
  <2>3. Abandoned(c) \in Seq(Clients \cup {Nobody}) /\ Len(Abandoned(c)) = Len(backlog)
    BY <2>1, <2>2, LenProperties
  <2> QED
    BY <2>1, <2>3, EmptySeq
<1>2. loop' \in [Clients -> LoopState]
  BY DEF TInv, TypeOK, CheckConnected, LoopState
<1>3. \A d \in Clients : loop'[d] = "starting" <=> loop[d] = "starting"
  BY DEF TInv, TypeOK, CheckConnected
<1> QED
  BY <1>1, <1>2, <1>3 DEF TInv, TypeOK, Answering, CheckConnected

LEMMA TypeReadPort == ASSUME TInv, NEW c \in Clients, ReadPort(c) PROVE TInv'
<1>1. port' \in [Clients -> Ports]
  BY DEF TInv, TypeOK, ReadPort, NoReply, Reset
<1> QED
  BY <1>1 DEF TInv, TypeOK, Answering, listener, ReadPort, LoopState

LEMMA TypeConnectAllocated ==
  ASSUME TInv, NEW c \in Clients, ConnectAllocated(c)
  PROVE  TInv'
<1>1. sockets[c] \in Seq(SocketState) /\ Len(sockets[c]) \in Nat
  BY LenProperties DEF TInv, TypeOK
<1>2. handlers' \in Seq(Handler)
  <2>1. CASE UNCHANGED handlers
    BY <2>1 DEF TInv, TypeOK
  <2>2. ASSUME NEW n \in 1..Len(handlers),
               handlers' = [handlers EXCEPT
                 ![n].queue = Append(@, <<c, Len(sockets[c]) + 1>>)]
        PROVE  handlers' \in Seq(Handler)
    <3> DEFINE h == handlers[n]
               x == <<c, Len(sockets[c]) + 1>>
               g == [h EXCEPT !.queue = Append(h.queue, x)]
    <3>1. h \in Handler /\ x \in Connection
      BY <1>1, ElementOfSeq DEF TInv, TypeOK, Connection
    <3>2. g \in Handler
      <4> HIDE DEF h, x
      <4>1. Append(h.queue, x) \in Seq(Connection)
        BY <3>1, AppendProperties DEF Handler
      <4> QED
        BY <3>1, <4>1 DEF Handler
    <3>3. handlers' = [handlers EXCEPT ![n] = g]
      BY <2>2
    <3> HIDE DEF g
    <3> QED
      BY <3>2, <3>3, ExceptSeq DEF TInv, TypeOK
  <2> QED
    BY <2>1, <2>2 DEF ConnectAllocated
<1>3. \E e \in {"open", "refused"} : sockets' = [sockets EXCEPT ![c] = Append(@, e)]
  BY DEF ConnectAllocated
<1>4. /\ sockets' \in [Clients -> Seq(SocketState)]
      /\ Len(sockets'[c]) = Len(sockets[c]) + 1
      /\ \A d \in Clients \ {c} : sockets'[d] = sockets[d]
  <2>1. PICK e \in {"open", "refused"} : sockets' = [sockets EXCEPT ![c] = Append(sockets[c], e)]
    BY <1>3
  <2>2. /\ Append(sockets[c], e) \in Seq(SocketState)
        /\ Len(Append(sockets[c], e)) = Len(sockets[c]) + 1
    <3>1. e \in SocketState
      BY DEF SocketState
    <3> QED
      BY <1>1, <3>1, AppendProperties
  <2> QED
    BY <2>1, <2>2 DEF TInv, TypeOK
<1>5. \A d \in Clients :
        Len(sockets'[d]) = Len(threads'[d]) + (IF loop'[d] = "starting" THEN 1 ELSE 0)
  BY <1>1, <1>4 DEF TInv, TypeOK, ConnectAllocated
<1>6. loop' \in [Clients -> LoopState] /\ connected' \in [Clients -> BOOLEAN]
  BY DEF TInv, TypeOK, ConnectAllocated, LoopState
<1> QED
  BY <1>2, <1>4, <1>5, <1>6 DEF TInv, TypeOK, Answering, listener, ConnectAllocated

LEMMA TypeStartClientThread ==
  ASSUME TInv, NEW c \in Clients, StartClientThread(c)
  PROVE  TInv'
<1>1. threads[c] \in Seq(ThreadState) /\ Len(threads[c]) \in Nat
  BY LenProperties DEF TInv, TypeOK
<1>2. /\ threads' \in [Clients -> Seq(ThreadState)]
      /\ Len(threads'[c]) = Len(threads[c]) + 1
      /\ \A d \in Clients \ {c} : threads'[d] = threads[d]
  BY <1>1, AppendProperties DEF TInv, TypeOK, StartClientThread, ThreadState
<1>3. ASSUME NEW d \in Clients
      PROVE  Len(sockets'[d]) = Len(threads'[d]) + (IF loop'[d] = "starting" THEN 1 ELSE 0)
  <2>1. CASE d = c
    BY <1>1, <1>2, <2>1 DEF TInv, TypeOK, StartClientThread
  <2>2. CASE d # c
    BY <1>2, <2>2 DEF TInv, TypeOK, StartClientThread
  <2> QED
    BY <2>1, <2>2
<1>4. loop' \in [Clients -> LoopState]
  BY DEF TInv, TypeOK, StartClientThread, LoopState
<1> QED
  BY <1>2, <1>3, <1>4 DEF TInv, TypeOK, Answering, listener, StartClientThread

(* A thread's steps: what becomes of the sockets and of the threads.       *)

LEMMA ThreadStateSet ==
  ASSUME TInv, NEW c \in Clients, NEW k \in 1..Len(threads[c]), NEW e \in ThreadState,
         threads' = [threads EXCEPT ![c][k] = e]
  PROVE  /\ threads' \in [Clients -> Seq(ThreadState)]
         /\ threads'[c] = [threads[c] EXCEPT ![k] = e]
         /\ \A d \in Clients : Len(threads'[d]) = Len(threads[d])
         /\ \A d \in Clients \ {c} : threads'[d] = threads[d]
<1>1. threads[c] \in Seq(ThreadState) /\ threads \in [Clients -> Seq(ThreadState)]
  BY DEF TInv, TypeOK
<1>2. /\ [threads[c] EXCEPT ![k] = e] \in Seq(ThreadState)
      /\ Len([threads[c] EXCEPT ![k] = e]) = Len(threads[c])
  BY <1>1, ExceptSeq
<1> QED
  BY <1>1, <1>2

LEMMA ThreadSocketsKept ==
  ASSUME TInv, NEW c \in Clients, NEW k, ThreadStep(c, k)
  PROVE  SocketsKept
<1>1. ASSUME NEW i, NEW v \in SocketState \ {"refused"}, sockets[c][i] # "refused",
             sockets' = [sockets EXCEPT ![c][i] = v]
      PROVE  SocketsKept
  BY <1>1, OneSocketKept DEF TInv
<1>2. CASE sockets' = sockets
  BY <1>2, SameSocketsKept DEF TInv
<1>3. CASE Send(c, k)
  <2>1. SUFFICES ASSUME NEW i \in Referred(c, k), Usable(c, i),
                        sockets' = [sockets EXCEPT ![c][i] = IF @ = "open" THEN "open" ELSE "reset"]
                 PROVE  SocketsKept
    BY <1>2, <1>3 DEF Send
  <2> DEFINE v == IF sockets[c][i] = "open" THEN "open" ELSE "reset"
  <2>2. sockets' = [sockets EXCEPT ![c][i] = v]
    BY <2>1
  <2>3. v \in SocketState \ {"refused"} /\ sockets[c][i] # "refused"
    BY <2>1 DEF Usable, SocketState
  <2> HIDE DEF v
  <2> QED
    BY <1>1, <2>2, <2>3
<1>4. CASE CloseSocket(c, k)
  <2>1. SUFFICES ASSUME NEW i, sockets[c][i] # "refused",
                        sockets' = [sockets EXCEPT ![c][i] = "closed"]
                 PROVE  SocketsKept
    BY <1>2, <1>4 DEF CloseSocket
  <2> QED
    BY <1>1, <2>1 DEF SocketState
<1>5. CASE EndThread(c, k)
  BY <1>2, <1>5 DEF EndThread
<1> QED
  BY <1>3, <1>4, <1>5 DEF ThreadStep

LEMMA TypeThreadStep ==
  ASSUME TInv, NEW c \in Clients, NEW k \in 1..Len(threads[c]), ThreadStep(c, k)
  PROVE  TInv'
<1>1. SocketsKept
  BY ThreadSocketsKept
<1>2. /\ threads' \in [Clients -> Seq(ThreadState)]
      /\ \A d \in Clients : Len(threads'[d]) = Len(threads[d])
  <2>1. CASE threads' = threads
    BY <2>1 DEF TInv, TypeOK
  <2>2. ASSUME NEW e \in ThreadState, threads' = [threads EXCEPT ![c][k] = e]
        PROVE  <1>2!1 /\ <1>2!2
    BY <2>2, ThreadStateSet
  <2> QED
    BY <2>1, <2>2 DEF ThreadStep, Send, CloseSocket, EndThread, ThreadState
<1>3. connected' \in [Clients -> BOOLEAN]
  BY DEF TInv, TypeOK, ThreadStep, Send, CloseSocket, EndThread, FlagAtEnd
<1>4. UNCHANGED <<loop, requests, reply, port, listener, handlers>>
  BY DEF ThreadStep, Send, CloseSocket, EndThread
<1> QED
  BY <1>1, <1>2, <1>3, <1>4 DEF TInv, TypeOK, Answering, listener, SocketsKept

LEMMA TypeStutter == TInv /\ UNCHANGED vars => TInv'
BY DEF TInv, TypeOK, Answering, vars, client, listener

LEMMA TypeStep == TInv /\ [Next]_vars => TInv'
<1> SUFFICES ASSUME TInv, [Next]_vars PROVE TInv'
  OBVIOUS
<1>1. CASE ServerStep
  BY <1>1, TypeOpenBasePort, TypeAcceptRequest, TypeSendPort, TypeCloseBasePort
  DEF ServerStep
<1>2. ASSUME NEW n \in 1..Len(handlers), HandlerStep(n) PROVE TInv'
  BY <1>2, TypeListenForClient, TypeAcceptClient, TypeStopServing DEF HandlerStep
<1>3. ASSUME NEW c \in Clients, LoopStep(c) PROVE TInv'
  BY <1>3, TypeRequestPort, TypeCheckConnected, TypeReadPort, TypeConnectAllocated,
     TypeStartClientThread
  DEF LoopStep
<1>4. ASSUME NEW c \in Clients, NEW k \in 1..Len(threads[c]), ThreadStep(c, k)
      PROVE  TInv'
  BY <1>4, TypeThreadStep
<1>5. CASE UNCHANGED vars
  BY <1>5, TypeStutter
<1> QED
  BY <1>1, <1>2, <1>3, <1>4, <1>5 DEF Next

(* The state always has its type.                                          *)
THEOREM TypeCorrect == Spec => []TypeOK
<1>1. TInv => TypeOK
  BY DEF TInv
<1> QED
  BY <1>1, TInit, TypeStep, PTL DEF Spec

-----------------------------------------------------------------------------
(* The threads of a client.  Between the moment the flag is set for a turn *)
(* and the start of its thread, the turn already has a thread's worth of   *)
(* room; while a port is asked for, there is none to spare.                *)

Balanced(c) ==
  LET alive == Cardinality(AliveIn(threads[c]))
      refused == Cardinality(RefusedIn(sockets[c]))
  IN  /\ loop[c] = "checking" => alive <= refused + One(connected[c])
      /\ loop[c] = "starting" => alive + 1 <= refused + One(connected[c])
      /\ loop[c] \in {"requested", "waiting", "allocated"} => alive <= refused

Same(c) ==
  /\ loop'[c] = loop[c] /\ connected'[c] = connected[c] /\ threads'[c] = threads[c]
  /\ RefusedIn(sockets'[c]) = RefusedIn(sockets[c])

LEMMA SameBalanced == ASSUME NEW c, Balanced(c), Same(c) PROVE Balanced(c)'
BY DEF Balanced, Same

LEMMA CountsTyped ==
  ASSUME TInv, NEW c \in Clients
  PROVE  /\ Cardinality(AliveIn(threads[c])) \in Nat
         /\ Cardinality(RefusedIn(sockets[c])) \in Nat
         /\ connected[c] \in BOOLEAN /\ One(connected[c]) \in {0, 1}
<1>1. sockets[c] \in Seq(SocketState) /\ threads[c] \in Seq(ThreadState)
  BY DEF TInv, TypeOK
<1> QED
  BY <1>1, CountsFinite DEF TInv, TypeOK, One

(* The server's steps and those of its handlers do not touch them.         *)
LEMMA ServerKeepsClients ==
  ASSUME TInv, ServerStep \/ \E n \in 1..Len(handlers) : HandlerStep(n)
  PROVE  \A c \in Clients : Same(c)
<1>1. UNCHANGED <<loop, connected, threads>>
  BY DEF ServerStep, HandlerStep, OpenBasePort, AcceptRequest, SendPort, CloseBasePort,
         ListenForClient, AcceptClient, StopServing, Terminate, client, listener
<1>2. SocketsKept
  <2>1. CASE sockets' = sockets
    BY <2>1, SameSocketsKept DEF TInv
  <2>2. CASE Terminate
    BY <2>2, TerminateKeeps DEF TInv
  <2>3. ASSUME NEW n \in 1..Len(handlers), StopServing(n) PROVE SocketsKept
    BY <2>3, StopServingKeeps
  <2> QED
    BY <2>1, <2>2, <2>3
    DEF ServerStep, HandlerStep, OpenBasePort, AcceptRequest, SendPort, CloseBasePort,
        ListenForClient, AcceptClient, client
<1> QED
  BY <1>1, <1>2 DEF Same, SocketsKept

LEMMA RequestBalanced ==
  ASSUME TInv, NEW c \in Clients, RequestPort(c), Balanced(c)
  PROVE  Balanced(c)'
BY CountsTyped DEF TInv, TypeOK, RequestPort, MayRequest, Balanced, One

LEMMA CheckBalanced ==
  ASSUME TInv, NEW c \in Clients, CheckConnected(c), Balanced(c)
  PROVE  Balanced(c)'
<1>1. /\ loop[c] = "requested"
      /\ loop'[c] \in {"waiting", "checking"}
      /\ connected' = connected /\ threads' = threads /\ sockets' = sockets
  BY DEF TInv, TypeOK, CheckConnected
<1> QED
  BY <1>1, CountsTyped DEF Balanced

LEMMA ReadBalanced ==
  ASSUME TInv, NEW c \in Clients, ReadPort(c), Balanced(c)
  PROVE  Balanced(c)'
BY DEF TInv, TypeOK, ReadPort, Balanced

LEMMA ConnectBalanced ==
  ASSUME TInv, NEW c \in Clients, ConnectAllocated(c), Balanced(c)
  PROVE  Balanced(c)'
<1>1. PICK e \in {"open", "refused"} :
        /\ sockets' = [sockets EXCEPT ![c] = Append(sockets[c], e)]
        /\ connected' = [connected EXCEPT ![c] = e = "open"]
  BY DEF ConnectAllocated
<1>2. sockets[c] \in Seq(SocketState) /\ e \in SocketState
  BY DEF TInv, TypeOK, SocketState
<1>3. Cardinality(RefusedIn(sockets'[c])) =
        Cardinality(RefusedIn(sockets[c])) + One(e = "refused")
  BY <1>1, <1>2, RefusedAppend DEF TInv, TypeOK
<1>4. One(e = "refused") + One(connected'[c]) = 1
  <2>1. connected'[c] = (e = "open")
    BY <1>1 DEF TInv, TypeOK
  <2>2. CASE e = "open"
    <3>1. One(e = "refused") = 0
      BY <2>2 DEF One
    <3>2. One(connected'[c]) = 1
      BY <2>1, <2>2 DEF One
    <3> QED
      BY <3>1, <3>2
  <2>3. CASE e = "refused"
    <3>1. One(e = "refused") = 1
      BY <2>3 DEF One
    <3>2. One(connected'[c]) = 0
      BY <2>1, <2>3 DEF One
    <3> QED
      BY <3>1, <3>2
  <2> QED
    BY <2>2, <2>3
<1>5. One(e = "refused") \in {0, 1} /\ One(connected'[c]) \in {0, 1}
  BY DEF One
<1>6. loop[c] = "allocated" /\ loop'[c] = "starting" /\ threads' = threads
  BY DEF TInv, TypeOK, ConnectAllocated
<1> QED
  BY <1>3, <1>4, <1>5, <1>6, CountsTyped DEF Balanced

LEMMA StartBalanced ==
  ASSUME TInv, NEW c \in Clients, StartClientThread(c), Balanced(c)
  PROVE  Balanced(c)'
<1>1. threads[c] \in Seq(ThreadState) /\ threads'[c] = Append(threads[c], "running")
  BY DEF TInv, TypeOK, StartClientThread
<1>2. Cardinality(AliveIn(threads'[c])) = Cardinality(AliveIn(threads[c])) + 1
  BY <1>1, AliveAppend DEF ThreadState
<1>3. /\ loop[c] = "starting" /\ loop'[c] = "checking"
      /\ sockets' = sockets /\ connected' = connected
  BY DEF TInv, TypeOK, StartClientThread
<1> QED
  BY <1>2, <1>3 DEF Balanced

LEMMA ThreadBalanced ==
  ASSUME TInv, NEW c \in Clients, NEW k \in 1..Len(threads[c]), ThreadStep(c, k),
         Balanced(c)
  PROVE  Balanced(c)'
<1>1. RefusedIn(sockets'[c]) = RefusedIn(sockets[c]) /\ loop'[c] = loop[c]
  BY ThreadSocketsKept DEF SocketsKept, ThreadStep, Send, CloseSocket, EndThread
<1>2. threads[c] \in Seq(ThreadState)
  BY DEF TInv, TypeOK
<1>3. CASE threads' = threads /\ connected' = connected
  BY <1>1, <1>3, SameBalanced DEF Same
<1>4. ASSUME NEW e \in {"failed", "closing"}, threads' = [threads EXCEPT ![c][k] = e],
             threads[c][k] # "ended", connected' = connected
      PROVE  Balanced(c)'
  <2>1. e \in ThreadState /\ One(e = "ended") = 0
    BY DEF ThreadState, One
  <2>2. Cardinality(AliveIn(threads'[c])) = Cardinality(AliveIn(threads[c])) - 0
    BY <1>2, <1>4, <2>1, ThreadStateSet, AliveExcept
  <2> QED
    BY <1>1, <1>4, <2>2, CountsTyped DEF Balanced
<1>5. CASE EndThread(c, k)
  <2>1. /\ threads' = [threads EXCEPT ![c][k] = "ended"] /\ threads[c][k] # "ended"
        /\ connected'[c] = FALSE
    BY <1>5 DEF EndThread, FlagAtEnd, TInv, TypeOK
  <2>2. ASSUME NEW e \in ThreadState, e = "ended"
        PROVE  Cardinality(AliveIn([threads[c] EXCEPT ![k] = e])) =
                 Cardinality(AliveIn(threads[c])) - 1
    <3>1. One(e = "ended") = 1
      BY <2>2 DEF One
    <3> QED
      BY <1>2, <2>1, <3>1, AliveExcept
  <2>3. Cardinality(AliveIn(threads'[c])) = Cardinality(AliveIn(threads[c])) - 1
    BY <2>1, <2>2, ThreadStateSet DEF ThreadState
  <2>4. One(connected'[c]) = 0
    BY <2>1 DEF One
  <2> QED
    BY <1>1, <2>3, <2>4, CountsTyped DEF Balanced
<1> QED
  BY <1>3, <1>4, <1>5 DEF ThreadStep, Send, CloseSocket

LEMMA OthersSame ==
  ASSUME TInv, NEW c \in Clients, LoopStep(c) \/ \E k \in 1..Len(threads[c]) : ThreadStep(c, k)
  PROVE  \A d \in Clients \ {c} : Same(d)
<1>1. \A d \in Clients \ {c} :
        /\ loop'[d] = loop[d] /\ connected'[d] = connected[d] /\ threads'[d] = threads[d]
        /\ sockets'[d] = sockets[d]
  <2>1. CASE LoopStep(c)
    BY <2>1 DEF TInv, TypeOK, LoopStep, RequestPort, CheckConnected, ReadPort,
                   ConnectAllocated, StartClientThread
  <2>2. ASSUME NEW k \in 1..Len(threads[c]), ThreadStep(c, k) PROVE <1>1
    BY <2>2 DEF TInv, TypeOK, ThreadStep, Send, CloseSocket, EndThread, FlagAtEnd
  <2> QED
    BY <2>1, <2>2
<1> QED
  BY <1>1 DEF Same

LEMMA BalanceStep ==
  TInv /\ (\A c \in Clients : Balanced(c)) /\ [Next]_vars => (\A c \in Clients : Balanced(c))'
<1> SUFFICES ASSUME TInv, \A c \in Clients : Balanced(c), [Next]_vars,
                    NEW d \in Clients
             PROVE  Balanced(d)'
  OBVIOUS
<1>1. CASE Same(d)
  BY <1>1, SameBalanced
<1>2. CASE ServerStep \/ \E n \in 1..Len(handlers) : HandlerStep(n)
  BY <1>1, <1>2, ServerKeepsClients
<1>3. ASSUME NEW c \in Clients, LoopStep(c) PROVE Balanced(d)'
  <2>1. CASE c = d
    BY <1>3, <2>1, RequestBalanced, CheckBalanced, ReadBalanced, ConnectBalanced,
       StartBalanced
    DEF LoopStep
  <2>2. CASE c # d
    BY <1>1, <1>3, <2>2, OthersSame
  <2> QED
    BY <2>1, <2>2
<1>4. ASSUME NEW c \in Clients, NEW k \in 1..Len(threads[c]), ThreadStep(c, k)
      PROVE  Balanced(d)'
  <2>1. CASE c = d
    BY <1>4, <2>1, ThreadBalanced
  <2>2. CASE c # d
    BY <1>1, <1>4, <2>2, OthersSame
  <2> QED
    BY <2>1, <2>2
<1>5. CASE UNCHANGED vars
  BY <1>1, <1>5 DEF vars, client, Same
<1> QED
  BY <1>2, <1>3, <1>4, <1>5 DEF Next

(* A client never has more threads than refused connections and one, and   *)
(* the one only while the flag is set.                                     *)
THEOREM ThreadsAlwaysAccounted == Spec => []ThreadsAccounted
<1> DEFINE IInv == TInv /\ \A c \in Clients : Balanced(c)
<1>1. Init => IInv
  <2> SUFFICES ASSUME Init, NEW c \in Clients PROVE Balanced(c)
    BY TInit
  <2>1. loop[c] = "checking" /\ threads[c] = <<>> /\ sockets[c] = <<>>
        /\ connected[c] = FALSE
    BY DEF Init
  <2>2. AliveIn(threads[c]) = {} /\ RefusedIn(sockets[c]) = {}
    BY <2>1 DEF AliveIn, RefusedIn
  <2>3. One(connected[c]) = 0
    BY <2>1 DEF One
  <2>4. Cardinality(AliveIn(threads[c])) = 0 /\ Cardinality(RefusedIn(sockets[c])) = 0
    BY <2>2, FS_EmptySet
  <2> QED
    BY <2>1, <2>3, <2>4 DEF Balanced
<1>2. IInv /\ [Next]_vars => IInv'
  BY TypeStep, BalanceStep
<1>3. IInv => ThreadsAccounted
  <2> SUFFICES ASSUME IInv, NEW c \in Clients
               PROVE  Cardinality(Alive(c)) <= Cardinality(Refused(c)) + One(connected[c])
    BY DEF ThreadsAccounted
  <2>1. Alive(c) = AliveIn(threads[c]) /\ Refused(c) = RefusedIn(sockets[c])
    BY DEF Alive, AliveIn, Refused, RefusedIn
  <2>2. loop[c] \in {"checking", "starting", "requested", "waiting", "allocated"}
    BY DEF TInv, TypeOK, LoopState
  <2> QED
    BY <2>1, <2>2, CountsTyped DEF Balanced
<1> HIDE DEF IInv
<1> QED
  BY <1>1, <1>2, <1>3, PTL DEF Spec

-----------------------------------------------------------------------------
(* The newest thread.                                                      *)

HasThread(c) ==
  loop[c] = "checking" /\ connected[c] =>
    threads[c] # <<>> /\ threads[c][Len(threads[c])] # "ended"

LEMMA HasThreadStep ==
  TInv /\ (\A c \in Clients : HasThread(c)) /\ [Next]_vars
    => (\A c \in Clients : HasThread(c))'
<1> SUFFICES ASSUME TInv, \A c \in Clients : HasThread(c), [Next]_vars,
                    NEW d \in Clients
             PROVE  HasThread(d)'
  OBVIOUS
<1>1. CASE Same(d)
  BY <1>1 DEF Same, HasThread
<1>2. CASE ServerStep \/ \E n \in 1..Len(handlers) : HandlerStep(n)
  BY <1>1, <1>2, ServerKeepsClients
<1>3. ASSUME NEW c \in Clients, LoopStep(c) PROVE HasThread(d)'
  <2>1. CASE c # d
    BY <1>1, <1>3, <2>1, OthersSame
  <2>2. CASE c = d /\ loop'[d] # "checking"
    BY <2>2 DEF HasThread
  <2>3. CASE c = d /\ CheckConnected(d)
    BY <2>3 DEF CheckConnected, HasThread, TInv, TypeOK
  <2>4. CASE c = d /\ StartClientThread(d)
    <3>1. threads[d] \in Seq(ThreadState) /\ threads'[d] = Append(threads[d], "running")
      BY <2>4 DEF TInv, TypeOK, StartClientThread
    <3>2. threads'[d] # <<>> /\ threads'[d][Len(threads'[d])] = "running"
      BY <3>1, AppendProperties, LenProperties DEF ThreadState
    <3> QED
      BY <3>2 DEF HasThread
  <2> QED
    BY <1>3, <2>1, <2>2, <2>3, <2>4
    DEF LoopStep, RequestPort, ReadPort, ConnectAllocated, TInv, TypeOK
<1>4. ASSUME NEW c \in Clients, NEW k \in 1..Len(threads[c]), ThreadStep(c, k)
      PROVE  HasThread(d)'
  <2>1. CASE c # d
    BY <1>1, <1>4, <2>1, OthersSame
  <2>2. CASE c = d /\ EndThread(d, k)
    BY <2>2 DEF EndThread, FlagAtEnd, HasThread, TInv, TypeOK
  <2>3. CASE c = d /\ threads'[d] = threads[d] /\ connected' = connected /\ loop' = loop
    BY <2>3 DEF HasThread
  <2>4. ASSUME c = d, NEW e \in {"failed", "closing"},
               threads' = [threads EXCEPT ![d][k] = e], connected' = connected, loop' = loop
        PROVE  HasThread(d)'
    <3>1. e \in ThreadState /\ e # "ended"
      BY DEF ThreadState
    <3>2. threads[d] \in Seq(ThreadState) /\ Len(threads'[d]) = Len(threads[d])
          /\ threads'[d] = [threads[d] EXCEPT ![k] = e]
      BY <1>4, <2>4, <3>1, ThreadStateSet DEF TInv, TypeOK
    <3>3. threads[d] # <<>> =>
            /\ threads'[d] # <<>>
            /\ Len(threads[d]) \in 1..Len(threads[d])
      BY <3>2, EmptySeq, LenProperties
    <3>4. \A j \in 1..Len(threads[d]) :
            threads'[d][j] = IF j = k THEN e ELSE threads[d][j]
      BY <1>4, <2>4, <3>1, <3>2, ExceptSeq
    <3> QED
      BY <2>4, <3>1, <3>2, <3>3, <3>4 DEF HasThread
  <2> QED
    BY <1>4, <2>1, <2>2, <2>3, <2>4 DEF ThreadStep, Send, CloseSocket
<1>5. CASE UNCHANGED vars
  BY <1>1, <1>5 DEF vars, client, Same
<1> QED
  BY <1>2, <1>3, <1>4, <1>5 DEF Next

(* A client that sleeps because it is connected has a thread that will     *)
(* clear the flag.                                                         *)
THEOREM ConnectedAlwaysHasThread == Spec => []ConnectedHasThread
<1> DEFINE IInv == TInv /\ \A c \in Clients : HasThread(c)
<1>1. Init => IInv
  BY TInit DEF Init, HasThread
<1>2. IInv /\ [Next]_vars => IInv'
  BY TypeStep, HasThreadStep
<1>3. IInv => ConnectedHasThread
  BY DEF ConnectedHasThread, HasThread
<1> HIDE DEF IInv
<1> QED
  BY <1>1, <1>2, <1>3, PTL DEF Spec
=============================================================================

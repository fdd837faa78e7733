------------------------------ MODULE TCPPair ------------------------------
(***************************************************************************)
(* TCPTxModule and TCPRxModule: one side connects, the other listens, and  *)
(* either may be the sender.  The connecting side (several modules, each   *)
(* in a process of its own) builds one connection at a time under a flag   *)
(* and runs a detached thread on it; the listening side detaches a thread  *)
(* for every connection it accepts.                                        *)
(*                                                                         *)
(* A thread refers to a variable of the loop that started it.  The         *)
(* connecting loop leaves the variable's scope and may put anything in its *)
(* place; the listening loop gives it the next client's socket.            *)
(*                                                                         *)
(* A chunk stands for the frame of one send, and travels in two pieces     *)
(* that a send may put apart and two threads may read apart.  The first    *)
(* piece begins with the size, by which the second is told from what       *)
(* follows; how frames are cut byte by byte is the subject of ByteStream.  *)
(* Errors of socket() and accept() and the shut-down are left out.         *)
(***************************************************************************)
EXTENDS Integers, Sequences, FiniteSets

CONSTANTS
  Peers,           \* modules in mode "Connect"; another is in mode "Listen"
  Room,            \* pieces a connection holds
  MaxConnections,  \* bound: connections made
  MaxChunks        \* bound: chunks sent that are told apart

ASSUME RoomAssumption == Room \in Nat \ {0}
ASSUME BoundsAssumption == {MaxConnections, MaxChunks} \subseteq Nat

VARIABLES
  sending,    \* the end chunks are sent from, "near" or "far"
  listener,   \* the listening loop: "binding", "listening", or "gone"
  connected,  \* connected[p]: m_bTCPConnected of a connecting module
  peer,       \* peer[n]: who made the n-th connection
  open,       \* open[n][e]: the socket at end e is not closed
  broken,     \* broken[n]: the connection was reset
  data,       \* data[n]: pieces sent and not yet received
  thread,     \* thread[n][e]: the thread started for end e
  unsent,     \* unsent[n]: what the n-th sending thread is in send with
  target,     \* target[n]: the socket of that send
  held,       \* held[n]: vcAccumulatedBytes of the n-th receiving thread
  slot,       \* clientSocket of the listening loop: the latest accepted
  taken,      \* chunks taken from an input buffer, numbered as they are
  received    \* how often each chunk was passed on

sides == <<sending, listener, connected>>
wires == <<peer, open, broken, data>>
hands == <<unsent, target, held>>
vars == <<sides, wires, thread, hands, slot, taken, received>>

Chunk == 1..MaxChunks

(* A piece is half a chunk, or 0: what a wrong cut left of one.            *)
Piece == Chunk \X (0..2)
Halves(c) == <<<<c, 1>>, <<c, 2>>>>
Torn(q) == <<q[1], 0>>

(* The connecting module has the near end.                                 *)
End == {"near", "far"}
Other(e) == IF e = "near" THEN "far" ELSE "near"
ThreadState == {"none", "running", "leaving", "closed", "ended"}
Connections == 1..Len(peer)
NoSocket == 0
Threads == 1..MaxConnections

Init ==
  /\ sending \in End /\ listener = "binding"
  /\ connected = [p \in Peers |-> FALSE]
  /\ peer = <<>> /\ open = <<>> /\ broken = <<>> /\ data = <<>> /\ thread = <<>>
  /\ unsent = [n \in Threads |-> <<>>] /\ target = [n \in Threads |-> NoSocket]
  /\ held = [n \in Threads |-> <<>>]
  /\ slot = NoSocket
  /\ taken = 0
  /\ received = [c \in Chunk |-> 0]

-----------------------------------------------------------------------------
(* The two loops.                                                          *)

(* ListenForClients up to its loop; a bind that fails ends it for good.    *)
Bind ==
  /\ listener = "binding"
  /\ listener' \in {"listening", "gone"}
  /\ UNCHANGED <<sending, connected, wires, thread, hands, slot, taken, received>>

MayConnect == listener = "listening" /\ Len(peer) < MaxConnections

(* Mutant: the loop does not look at the flag.                             *)
Connect_Always(p) ==
  /\ MayConnect
  /\ connected' = [connected EXCEPT ![p] = TRUE]
  /\ peer' = Append(peer, p)
  /\ open' = Append(open, [e \in End |-> TRUE])
  /\ broken' = Append(broken, FALSE)
  /\ data' = Append(data, <<>>)
  /\ thread' = Append(thread, [near |-> "running", far |-> "none"])
  /\ UNCHANGED <<sending, listener, hands, slot, taken, received>>

(* A turn of ConnectToClient or ConnectToServer that reaches a listener;   *)
(* any other is undone, and repeated 100 ms later.                         *)
Connect(p) ==
  /\ ~connected[p]
  /\ MayConnect
  /\ connected' = [connected EXCEPT ![p] = TRUE]
  /\ peer' = Append(peer, p)
  /\ open' = Append(open, [e \in End |-> TRUE])
  /\ broken' = Append(broken, FALSE)
  /\ data' = Append(data, <<>>)
  /\ thread' = Append(thread, [near |-> "running", far |-> "none"])
  /\ UNCHANGED <<sending, listener, hands, slot, taken, received>>

(* Mutant: a thread is started for a failed accept as well.                *)
Accept_Unchecked(n) ==
  /\ listener = "listening"
  /\ thread[n]["far"] = "none" /\ \A k \in 1..n - 1 : thread[k]["far"] # "none"
  /\ thread' = [thread EXCEPT ![n]["far"] = "running"]
  /\ slot' \in {n, -1}
  /\ UNCHANGED <<sides, wires, hands, taken, received>>

(* A turn of ListenForClients' loop: clients are accepted in order.        *)
Accept(n) ==
  /\ listener = "listening"
  /\ thread[n]["far"] = "none" /\ \A k \in 1..n - 1 : thread[k]["far"] # "none"
  /\ thread' = [thread EXCEPT ![n]["far"] = "running"]
  /\ slot' = n
  /\ UNCHANGED <<sides, wires, hands, taken, received>>

-----------------------------------------------------------------------------
(* The threads.                                                            *)

(* What a thread finds in the variable it refers to, or found there when   *)
(* it made the call it is in.                                              *)
Referred(n, e) == {NoSocket} \cup IF e = "near" THEN {n} ELSE n..slot

Leave(n, e) == thread' = [thread EXCEPT ![n][e] = "leaving"]

Usable(r, e) == r # NoSocket /\ open[r][e] /\ ~broken[r]

(* send puts in what there is room for and waits for more room, and other  *)
(* threads may come in between.                                            *)
Put(n, r, bytes) ==
  LET room == Room - Len(data[r])
      k == IF Len(bytes) <= room THEN Len(bytes) ELSE room
  IN  /\ data' = [data EXCEPT ![r] = @ \o SubSeq(bytes, 1, k)]
      /\ unsent' = [unsent EXCEPT ![n] = SubSeq(bytes, k + 1, Len(bytes))]
      /\ target' = [target EXCEPT ![n] = IF k = Len(bytes) THEN NoSocket ELSE r]

(* RunClientThread of TCPTxModule: a chunk is taken and given to send, and *)
(* lost if that fails.  The first send to a socket closed at the other end *)
(* succeeds and draws a reset.  Chunks beyond the bound are not followed.  *)
SendChunk(n) ==
  LET e == sending
      bytes == IF taken < MaxChunks THEN Halves(taken + 1) ELSE <<>>
  IN  /\ thread[n][e] = "running" /\ unsent[n] = <<>>
      /\ taken' = IF taken < MaxChunks THEN taken + 1 ELSE taken
      /\ \E r \in Referred(n, e) :
           \/ /\ Usable(r, e) /\ open[r][Other(e)]
              /\ Put(n, r, bytes)
              /\ UNCHANGED <<thread, broken>>
           \/ /\ Usable(r, e) /\ ~open[r][Other(e)]
              /\ broken' = [broken EXCEPT ![r] = TRUE]
              /\ UNCHANGED <<thread, data, unsent, target>>
           \/ /\ ~Usable(r, e)
              /\ Leave(n, e)
              /\ UNCHANGED <<broken, data, unsent, target>>
      /\ UNCHANGED <<sides, peer, open, held, slot, received>>

(* A send that waits for room goes on.  One that has put in a part when it *)
(* fails returns its length, and the thread takes the next chunk.          *)
SendRest(n) ==
  LET e == sending
      r == target[n]
  IN  /\ thread[n][e] = "running" /\ unsent[n] # <<>>
      /\ \/ /\ Usable(r, e) /\ open[r][Other(e)]
            /\ Put(n, r, unsent[n])
            /\ UNCHANGED thread
         \/ /\ ~(Usable(r, e) /\ open[r][Other(e)])
            /\ unsent' = [unsent EXCEPT ![n] = <<>>]
            /\ target' = [target EXCEPT ![n] = NoSocket]
            /\ IF Len(unsent[n]) = 1 THEN UNCHANGED thread ELSE Leave(n, e)
            /\ UNCHANGED data
      /\ UNCHANGED <<sides, peer, open, broken, held, slot, taken, received>>

(* The bytes of a thread begin with a frame, as far as they go.            *)
InStep(bytes) == bytes[1][2] = 1 /\ (Len(bytes) > 1 => bytes[2] = <<bytes[1][1], 2>>)

(* What a cut by any size may leave.                                       *)
Remains(bytes) ==
  {SubSeq(bytes, k, Len(bytes)) : k \in 1..Len(bytes) + 1}
    \cup {<<Torn(bytes[k])>> \o SubSeq(bytes, k + 1, Len(bytes)) : k \in 1..Len(bytes)}

(* A frame is passed on when something is there behind it.  Bytes that do  *)
(* not begin with a frame hold any size, and what is passed on of them is  *)
(* no chunk.                                                               *)
CutFrom(n, bytes) ==
  \/ /\ InStep(bytes) /\ Len(bytes) > 2
     /\ received' = [received EXCEPT ![bytes[1][1]] = @ + 1]
     /\ held' = [held EXCEPT ![n] = SubSeq(bytes, 3, Len(bytes))]
  \/ /\ InStep(bytes) /\ Len(bytes) <= 2
     /\ held' = [held EXCEPT ![n] = bytes]
     /\ UNCHANGED received
  \/ /\ ~InStep(bytes)
     /\ \E rest \in Remains(bytes) : held' = [held EXCEPT ![n] = rest]
     /\ UNCHANGED received

(* Mutant: what is received is left in the connection.                     *)
ReceiveChunk_Peek(n) ==
  LET e == Other(sending)
  IN  /\ thread[n][e] = "running"
      /\ \E r \in Referred(n, e) :
           \/ /\ Usable(r, e)
              /\ \E k \in 1..Len(data[r]) : CutFrom(n, held[n] \o SubSeq(data[r], 1, k))
              /\ UNCHANGED <<thread, data>>
           \/ /\ Usable(r, e) => data[r] = <<>> /\ ~open[r][Other(e)]
              /\ held' = [held EXCEPT ![n] = <<>>]
              /\ Leave(n, e)
              /\ UNCHANGED <<data, received>>
      /\ UNCHANGED <<sides, peer, open, broken, unsent, target, slot, taken>>

(* RunServerThread of TCPRxModule: one recv.  It returns some of what is   *)
(* in the connection, and that is added to what the thread read before,    *)
(* whichever socket that came from.  An error or the end of the stream     *)
(* ends the thread; otherwise it goes on waiting.                          *)
ReceiveChunk(n) ==
  LET e == Other(sending)
  IN  /\ thread[n][e] = "running"
      /\ \E r \in Referred(n, e) :
           \/ /\ Usable(r, e)
              /\ \E k \in 1..Len(data[r]) :
                   /\ data' = [data EXCEPT ![r] = SubSeq(@, k + 1, Len(@))]
                   /\ CutFrom(n, held[n] \o SubSeq(data[r], 1, k))
              /\ UNCHANGED thread
           \/ /\ Usable(r, e) => data[r] = <<>> /\ ~open[r][Other(e)]
              /\ held' = [held EXCEPT ![n] = <<>>]
              /\ Leave(n, e)
              /\ UNCHANGED <<data, received>>
      /\ UNCHANGED <<sides, peer, open, broken, unsent, target, slot, taken>>

(* The end of both threads: close, on whatever the variable holds.  A      *)
(* socket that another thread is in a call on stays open for that call ... *)
CloseSocket(n, e) ==
  /\ thread[n][e] = "leaving"
  /\ \E r \in Referred(n, e) :
       \/ r # NoSocket /\ open' = [open EXCEPT ![r][e] = FALSE]
       \/ /\ \/ r = NoSocket
             \/ \E k \in Connections \ {n} : thread[k][e] = "running" /\ r \in Referred(k, e)
          /\ UNCHANGED open
  /\ thread' = [thread EXCEPT ![n][e] = IF e = "near" THEN "closed" ELSE "ended"]
  /\ UNCHANGED <<sides, peer, broken, data, hands, slot, taken, received>>

(* Mutant: the flag stays set.                                             *)
ClearFlag_Kept(n) ==
  /\ thread[n]["near"] = "closed"
  /\ thread' = [thread EXCEPT ![n]["near"] = "ended"]
  /\ UNCHANGED <<sides, wires, hands, slot, taken, received>>

(* ... and then the flag.  That of a listening module is never set.        *)
ClearFlag(n) ==
  /\ thread[n]["near"] = "closed"
  /\ thread' = [thread EXCEPT ![n]["near"] = "ended"]
  /\ connected' = [connected EXCEPT ![peer[n]] = FALSE]
  /\ UNCHANGED <<sending, listener, wires, hands, slot, taken, received>>

-----------------------------------------------------------------------------
(* The network resets a connection.                                        *)
Break(n) ==
  /\ ~broken[n]
  /\ broken' = [broken EXCEPT ![n] = TRUE]
  /\ UNCHANGED <<sides, peer, open, data, thread, hands, slot, taken, received>>

NearStep(n) ==
  \/ sending = "near" /\ (SendChunk(n) \/ SendRest(n))
  \/ sending = "far" /\ ReceiveChunk(n)
  \/ CloseSocket(n, "near") \/ ClearFlag(n)

Next ==
  \/ Bind
  \/ \E p \in Peers : Connect(p)
  \/ \E n \in Connections : Accept(n) \/ Break(n)
  \/ \E n \in Connections : SendChunk(n) \/ SendRest(n)
  \/ \E n \in Connections : ReceiveChunk(n) \/ ClearFlag(n)
  \/ \E n \in Connections, e \in End : CloseSocket(n, e)

Spec == Init /\ [][Next]_vars

(* The connecting modules: loop and threads go on by themselves, as long   *)
(* as there are chunks to send or to be told that there are no more.       *)
FairSpec ==
  /\ Spec
  /\ \A p \in Peers : WF_vars(Connect(p))
  /\ \A n \in 1..MaxConnections : WF_vars(n \in Connections /\ NearStep(n))

-----------------------------------------------------------------------------
TypeOK ==
  /\ sending \in End /\ listener \in {"binding", "listening", "gone"}
  /\ connected \in [Peers -> BOOLEAN]
  /\ peer \in Seq(Peers) /\ Len(peer) <= MaxConnections
  /\ open \in Seq([End -> BOOLEAN]) /\ broken \in Seq(BOOLEAN)
  /\ data \in Seq(Seq(Piece)) /\ thread \in Seq([End -> ThreadState])
  /\ {Len(open), Len(broken), Len(data), Len(thread)} = {Len(peer)}
  /\ \A n \in 1..Len(data) : Len(data[n]) <= Room
  /\ unsent \in [Threads -> Seq(Piece)] /\ held \in [Threads -> Seq(Piece)]
  /\ target \in [Threads -> 0..Len(peer)]
  /\ slot \in 0..Len(peer)
  /\ taken \in 0..MaxChunks
  /\ received \in [Chunk -> Nat]

(* "One thread should be created at a time": a connecting module has one   *)
(* thread while its flag is set and none while it is not, whatever the     *)
(* dangling reference leads to; unlike that of the multi-client module the *)
(* flag can be trusted (TCPTxModule.cpp:28-31, 84-88, 194).                *)
FlagTruthful ==
  \A p \in Peers :
    LET alive == {n \in Connections : peer[n] = p /\ thread[n]["near"] # "ended"}
    IN  Cardinality(alive) = (IF connected[p] THEN 1 ELSE 0)

(* Where a piece is: in a sender's hands, in a connection, or in what a    *)
(* receiver has read and not passed on.                                    *)
Places(q) ==
  UNION {LET in(where, bytes) == {<<where, n>>} \X {i \in 1..Len(bytes) : bytes[i] = q}
         IN  in("unsent", unsent[n]) \cup in("data", data[n]) \cup in("held", held[n])
           : n \in Connections}

(* No two threads can have used one socket.                                *)
Alone == \A n, k \in Connections :
           thread[n]["far"] # "none" /\ thread[k]["far"] # "none" => n = k

(* Both halves of a chunk are in one place at most, and in none once it    *)
(* was passed on, also when several threads take from one buffer or send   *)
(* on and read from one socket: none is passed on twice.  And none is lost *)
(* while no connection was reset, no thread gave up, and one client only   *)
(* was accepted; with a second, threads may read halves of one frame       *)
(* (TCPTxModule.cpp:142-172, TCPRxModule.cpp:93-150).                      *)
ChunksTracked ==
  \A c \in Chunk, h \in 1..2 :
    LET places == received[c] + Cardinality(Places(<<c, h>>))
        undisturbed == \A n \in Connections :
                         ~broken[n] /\ \A e \in End : thread[n][e] \in {"none", "running"}
    IN  /\ places <= 1
        /\ undisturbed /\ Alone /\ c <= taken => places = 1

(* "In the case of an error, the thread will close and this will recreate  *)
(* the socket": a connecting module whose connection is dead, or closed at *)
(* the other end, stops taking it for connected and so makes a new one.    *)
(* A dead connection stays dead, so each is noticed in the end, for good,  *)
(* if again and again all are (TCPTxModule.cpp:29-31).                     *)
DeadNoticed ==
  []<>(\A n \in Connections :
         broken[n] \/ ~open[n]["far"] =>
           /\ thread[n]["near"] = "ended"
           /\ \/ ~connected[peer[n]]
              \/ \E k \in Connections : k > n /\ peer[k] = peer[n])
=============================================================================

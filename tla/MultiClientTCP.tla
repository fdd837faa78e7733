--------------------------- MODULE MultiClientTCP ---------------------------
(***************************************************************************)
(* LinuxMultiClientTCPTxModule on several sensors and                      *)
(* LinuxMultiClientTCPRxModule on the server: how a connection is made,    *)
(* used and given up.                                                      *)
(*                                                                         *)
(* The main loop of a client asks the server's base port for a port of its *)
(* own, connects to it and detaches a thread that sends the chunks.  The   *)
(* server answers one request at a time and opens its base port anew for   *)
(* each; it detaches a thread per request that listens on the new port.    *)
(* The client's m_bTCPConnected is shared by its main loop and its         *)
(* threads.                                                                *)
(*                                                                         *)
(* A client thread refers to a variable of a finished turn of the main     *)
(* loop.  What it finds there is its own socket, that of a later turn, or  *)
(* no socket at all.  The bytes sent are left out; a chunk to send is      *)
(* taken to be at hand whenever a thread takes a step.                     *)
(***************************************************************************)
EXTENDS Integers, Sequences, FiniteSets

CONSTANTS
  Clients,      \* sensors that connect to the server
  Nobody,       \* who is at the other end of an abandoned request
  PortCount,    \* number of values of a uint16_t
  BasePort,     \* m_u16TCPPort of both modules
  MaxRequests   \* bound: requests for a port the clients make together

ASSUME PortsAssumption == PortCount \in Nat \ {0} /\ BasePort \in 0..PortCount - 1
ASSUME NobodyAssumption == Nobody \notin Clients
ASSUME RequestsAssumption == MaxRequests \in Nat

VARIABLES
  loop,       \* loop[c]: where the main loop of client c is
  requests,   \* requests for a port made so far
  connected,  \* connected[c]: m_bTCPConnected
  reply,      \* reply[c]: what came back on the allocating socket
  port,       \* port[c]: u16AllocatedPortNumber of the current turn
  sockets,    \* sockets[c]: state of the socket of each turn
  threads,    \* threads[c]: state of the thread of each turn
  server,     \* where the main loop of the server is
  backlog,    \* who made the unanswered requests, in order
  count,      \* m_u16LifeTimeConnectionCount
  handlers    \* client threads of the server, in order of creation

client   == <<loop, requests, connected, reply, port, sockets, threads>>
listener == <<server, backlog, count>>
vars == <<client, listener, handlers>>

Ports == 0..PortCount - 1
NoReply == -1
Reset == -2
LoopState == {"checking", "requested", "waiting", "allocated", "starting"}
ServerState == {"opening", "accepting", "allocating", "closing", "dead"}
SocketState == {"refused", "open", "peer closed", "reset", "closed"}
ThreadState == {"running", "failed", "closing", "ended"}
(* A handler's queue holds the connections made to its port and not yet    *)
(* accepted, peer the one it serves; each is a client and a turn.          *)
Connection == Clients \X Nat
Handler == [port : Ports, state : {"created", "accepting", "serving", "ended"},
            queue : Seq(Connection), peer : Seq(Connection)]

-----------------------------------------------------------------------------
(* The server.                                                             *)

BasePortOpen == server \in {"accepting", "allocating", "closing"}

(* StartClientThread never closes the socket it listens on.                *)
Listening(n) == handlers[n].state \in {"accepting", "serving", "ended"}

PortTaken(p) ==
  \/ BasePortOpen /\ p = BasePort
  \/ \E n \in 1..Len(handlers) : Listening(n) /\ handlers[n].port = p

(* A failed bind throws and ends the process: all its sockets close.       *)
Terminate ==
  /\ server' = "dead" /\ backlog' = <<>>
  /\ handlers' = [n \in 1..Len(handlers) |-> [handlers[n] EXCEPT !.state = "ended"]]
  /\ sockets' = [c \in Clients |-> [k \in 1..Len(sockets[c]) |->
                   IF sockets[c][k] = "open" THEN "reset" ELSE sockets[c][k]]]
  /\ reply' = [c \in Clients |->
                 IF loop[c] \in {"requested", "waiting"} /\ reply[c] = NoReply
                 THEN Reset ELSE reply[c]]
  /\ UNCHANGED <<loop, requests, connected, port, threads, count>>

(* ConnectTCPSocket on the base port.                                      *)
OpenBasePort ==
  /\ server = "opening"
  /\ \/ PortTaken(BasePort) /\ Terminate
     \/ /\ ~PortTaken(BasePort)
        /\ server' = "accepting" /\ backlog' = <<>>
        /\ UNCHANGED <<client, count, handlers>>

(* Mutant: the sum is not cut to 16 bits.                                  *)
AllocatedPort_Wide(n) == BasePort + n

AllocatedPort(n) == (BasePort + n) % PortCount

(* AllocateAndStartClientProcess, up to the start of the thread.           *)
AcceptRequest ==
  /\ server = "accepting" /\ backlog # <<>>
  /\ count' = (count + 1) % PortCount
  /\ handlers' = Append(handlers, [port |-> AllocatedPort(count'), state |-> "created",
                                   queue |-> <<>>, peer |-> <<>>])
  /\ server' = "allocating"
  /\ UNCHANGED <<client, backlog>>

(* Its rest: the port is sent, whether or not the thread listens on it.    *)
SendPort ==
  /\ server = "allocating"
  /\ reply' = [c \in Clients |->
                 IF c = Head(backlog) THEN AllocatedPort(count) ELSE reply[c]]
  /\ server' = "closing" /\ backlog' = Tail(backlog)
  /\ UNCHANGED <<loop, requests, connected, port, sockets, threads, count, handlers>>

(* Mutant: who still waits hears nothing.                                  *)
ResetWaiting_Silent == reply

(* Who waits at a socket that closes finds the connection reset.           *)
ResetWaiting ==
  [c \in Clients |-> IF c \in {backlog[i] : i \in 1..Len(backlog)} THEN Reset ELSE reply[c]]

CloseBasePort ==
  /\ server = "closing"
  /\ reply' = ResetWaiting
  /\ server' = "opening" /\ backlog' = <<>>
  /\ UNCHANGED <<loop, requests, connected, port, sockets, threads, count, handlers>>

(* StartClientThread: bind and listen, accept one client, read until an    *)
(* error, the client's end or ten seconds of silence, then close.          *)
ListenForClient(n) ==
  /\ handlers[n].state = "created"
  /\ \/ PortTaken(handlers[n].port) /\ Terminate
     \/ /\ ~PortTaken(handlers[n].port)
        /\ handlers' = [handlers EXCEPT ![n].state = "accepting"]
        /\ UNCHANGED <<client, listener>>

AcceptClient(n) ==
  /\ handlers[n].state = "accepting" /\ handlers[n].queue # <<>>
  /\ handlers' = [handlers EXCEPT ![n].state = "serving",
                                  ![n].peer = <<Head(handlers[n].queue)>>,
                                  ![n].queue = Tail(handlers[n].queue)]
  /\ UNCHANGED <<client, listener>>

StopServing(n) ==
  /\ handlers[n].state = "serving"
  /\ handlers' = [handlers EXCEPT ![n].state = "ended"]
  /\ LET c == handlers[n].peer[1][1]  k == handlers[n].peer[1][2]
     IN sockets' = IF sockets[c][k] = "open"
                   THEN [sockets EXCEPT ![c][k] = "peer closed"] ELSE sockets
  /\ UNCHANGED <<loop, requests, connected, reply, port, threads, listener>>

-----------------------------------------------------------------------------
(* The client's main loop, Process.                                        *)

(* Mutant: asks again while connected.                                     *)
MayRequest_Always(c) == TRUE

MayRequest(c) == ~connected[c]

(* While the base port is closed the connection is refused and nothing     *)
(* changes: the loop sleeps and comes back.                                *)
RequestPort(c) ==
  /\ loop[c] = "checking" /\ MayRequest(c)
  /\ BasePortOpen /\ requests < MaxRequests
  /\ requests' = requests + 1
  /\ connected' = [connected EXCEPT ![c] = TRUE]
  /\ backlog' = Append(backlog, c)
  /\ loop' = [loop EXCEPT ![c] = "requested"]
  /\ reply' = [reply EXCEPT ![c] = NoReply]
  /\ UNCHANGED <<port, sockets, threads, server, count, handlers>>

Abandoned(c) == [i \in 1..Len(backlog) |-> IF backlog[i] = c THEN Nobody ELSE backlog[i]]

(* The flag is read again, and a thread may have cleared it: the request   *)
(* is given up, but its socket stays open.                                 *)
CheckConnected(c) ==
  /\ loop[c] = "requested"
  /\ \/ /\ connected[c]
        /\ loop' = [loop EXCEPT ![c] = "waiting"]
        /\ UNCHANGED backlog
     \/ /\ ~connected[c]
        /\ loop' = [loop EXCEPT ![c] = "checking"]
        /\ backlog' = Abandoned(c)
  /\ UNCHANGED <<requests, connected, reply, port, sockets, threads, server, count, handlers>>

(* WaitForReturnedPortAllocation.  A read error leaves its vector empty,   *)
(* and the port is what the memory behind it holds (other than the base    *)
(* port: a bound).                                                         *)
ReadPort(c) ==
  /\ loop[c] = "waiting" /\ reply[c] # NoReply
  /\ \/ reply[c] # Reset /\ port' = [port EXCEPT ![c] = reply[c]]
     \/ reply[c] = Reset /\ \E p \in Ports \ {BasePort} : port' = [port EXCEPT ![c] = p]
  /\ loop' = [loop EXCEPT ![c] = "allocated"]
  /\ UNCHANGED <<requests, connected, reply, sockets, threads, listener, handlers>>

(* ConnectTCPSocket on the allocated port sets the flag either way.        *)
ConnectAllocated(c) ==
  /\ loop[c] = "allocated"
  /\ loop' = [loop EXCEPT ![c] = "starting"]
  /\ \/ /\ server # "dead"
        /\ \E n \in 1..Len(handlers) :
             /\ Listening(n) /\ handlers[n].port = port[c]
             /\ handlers' = [handlers EXCEPT
                  ![n].queue = Append(@, <<c, Len(sockets[c]) + 1>>)]
        /\ sockets' = [sockets EXCEPT ![c] = Append(@, "open")]
        /\ connected' = [connected EXCEPT ![c] = TRUE]
     \/ /\ server = "dead" \/ ~ \E n \in 1..Len(handlers) :
                                  Listening(n) /\ handlers[n].port = port[c]
        /\ sockets' = [sockets EXCEPT ![c] = Append(@, "refused")]
        /\ connected' = [connected EXCEPT ![c] = FALSE]
        /\ UNCHANGED handlers
  /\ UNCHANGED <<requests, reply, port, threads, listener>>

(* The thread is started though the connection may have been refused.      *)
StartClientThread(c) ==
  /\ loop[c] = "starting"
  /\ threads' = [threads EXCEPT ![c] = Append(@, "running")]
  /\ loop' = [loop EXCEPT ![c] = "checking"]
  /\ UNCHANGED <<requests, connected, reply, port, sockets, listener, handlers>>

-----------------------------------------------------------------------------
(* The client's threads, RunClientThread: thread k of client c.            *)

(* What the reference to the main loop's variable may yield; 0 is no       *)
(* socket.                                                                 *)
Referred(c, k) == {0, k, Len(sockets[c])}

Usable(c, i) == i # 0 /\ sockets[c][i] \in {"open", "peer closed"}

(* A send to a peer that has closed succeeds and draws a reset.            *)
Send(c, k) ==
  /\ threads[c][k] = "running"
  /\ \E i \in Referred(c, k) :
       \/ /\ Usable(c, i)
          /\ sockets' = [sockets EXCEPT ![c][i] = IF @ = "open" THEN "open" ELSE "reset"]
          /\ UNCHANGED threads
       \/ /\ ~Usable(c, i)
          /\ threads' = [threads EXCEPT ![c][k] = "failed"]
          /\ UNCHANGED sockets
  /\ UNCHANGED <<loop, requests, connected, reply, port, listener, handlers>>

CloseSocket(c, k) ==
  /\ threads[c][k] = "failed"
  /\ threads' = [threads EXCEPT ![c][k] = "closing"]
  /\ \E i \in Referred(c, k) :
       sockets' = IF i = 0 \/ sockets[c][i] = "refused" THEN sockets
                  ELSE [sockets EXCEPT ![c][i] = "closed"]
  /\ UNCHANGED <<loop, requests, connected, reply, port, listener, handlers>>

(* Mutant: the state variable is not updated.                              *)
FlagAtEnd_Kept(c) == connected

FlagAtEnd(c) == [connected EXCEPT ![c] = FALSE]

EndThread(c, k) ==
  /\ threads[c][k] = "closing"
  /\ threads' = [threads EXCEPT ![c][k] = "ended"]
  /\ connected' = FlagAtEnd(c)
  /\ UNCHANGED <<loop, requests, reply, port, sockets, listener, handlers>>

-----------------------------------------------------------------------------
Init ==
  /\ loop = [c \in Clients |-> "checking"]
  /\ requests = 0
  /\ connected = [c \in Clients |-> FALSE]
  /\ reply = [c \in Clients |-> NoReply]
  /\ port = [c \in Clients |-> BasePort]
  /\ sockets = [c \in Clients |-> <<>>]
  /\ threads = [c \in Clients |-> <<>>]
  /\ server = "opening" /\ backlog = <<>> /\ count = 0
  /\ handlers = <<>>

HandlerStep(n) == ListenForClient(n) \/ AcceptClient(n) \/ StopServing(n)
ThreadStep(c, k) == Send(c, k) \/ CloseSocket(c, k) \/ EndThread(c, k)
ServerStep == OpenBasePort \/ AcceptRequest \/ SendPort \/ CloseBasePort
LoopStep(c) ==
  \/ RequestPort(c) \/ CheckConnected(c) \/ ReadPort(c)
  \/ ConnectAllocated(c) \/ StartClientThread(c)

Next ==
  \/ ServerStep
  \/ server # "dead" /\ \E n \in 1..Len(handlers) : HandlerStep(n)
  \/ \E c \in Clients : LoopStep(c) \/ \E k \in 1..Len(threads[c]) : ThreadStep(c, k)

Spec == Init /\ [][Next]_vars

(* The loops run until shut down and block only on what must come: the     *)
(* base port's on a request, a waiting client's on an answer, a thread's   *)
(* on a chunk, and chunks keep coming.                                     *)
FairSpec ==
  /\ Spec
  /\ WF_vars(ServerStep)
  /\ \A c \in Clients :
       /\ WF_vars(LoopStep(c))
       /\ \A k \in 1..MaxRequests :
            WF_vars(k <= Len(threads[c]) /\ ThreadStep(c, k))

-----------------------------------------------------------------------------
(* Properties.                                                             *)

(* Every state component has its type; a turn has a thread as soon as it   *)
(* has a socket and the loop has moved on.                                 *)
TypeOK ==
  /\ loop \in [Clients -> LoopState] /\ requests \in Nat
  /\ connected \in [Clients -> BOOLEAN]
  /\ reply \in [Clients -> Ports \cup {NoReply, Reset}]
  /\ port \in [Clients -> Ports]
  /\ sockets \in [Clients -> Seq(SocketState)]
  /\ threads \in [Clients -> Seq(ThreadState)]
  /\ \A c \in Clients :
       Len(sockets[c]) = Len(threads[c]) + (IF loop[c] = "starting" THEN 1 ELSE 0)
  /\ server \in ServerState /\ backlog \in Seq(Clients \cup {Nobody}) /\ count \in Ports
  /\ handlers \in Seq(Handler)

Alive(c) == {k \in 1..Len(threads[c]) : threads[c][k] # "ended"}
Refused(c) == {k \in 1..Len(sockets[c]) : sockets[c][k] = "refused"}
One(b) == IF b THEN 1 ELSE 0

(* A client has one sending thread at a time, except for those that were   *)
(* started on a refused connection: the flag, which the threads clear and  *)
(* the loop sets, never lets the loop start a second one otherwise.        *)
ThreadsAccounted ==
  \A c \in Clients :
    Cardinality(Alive(c)) <= Cardinality(Refused(c)) + One(connected[c])

(* A client whose loop sleeps because it is connected has a thread that    *)
(* will clear the flag: the one of the last turn has not ended, whatever   *)
(* threads of earlier turns do to the flag.                                *)
ConnectedHasThread ==
  \A c \in Clients :
    loop[c] = "checking" /\ connected[c] =>
      threads[c] # <<>> /\ threads[c][Len(threads[c])] # "ended"

(* No client waits for its port for good, also if the server answers       *)
(* another request and closes the base port on it.                         *)
RequestsEnd ==
  \A c \in Clients : loop[c] = "waiting" ~> loop[c] = "checking"

(* A client whose sockets are all dead notices: the flag is cleared and    *)
(* the loop may connect again.                                             *)
DeadSocketNoticed ==
  \A c \in Clients :
    (/\ loop[c] = "checking" /\ connected[c]
     /\ \A k \in 1..Len(sockets[c]) : sockets[c][k] # "open")
      ~> ~connected[c]

(* "Waits for allocated port number using given socket": the port a client *)
(* goes on with is one the server allocated.                               *)
PortWasAllocated ==
  \A c \in Clients :
    loop[c] = "allocated" => \E n \in 1..Len(handlers) : handlers[n].port = port[c]

(* "State variable as to whether the TCP socket is connected": when the    *)
(* loop finds it cleared no thread has an open socket.                     *)
FlagTruthful ==
  \A c \in Clients :
    loop[c] = "checking" /\ ~connected[c] =>
      \A k \in 1..Len(threads[c]) : threads[c][k] = "running" => sockets[c][k] # "open"
=============================================================================

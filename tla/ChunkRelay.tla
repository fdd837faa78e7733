----------------------------- MODULE ChunkRelay -----------------------------
(***************************************************************************)
(* What the session layer promises between ChunkToBytesModule on a sensor  *)
(* and SessionProcModule on the server, for one source and chunk type:     *)
(* chunks handed over arrive whole, at most once and in order; some never  *)
(* arrive.  A chunk is its number and the pieces it is cut into.           *)
(***************************************************************************)
EXTENDS Integers, Sequences

CONSTANT MaxPieces  \* a chunk is cut into 1..MaxPieces pieces

VARIABLES
  offered,    \* offered[id]: number of pieces of the id-th chunk handed over
  delivered   \* the chunks rebuilt at the far end, in order

relayVars == <<offered, delivered>>

Whole(id) == [p \in 1..offered[id] |-> [id |-> id, piece |-> p]]

RelayInit == offered = <<>> /\ delivered = <<>>

Offer ==
  /\ \E n \in 1..MaxPieces : offered' = Append(offered, n)
  /\ UNCHANGED delivered

Deliver ==
  /\ \E id \in 1..Len(offered) :
       /\ \A i \in 1..Len(delivered) : delivered[i][1].id < id
       /\ delivered' = Append(delivered, Whole(id))
  /\ UNCHANGED offered

RelayNext == Offer \/ Deliver

RelaySpec == RelayInit /\ [][RelayNext]_relayVars
=============================================================================

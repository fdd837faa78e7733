---------------------------- MODULE GPSInterface ----------------------------
(***************************************************************************)
(* GPSInterfaceModule: a connection to gpsd, whose messages are turned     *)
(* into positions.  Not every message has a fix in it, a read may fail,    *)
(* and the connection is then opened anew before the handler goes on.      *)
(*                                                                         *)
(* A position is the number of the fix it came in.  A wait without a       *)
(* message changes nothing; the shut-down is left out.                     *)
(***************************************************************************)
EXTENDS Integers, Sequences

CONSTANTS
  MaxFixes,     \* bound: fixes gpsd reports
  MaxPositions  \* bound: positions passed on

VARIABLES
  simulate,   \* m_bSimulateData
  connection, \* "opening", "open", or "reopening" in the middle of the handler
  reports,    \* reports[n]: whether the n-th fix has a position
  fix,        \* gpsData.fix: its number and whether it has a position
  locked,     \* m_bGPSCurrentlyLocked
  sent        \* history: positions passed on

vars == <<simulate, connection, reports, fix, locked, sent>>

NoFix == [number |-> 0, valid |-> FALSE]

Init ==
  /\ simulate \in BOOLEAN
  /\ connection = IF simulate THEN "open" ELSE "opening"
  /\ reports = <<>> /\ fix = NoFix /\ locked = simulate /\ sent = <<>>

-----------------------------------------------------------------------------
(* Mutant: the lock is found but never lost.                               *)
Lock_Kept(f) == locked \/ f.valid

Lock(f) == f.valid

(* The second half of TryTransmitPositionData, with fix f.                 *)
Transmit(f) ==
  /\ Len(sent) < MaxPositions
  /\ fix' = f
  /\ locked' = Lock(f)
  /\ sent' = Append(sent, [locked |-> locked', number |-> f.number])

(* The constructor; gps_open is tried until it succeeds.                   *)
TryOpenGPSInterface ==
  /\ connection = "opening"
  /\ connection' = "open"
  /\ UNCHANGED <<simulate, reports, fix, locked, sent>>

ReadFix ==
  /\ ~simulate /\ connection = "open" /\ Len(reports) < MaxFixes
  /\ \E valid \in BOOLEAN :
       /\ reports' = Append(reports, valid)
       /\ Transmit([number |-> Len(reports'), valid |-> valid])
  /\ UNCHANGED <<simulate, connection>>

(* A message of another kind leaves the fix, which is passed on again.     *)
ReadOther ==
  /\ ~simulate /\ connection = "open"
  /\ Transmit(fix)
  /\ UNCHANGED <<simulate, connection, reports>>

FailRead ==
  /\ ~simulate /\ connection = "open"
  /\ connection' = "reopening"
  /\ UNCHANGED <<simulate, reports, fix, locked, sent>>

(* The handler goes on with what a new connection leaves of the fix.       *)
Reopen ==
  /\ connection = "reopening"
  /\ connection' = "open"
  /\ \E f \in {fix, NoFix} : Transmit(f)
  /\ UNCHANGED <<simulate, reports>>

TrySimulatedPositionData ==
  /\ simulate /\ Len(sent) < MaxPositions
  /\ sent' = Append(sent, [locked |-> locked, number |-> 0])
  /\ UNCHANGED <<simulate, connection, reports, fix, locked>>

Next ==
  \/ TryOpenGPSInterface \/ ReadFix \/ ReadOther \/ FailRead \/ Reopen
  \/ TrySimulatedPositionData

Spec == Init /\ [][Next]_vars

-----------------------------------------------------------------------------
TypeOK ==
  /\ simulate \in BOOLEAN /\ connection \in {"opening", "open", "reopening"}
  /\ reports \in Seq(BOOLEAN) /\ Len(reports) <= MaxFixes
  /\ fix \in [number : 0..Len(reports), valid : BOOLEAN]
  /\ locked \in BOOLEAN
  /\ sent \in Seq([locked : BOOLEAN, number : 0..MaxFixes])

(* A position that is said to be locked came in a fix that had one, and no *)
(* position is older than one passed on before it, unless there is none    *)
(* left: what is passed on after a failed read or a message without a fix  *)
(* is old, but never called locked without a fix that was                  *)
(* (GPSInterfaceModule.cpp:69-103).                                        *)
LockedPositionsFixed ==
  ~simulate =>
    \A n \in 1..Len(sent) :
      LET p == sent[n]
      IN  /\ p.locked => p.number > 0 /\ reports[p.number]
          /\ \A m \in 1..n - 1 : p.number \in {0} \cup sent[m].number..MaxFixes
=============================================================================

---------------------------- MODULE RateLimiting ----------------------------
(***************************************************************************)
(* RateLimitingModule for the chunks of one source and type: a chunk is    *)
(* passed on when a period has gone by, on the system clock, since the     *)
(* last was.  That clock can be set; the elapsed time is an unsigned       *)
(* number.  Chunks come at any time.                                       *)
(***************************************************************************)
EXTENDS Integers

CONSTANTS
  Period,   \* m_mapChunkTypeToRatePeriod of the type
  Modulus,  \* of the unsigned numbers of the clock
  MaxTime,  \* bound: the clock
  MaxSteps  \* bound: times the clock is set

VARIABLES
  clock,   \* the system clock
  last,    \* m_mapChunkTypeToLastReportTime, 0 at first
  steps,   \* how often the clock was set
  since,   \* history: time since the last chunk was passed on
  trusted  \* history: the clock was not set since

vars == <<clock, last, steps, since, trusted>>

(* The clock starts far from 0.                                            *)
Init == clock = Period /\ last = 0 /\ steps = 0 /\ since = Period /\ trusted = FALSE

Elapsed == (clock - last) % Modulus
Due == Elapsed >= Period

PassChunk ==
  /\ Due
  /\ last' = clock
  /\ since' = 0 /\ trusted' = TRUE
  /\ UNCHANGED <<clock, steps>>

(* Mutant: every chunk starts the period anew.                             *)
HoldChunk_Restart ==
  /\ ~Due
  /\ last' = clock
  /\ UNCHANGED <<clock, steps, since, trusted>>

HoldChunk ==
  /\ ~Due
  /\ UNCHANGED vars

Tick ==
  /\ clock < MaxTime
  /\ clock' = clock + 1 /\ since' = IF since < Period THEN since + 1 ELSE since
  /\ UNCHANGED <<last, steps, trusted>>

SetClock ==
  /\ steps < MaxSteps
  /\ clock' \in 1..MaxTime \ {clock}
  /\ steps' = steps + 1 /\ trusted' = FALSE
  /\ UNCHANGED <<last, since>>

Next == PassChunk \/ HoldChunk \/ Tick \/ SetClock

Spec == Init /\ [][Next]_vars

-----------------------------------------------------------------------------
TypeOK ==
  /\ clock \in 0..MaxTime /\ last \in 0..MaxTime /\ steps \in 0..MaxSteps
  /\ since \in 0..Period /\ trusted \in BOOLEAN

(* As long as nobody sets the clock, a chunk is held exactly when the last *)
(* was passed on less than a period ago; and when the clock was set back   *)
(* behind the last chunk, the next one is not held, because the elapsed    *)
(* time wraps.  Passing it on stores the new time, and what comes after it *)
(* is limited again (RateLimitingModule.cpp:8-22).                         *)
LimitedByTime ==
  /\ trusted => (Due <=> since >= Period)
  /\ clock < last => Due
=============================================================================

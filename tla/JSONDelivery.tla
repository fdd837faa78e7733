---------------------------- MODULE JSONDelivery ----------------------------
(***************************************************************************)
(* How the state of one source reaches a server.  The processing thread of *)
(* JSONStateAccumulatorModule merges the documents it receives into the    *)
(* source's document, field by field; a second thread copies that document *)
(* once a period, field by field and without a lock, and passes the copy   *)
(* to HTTPPostModule, whose thread posts it, with retries.                 *)
(*                                                                         *)
(* A value is the number of the received document it came in.  The time    *)
(* between two turns of a thread is left out, and so is the shut-down.     *)
(***************************************************************************)
EXTENDS Integers, Sequences, FiniteSets, FiniteSetsExt

CONSTANTS
  Fields,      \* fields of a document, walked in increasing order
  Capacity,    \* size of HTTPPostModule's input buffer
  MaxRetries,  \* m_uMaxRetries
  MaxUpdates,  \* bound: documents received
  MaxLate      \* bound: posts that arrive after the client gave up waiting

ASSUME FieldsAssumption == Fields \subseteq Nat /\ IsFiniteSet(Fields)
ASSUME BoundsAssumption == {Capacity, MaxRetries, MaxUpdates, MaxLate} \subseteq Nat

VARIABLES
  updates,   \* documents received
  merging,   \* fields of the last of them that are still to be assigned
  document,  \* m_JSONStatesBySource: the value of each field
  copying,   \* fields the sending thread has still to copy
  copy,      \* pJSONChunkofCurrentState
  crashed,   \* memory was read that another thread was freeing
  buffer,    \* input buffer of HTTPPostModule
  posting,   \* the document that is posted
  attempt,   \* the attempt it is in, 0 if there is none
  late,      \* posts that may still arrive
  timeouts,  \* how many there were
  server     \* the value the server was last sent of each field, torn ones aside

accumulator == <<updates, merging, document, copying, copy, crashed>>
client == <<buffer, posting, attempt>>
network == <<late, timeouts, server>>
vars == <<accumulator, client, network>>

Absent == 0
Torn == -1
Blank == [f \in Fields |-> Absent]

Init ==
  /\ updates = 0 /\ merging = {} /\ document = Blank
  /\ copying = {} /\ copy = Blank /\ crashed = FALSE
  /\ buffer = <<>> /\ posting = Blank /\ attempt = 0
  /\ late = {} /\ timeouts = 0
  /\ server = Blank

-----------------------------------------------------------------------------
(* JSONStateAccumulatorModule: the processing thread.                      *)

(* Process_JSONChunk up to its loop.                                       *)
ReceiveDocument ==
  /\ ~crashed /\ merging = {} /\ updates < MaxUpdates
  /\ updates' = updates + 1
  /\ merging' \in SUBSET Fields \ {{}}
  /\ UNCHANGED <<document, copying, copy, crashed, client, network>>

(* A turn of the loop ends; the assignment of the next field is under way. *)
Assigned == Min(merging)

AssignField ==
  /\ ~crashed /\ merging # {}
  /\ document' = [document EXCEPT ![Assigned] = updates]
  /\ merging' = merging \ {Assigned}
  /\ UNCHANGED <<updates, copying, copy, crashed, client, network>>

-----------------------------------------------------------------------------
(* JSONStateAccumulatorModule: the sending thread.                         *)

(* Mutant: the document is sent when it changes.                           *)
Wake_OnChange ==
  /\ ~crashed /\ copying = {} /\ merging # {}
  /\ copying' = Fields
  /\ UNCHANGED <<updates, merging, document, copy, crashed, client, network>>

(* The source is known from its first document on.                         *)
Wake ==
  /\ ~crashed /\ copying = {} /\ updates > 0
  /\ copying' = Fields
  /\ UNCHANGED <<updates, merging, document, copy, crashed, client, network>>

(* A field read while it is assigned may be read half replaced; a field    *)
(* may be missed while another one is inserted.                            *)
Replaced(f) == merging # {} /\ Assigned = f
Moved == merging # {} /\ document[Assigned] = Absent

ValuesRead(f) ==
  {document[f]}
    \cup (IF Replaced(f) THEN {Torn} ELSE {})
    \cup (IF Moved THEN {Absent} ELSE {})

(* Mutant: a full buffer is not noticed.                                   *)
Pass_Full(c) == buffer' = Append(buffer, c) /\ copy' = Blank

(* TryPassChunk: a copy that finds the buffer full is dropped.             *)
Pass(c) ==
  /\ buffer' = IF Len(buffer) < Capacity THEN Append(buffer, c) ELSE buffer
  /\ copy' = Blank

CopyField ==
  /\ ~crashed /\ copying # {}
  /\ \E v \in ValuesRead(Min(copying)) :
       LET c == [copy EXCEPT ![Min(copying)] = v]
       IN  \/ Cardinality(copying) = 1 /\ Pass(c)
           \/ Cardinality(copying) > 1 /\ copy' = c /\ UNCHANGED buffer
  /\ copying' = copying \ {Min(copying)}
  /\ UNCHANGED <<updates, merging, document, crashed, posting, attempt, network>>

Done == posting' = Blank /\ attempt' = 0

(* What is read may also be freed memory: the process and its state end.   *)
CopyFreed ==
  /\ ~crashed /\ copying # {} /\ (Replaced(Min(copying)) \/ Moved)
  /\ crashed' = TRUE
  /\ merging' = {} /\ document' = Blank /\ copying' = {} /\ copy' = Blank
  /\ buffer' = <<>> /\ Done
  /\ UNCHANGED <<updates, network>>

-----------------------------------------------------------------------------
(* HTTPPostModule.                                                         *)

TakeDocument ==
  /\ ~crashed /\ attempt = 0 /\ buffer # <<>>
  /\ posting' = Head(buffer) /\ buffer' = Tail(buffer)
  /\ attempt' = 1
  /\ UNCHANGED <<accumulator, network>>

(* Mutant: the document is queued again behind the later ones.             *)
Retry_Behind ==
  /\ Done
  /\ buffer' = IF attempt <= MaxRetries THEN Append(buffer, posting) ELSE buffer

(* SendBody returned false: one more attempt, or the document is dropped.  *)
Retry ==
  /\ \/ attempt <= MaxRetries /\ attempt' = attempt + 1 /\ UNCHANGED posting
     \/ attempt > MaxRetries /\ Done
  /\ UNCHANGED buffer

(* The server gets document d: the values of the fields d has.             *)
Arrives(d) ==
  server' = [f \in Fields |-> IF d[f] \in {Absent, Torn} THEN server[f] ELSE d[f]]

Posting == ~crashed /\ attempt > 0

PostSucceeds ==
  /\ Posting
  /\ Arrives(posting)
  /\ Done
  /\ UNCHANGED <<accumulator, buffer, late, timeouts>>

(* No handle, no connection, or a code outside 200 to 299.                 *)
PostFails == Posting /\ Retry /\ UNCHANGED <<accumulator, network>>

(* The connection fails after the server took the document.                *)
AnswerLost ==
  /\ Posting
  /\ Arrives(posting)
  /\ Retry
  /\ UNCHANGED <<accumulator, late, timeouts>>

(* The client waited 30 s for the answer; the server may yet take it.      *)
PostTimesOut ==
  /\ Posting /\ timeouts < MaxLate
  /\ late' = late \cup {posting} /\ timeouts' = timeouts + 1
  /\ Retry
  /\ UNCHANGED <<accumulator, server>>

ArrivesLate(d) ==
  /\ Arrives(d)
  /\ late' = late \ {d}
  /\ UNCHANGED <<accumulator, client, timeouts>>

-----------------------------------------------------------------------------
Process_JSONChunk == ReceiveDocument \/ AssignField
WaitAndSendJSONDocuments == Wake \/ CopyField \/ CopyFreed
SendBody == PostSucceeds \/ PostFails \/ AnswerLost \/ PostTimesOut

Next ==
  \/ Process_JSONChunk
  \/ WaitAndSendJSONDocuments
  \/ TakeDocument \/ SendBody
  \/ \E d \in late : ArrivesLate(d)

(* The three threads run, and a server that is asked for ever answers.     *)
Fairness ==
  /\ WF_vars(AssignField) /\ WF_vars(Wake \/ CopyField) /\ WF_vars(TakeDocument \/ SendBody)
  /\ SF_vars(PostSucceeds)

FairSpec == Init /\ [][Next]_vars /\ Fairness

-----------------------------------------------------------------------------
Value == Torn..MaxUpdates
Document == [Fields -> Value]

TypeOK ==
  /\ updates \in 0..MaxUpdates /\ merging \subseteq Fields
  /\ document \in Document /\ \A f \in Fields : document[f] \in 0..updates
  /\ copying \subseteq Fields /\ copy \in Document /\ crashed \in BOOLEAN
  /\ buffer \in Seq(Document) /\ Len(buffer) <= Capacity
  /\ posting \in Document /\ attempt \in 0..MaxRetries + 1
  /\ late \subseteq Document /\ timeouts \in 0..MaxLate
  /\ server \in [Fields -> 0..updates]

(* Through unsynchronized copies, a full buffer, retries and answers that  *)
(* got lost, the server never goes from a newer value of a field to an     *)
(* older one: documents stay in order and a retry repeats none that was    *)
(* overtaken.  Only a post given up as timed out can arrive behind later   *)
(* ones (HTTPPostModule.cpp:43-51, JSONStateAccumulatorModule.cpp:36-50).  *)
ServerNotSetBack ==
  [][(\E f \in Fields : server'[f] < server[f]) => Cardinality(late') < Cardinality(late)]_vars

(* A merged value that no later one replaces gets to the server, although  *)
(* documents are dropped at a full buffer and after the last attempt, torn *)
(* by the copy, or overtaken by a late post: the whole state is sent again *)
(* every period (JSONStateAccumulatorModule.cpp:32-51).                    *)
StateArrives ==
  \A f \in Fields, v \in 1..MaxUpdates :
    (document[f] = v) ~> (server[f] = v \/ document[f] # v \/ crashed)
=============================================================================

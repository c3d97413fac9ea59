------------------------------ MODULE EventLog ------------------------------
(***************************************************************************)
(* What the event stream promises its readers: an append-only log that     *)
(* several readers follow, each with a cursor of its own.  A delivery      *)
(* takes a reader forward to some position of the log and hands it, in     *)
(* order and once, every event in between; only a reader that is more than *)
(* Capacity events behind that position loses the oldest of them.          *)
(* Executions, lost replies and retries are invisible.                     *)
(***************************************************************************)
EXTENDS Integers, Sequences

CONSTANTS Readers, Capacity

VARIABLES
  length,   \* number of events in the log; event i is the number i
  cursor,   \* [Readers -> position reached]
  seen      \* [Readers -> sequence of the events handed out]

logVars == <<length, cursor, seen>>

\* The events handed to a reader that goes from one position to another.
Delivery(from, to) ==
  LET first == IF to - from > Capacity THEN to - Capacity ELSE from
  IN [i \in 1..(to - first) |-> first + i]

LogInit ==
  /\ length = 0
  /\ cursor = [r \in Readers |-> 0]
  /\ seen = [r \in Readers |-> <<>>]

LogAppend ==
  /\ length' = length + 1
  /\ UNCHANGED <<cursor, seen>>

Deliver(r) ==
  \E to \in cursor[r]..length :
    /\ cursor' = [cursor EXCEPT ![r] = to]
    /\ seen' = [seen EXCEPT ![r] = @ \o Delivery(cursor[r], to)]
    /\ UNCHANGED length

\* A reader starts over.
Rewind(r) ==
  /\ cursor' = [cursor EXCEPT ![r] = 0]
  /\ seen' = [seen EXCEPT ![r] = <<>>]
  /\ UNCHANGED length

LogNext == LogAppend \/ \E r \in Readers : Deliver(r) \/ Rewind(r)

LogSpec == LogInit /\ [][LogNext]_logVars

=============================================================================

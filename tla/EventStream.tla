---------------------------- MODULE EventStream ----------------------------
(***************************************************************************)
(* How an agent's events reach its clients: the sink of src/src/sink.rs in *)
(* the workflow, the blocking get_state_update update of                   *)
(* src/src/workflow.rs, and the watcher loop of src/src/watcher.rs that    *)
(* calls it with the watermark it was given last.  The event emitted i-th  *)
(* is the number i.                                                        *)
(*                                                                         *)
(* Until it stops, a watcher always has one call outstanding.  A call that *)
(* runs into the server's long-poll limit or the watcher's own time limit  *)
(* is made again under the same update id, so it joins the handler that is *)
(* there already: that changes nothing and is no action here.  Any other   *)
(* error makes the watcher forget the update id, and the handler with it.  *)
(***************************************************************************)
EXTENDS EventSink

CONSTANTS
  NONE,
  Watchers,
  Capacity,    \* DEFAULT_EVENT_BUFFER_CAPACITY
  MaxEvents,   \* bound: events emitted over the workflow's life
  MaxRuns      \* bound: continue-as-new executions

ASSUME StreamAssumption ==
  /\ Capacity \in Nat
  /\ MaxEvents \in Nat
  /\ MaxRuns \in Nat

VARIABLES
  sink,                \* the agent's BufferEventSink
  length,              \* history variable: events emitted so far
  shutdown_requested,
  closed,              \* the workflow has ended, well or badly
  run,                 \* continue-as-new steps so far
  handler,             \* the get_state_update handler of a watcher's update id
  since_index,         \* a watcher's watermark
  received,            \* the events a watcher has passed on
  stopped              \* run_watching has returned

workflowVars == <<sink, length, shutdown_requested, closed, run>>
watcherVars == <<since_index, received, stopped>>
vars == <<workflowVars, handler, watcherVars>>

Init ==
  /\ sink = NewSink(0)
  /\ length = 0
  /\ shutdown_requested = FALSE
  /\ closed = FALSE
  /\ run = 0
  /\ handler = [w \in Watchers |-> NONE]
  /\ since_index = [w \in Watchers |-> 0]
  /\ received = [w \in Watchers |-> <<>>]
  /\ stopped = [w \in Watchers |-> FALSE]

-----------------------------------------------------------------------------
(* The workflow                                                            *)

Emit ==
  /\ ~closed
  /\ length < MaxEvents
  /\ sink' = EmitEvent(sink, length + 1, Capacity)
  /\ length' = length + 1
  /\ UNCHANGED <<shutdown_requested, closed, run, handler, watcherVars>>

Shutdown ==
  /\ ~closed
  /\ shutdown_requested' = TRUE
  /\ UNCHANGED <<sink, length, closed, run, handler, watcherVars>>

Waiting(w) == handler[w] # NONE /\ handler[w].state = "waiting"
Replied(w) == handler[w] # NONE /\ handler[w].state = "replied"

\* The handlers that still wait die with their execution; a reply that was
\* already given may still reach its caller, or not.
EndExecution ==
  \E kept \in SUBSET {w \in Watchers : Replied(w)} :
    handler' = [w \in Watchers |-> IF w \in kept THEN handler[w] ELSE NONE]

ContinueAsNew ==
  /\ ~closed
  /\ run < MaxRuns
  /\ run' = run + 1
  /\ sink' = Restore(sink)
  /\ shutdown_requested' = FALSE
  /\ EndExecution
  /\ UNCHANGED <<length, closed, watcherVars>>

\* The workflow returns, or fails.
Close ==
  /\ ~closed
  /\ closed' = TRUE
  /\ EndExecution
  /\ UNCHANGED <<sink, length, shutdown_requested, run, watcherVars>>

-----------------------------------------------------------------------------
(* get_state_update                                                        *)

Waits == [state |-> "waiting", entry |-> Watermark(sink)]
Reply(w) ==
  [state |-> "replied",
   events |-> EventsSince(sink, since_index[w]),
   watermark |-> Watermark(sink),
   completed |-> shutdown_requested]

\* A call arrives: news or a shutdown is answered at once.
Accept(w) ==
  /\ ~closed
  /\ ~stopped[w]
  /\ handler[w] = NONE
  /\ handler' = [handler EXCEPT ![w] =
       IF EventsSince(sink, since_index[w]) # <<>> \/ shutdown_requested
       THEN Reply(w) ELSE Waits]
  /\ UNCHANGED <<workflowVars, watcherVars>>

\* Mutant: the handler wakes for a shutdown only.
Wake_ShutdownOnly(w) ==
  /\ Waiting(w)
  /\ shutdown_requested
  /\ handler' = [handler EXCEPT ![w] = Reply(w)]
  /\ UNCHANGED <<workflowVars, watcherVars>>

Wake(w) ==
  /\ Waiting(w)
  /\ Watermark(sink) # handler[w].entry \/ shutdown_requested
  /\ handler' = [handler EXCEPT ![w] = Reply(w)]
  /\ UNCHANGED <<workflowVars, watcherVars>>

-----------------------------------------------------------------------------
(* run_watching                                                            *)

\* Only a reply moves the watermark; it also rotates the update id.
Receive(w) ==
  /\ Replied(w)
  /\ ~stopped[w]
  /\ since_index' = [since_index EXCEPT ![w] = handler[w].watermark]
  /\ received' = [received EXCEPT ![w] = @ \o handler[w].events]
  /\ stopped' = [stopped EXCEPT ![w] = handler[w].completed]
  /\ handler' = [handler EXCEPT ![w] = NONE]
  /\ UNCHANGED workflowVars

\* The call fails: the watcher calls again under a new update id.
CallFails(w) ==
  /\ ~stopped[w]
  /\ handler' = [handler EXCEPT ![w] = NONE]
  /\ UNCHANGED <<workflowVars, watcherVars>>

\* start_watching: a new watcher follows the agent from the beginning.
StartWatching(w) ==
  /\ handler' = [handler EXCEPT ![w] = NONE]
  /\ since_index' = [since_index EXCEPT ![w] = 0]
  /\ received' = [received EXCEPT ![w] = <<>>]
  /\ stopped' = [stopped EXCEPT ![w] = FALSE]
  /\ UNCHANGED workflowVars

-----------------------------------------------------------------------------
(* The specification                                                       *)

Watch(w) == Accept(w) \/ Wake(w) \/ Receive(w) \/ CallFails(w)
            \/ StartWatching(w)

Next == Emit \/ Shutdown \/ ContinueAsNew \/ Close \/ \E w \in Watchers : Watch(w)

Spec == Init /\ [][Next]_vars

\* The worker runs what it is asked to run; the network may fail again and
\* again, but a call that is made for ever gets its reply through at last.
Fairness ==
  \A w \in Watchers :
    /\ WF_vars(Accept(w))
    /\ WF_vars(Wake(w))
    /\ SF_vars(Receive(w))

FairSpec == Spec /\ Fairness

-----------------------------------------------------------------------------
(* Properties                                                              *)

Replies == [state : {"replied"}, events : Seq(Nat), watermark : Nat,
            completed : BOOLEAN]

\* Every variable has its type, and the buffer never outgrows its capacity.
TypeOK ==
  /\ sink \in [offset : Nat, events : Seq(Nat)]
  /\ Len(sink.events) <= Capacity
  /\ length \in Nat
  /\ shutdown_requested \in BOOLEAN
  /\ closed \in BOOLEAN
  /\ run \in Nat
  /\ handler \in [Watchers -> {NONE} \cup Replies
                              \cup [state : {"waiting"}, entry : Nat]]
  /\ since_index \in [Watchers -> Nat]
  /\ received \in [Watchers -> Seq(Nat)]
  /\ stopped \in [Watchers -> BOOLEAN]

\* The sink holds exactly the last events of the history, through any number
\* of evictions and executions, so a watermark means the same for ever.
SinkIsWindow ==
  /\ sink.offset = IF length > Capacity THEN length - Capacity ELSE 0
  /\ Watermark(sink) = length
  /\ \A i \in DOMAIN sink.events : sink.events[i] = sink.offset + i

\* A watcher passes events on in the order of emission and none twice,
\* whatever replies were lost and calls repeated.
InOrderWithoutDuplicates ==
  \A w \in Watchers :
    /\ \A i, j \in DOMAIN received[w] : i < j => received[w][i] < received[w][j]
    /\ \A i \in DOMAIN received[w] : received[w][i] \in 1..since_index[w]

\* What a watcher has gone past without passing it on is gone from the window.
OnlyEvictedAreMissed ==
  \A w \in Watchers : \A e \in 1..since_index[w] :
    \/ \E i \in DOMAIN received[w] : received[w][i] = e
    \/ e <= sink.offset

Log == INSTANCE EventLog WITH
  Readers <- Watchers, cursor <- since_index, seen <- received

\* The stream is a log with a cursor per watcher.
ImplementsEventLog == Log!LogSpec

\* Every event reaches every watcher that goes on watching, unless the
\* workflow ends first: no wakeup of a blocked update is lost.
EventsAreDelivered ==
  \A w \in Watchers, e \in 1..MaxEvents :
    length >= e ~> since_index[w] >= e \/ stopped[w] \/ closed

=============================================================================

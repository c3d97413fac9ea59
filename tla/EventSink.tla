----------------------------- MODULE EventSink -----------------------------
(***************************************************************************)
(* BufferEventSink of src/src/sink.rs: a rolling window over the events of *)
(* an agent.  A sink is a record; offset counts the events evicted so far, *)
(* so offset + Len(events) is a position in the agent's whole history.     *)
(* Events that do not serialize, which events_since leaves out of a reply  *)
(* while its watermark goes past them, are not modelled.                   *)
(***************************************************************************)
EXTENDS Integers, Sequences

NewSink(from) == [offset |-> from, events |-> <<>>]

\* Mutant: the buffer is cut without counting what was cut.
EmitEvent_UncountedEviction(sink, event, capacity) ==
  LET pushed == Append(sink.events, event) IN
  [sink EXCEPT !.events = IF Len(pushed) > capacity THEN Tail(pushed)
                          ELSE pushed]

\* Mutant: the capacity is exceeded by one.
EmitEvent_OffByOne(sink, event, capacity) ==
  LET pushed == Append(sink.events, event) IN
  IF Len(pushed) > capacity + 1
  THEN [offset |-> sink.offset + 1, events |-> Tail(pushed)]
  ELSE [sink EXCEPT !.events = pushed]

\* emit_event_sync and emit_event: push, then evict at most one.
EmitEvent(sink, event, capacity) ==
  LET pushed == Append(sink.events, event) IN
  IF Len(pushed) > capacity
  THEN [offset |-> sink.offset + 1, events |-> Tail(pushed)]
  ELSE [sink EXCEPT !.events = pushed]

Watermark(sink) == sink.offset + Len(sink.events)

\* Mutant: a reader behind the window is served from its own index on.
EventsSince_SkipsWhenBehind(sink, from) ==
  SubSeq(sink.events, from + 1, Len(sink.events))

\* events_since: the whole window for a reader that fell behind it, nothing
\* for a reader at its end.
EventsSince(sink, from) ==
  IF from < sink.offset THEN sink.events
  ELSE IF from >= Watermark(sink) THEN <<>>
  ELSE SubSeq(sink.events, from - sink.offset + 1, Len(sink.events))

\* Mutant: the restored sink counts from zero again.
Restore_OffsetLost(sink) == [sink EXCEPT !.offset = 0]

\* snapshot, then from_snapshot in the next execution.
Restore(sink) == [offset |-> sink.offset, events |-> sink.events]

=============================================================================

------------------------- MODULE EventStreamProofs -------------------------
(***************************************************************************)
(* Theorems about EventStream, for every value of its constants: the sink  *)
(* is a window on the history, and the whole stream, with its executions,  *)
(* lost replies and repeated calls, implements the log of EventLog.        *)
(***************************************************************************)
EXTENDS EventStream, SequenceTheorems, TLAPS

-----------------------------------------------------------------------------
(* The inductive invariant                                                 *)

\* A reply on its way is what EventLog delivers: the events between the
\* watermark its watcher called with and the one it will adopt.
PromisedReply(w) ==
  Replied(w) =>
    /\ handler[w].watermark \in since_index[w]..length
    /\ handler[w].events = Log!Delivery(since_index[w], handler[w].watermark)

StreamInv ==
  /\ TypeOK
  /\ SinkIsWindow
  /\ \A w \in Watchers : since_index[w] <= length
  /\ \A w \in Watchers : PromisedReply(w)

-----------------------------------------------------------------------------
(* The sink                                                                *)

Sinks == [offset : Nat, events : Seq(Nat)]

\* s is the window on a history of n events.
Window(s, n) ==
  /\ \/ n > Capacity /\ s.offset = n - Capacity
     \/ n <= Capacity /\ s.offset = 0
  /\ s.offset + Len(s.events) = n
  /\ \A i \in 1..Len(s.events) : s.events[i] = s.offset + i

\* A sink is a number and a sequence.
LEMMA SinkTyped ==
  ASSUME NEW s \in Sinks
  PROVE  /\ s.offset \in Nat
         /\ s.events \in Seq(Nat)
         /\ Len(s.events) \in Nat
         /\ DOMAIN s.events = 1..Len(s.events)
<1>1. s.offset \in Nat /\ s.events \in Seq(Nat)
  BY DEF Sinks
<1> QED BY <1>1, LenProperties

\* The same in the words of SinkIsWindow.
LEMMA WindowMeans ==
  ASSUME NEW s \in Sinks, NEW n \in Nat
  PROVE  Window(s, n) <=>
           /\ s.offset = IF n > Capacity THEN n - Capacity ELSE 0
           /\ Watermark(s) = n
           /\ \A i \in DOMAIN s.events : s.events[i] = s.offset + i
<1>1. Watermark(s) = s.offset + Len(s.events)
  BY DEF Watermark
<1>2. ASSUME s.offset = IF n > Capacity THEN n - Capacity ELSE 0
      PROVE  \/ n > Capacity /\ s.offset = n - Capacity
             \/ n <= Capacity /\ s.offset = 0
  <2>1. CASE n > Capacity
    BY <1>2, <2>1
  <2>2. CASE ~(n > Capacity)
    <3>1. s.offset = 0
      BY <1>2, <2>2
    <3>2. n <= Capacity
      BY <2>2, StreamAssumption
    <3> QED BY <3>1, <3>2
  <2> QED BY <2>1, <2>2
<1>3. ASSUME \/ n > Capacity /\ s.offset = n - Capacity
             \/ n <= Capacity /\ s.offset = 0
      PROVE  s.offset = IF n > Capacity THEN n - Capacity ELSE 0
  BY <1>3, StreamAssumption
<1> QED BY <1>1, <1>2, <1>3, SinkTyped DEF Window

\* EmitEvent keeps the window: push, then evict at most one.
LEMMA EmitKeepsWindow ==
  ASSUME NEW s \in Sinks, NEW n \in Nat, Window(s, n),
         Len(s.events) <= Capacity
  PROVE  LET t == EmitEvent(s, n + 1, Capacity) IN
         t \in Sinks /\ Window(t, n + 1) /\ Len(t.events) <= Capacity
<1> DEFINE off == s.offset
           kept == s.events
           pushed == Append(kept, n + 1)
<1>1. off \in Nat /\ kept \in Seq(Nat) /\ Len(kept) \in Nat
  BY SinkTyped
<1>2. /\ \/ n > Capacity /\ off = n - Capacity
         \/ n <= Capacity /\ off = 0
      /\ off + Len(kept) = n
      /\ Len(kept) <= Capacity
  BY DEF Window
<1>3. \A i \in 1..Len(kept) : kept[i] = off + i
  BY DEF Window
<1>4. EmitEvent(s, n + 1, Capacity) =
        IF Len(pushed) > Capacity
        THEN [offset |-> off + 1, events |-> Tail(pushed)]
        ELSE [offset |-> off, events |-> pushed]
  <2>1. [s EXCEPT !.events = pushed] = [offset |-> off, events |-> pushed]
    <3>1. s = [offset |-> off, events |-> kept]
      BY DEF Sinks
    <3> HIDE DEF off, kept, pushed
    <3>2. [[offset |-> off, events |-> kept] EXCEPT !.events = pushed]
            = [offset |-> off, events |-> pushed]
      OBVIOUS
    <3> QED BY <3>1, <3>2
  <2> QED BY <2>1 DEF EmitEvent
<1>5. Capacity \in Nat
  BY StreamAssumption
<1>6. /\ pushed \in Seq(Nat)
      /\ Len(pushed) = Len(kept) + 1
      /\ \A i \in 1..Len(kept) : pushed[i] = kept[i]
      /\ pushed[Len(kept) + 1] = n + 1
  BY <1>1, AppendProperties
<1> HIDE DEF pushed, kept, off
<1>7. \A i \in 1..Len(pushed) : pushed[i] = off + i
  <2> TAKE i \in 1..Len(pushed)
  <2>1. CASE i \in 1..Len(kept)
    BY <2>1, <1>3, <1>6
  <2>2. CASE i = Len(kept) + 1
    <3>1. off + (Len(kept) + 1) = n + 1
      BY <1>1, <1>2
    <3> QED BY <2>2, <3>1, <1>6
  <2>3. i \in 1..Len(kept) \/ i = Len(kept) + 1
    BY <1>1, <1>6
  <2> QED BY <2>1, <2>2, <2>3
<1>8. CASE Len(pushed) > Capacity
  <2> DEFINE t == [offset |-> off + 1, events |-> Tail(pushed)]
  <2>1. pushed # <<>>
    BY <1>1, <1>6
  <2>2. /\ Tail(pushed) \in Seq(Nat)
        /\ Len(Tail(pushed)) = Len(pushed) - 1
        /\ \A i \in 1..Len(Tail(pushed)) : Tail(pushed)[i] = pushed[i + 1]
    BY <2>1, <1>6, HeadTailProperties
  <2>3. Len(pushed) = Len(kept) + 1 /\ Len(Tail(pushed)) = Len(kept)
    BY <2>2, <1>1, <1>6
  <2>4. Len(kept) = Capacity /\ n + 1 > Capacity /\ off + 1 = n + 1 - Capacity
    BY <2>3, <1>1, <1>2, <1>5, <1>8
  <2>5. \A i \in 1..Len(Tail(pushed)) : Tail(pushed)[i] = off + 1 + i
    <3> TAKE i \in 1..Len(Tail(pushed))
    <3>1. i + 1 \in 1..Len(pushed) /\ off + (i + 1) = off + 1 + i
      BY <2>3, <1>1
    <3>2. Tail(pushed)[i] = pushed[i + 1]
      BY <2>2
    <3> QED BY <3>1, <3>2, <1>7
  <2>6. t.offset = off + 1 /\ t.events = Tail(pushed)
    OBVIOUS
  <2>7. t \in Sinks
    BY <2>2, <1>1 DEF Sinks
  <2>8. off + 1 + Len(Tail(pushed)) = n + 1
    <3>1. off + 1 + Len(kept) = n + 1
      BY <1>1, <1>2
    <3> QED BY <3>1, <2>3
  <2>9. Window(t, n + 1) /\ Len(t.events) <= Capacity
    BY <2>3, <2>4, <2>5, <2>6, <2>8, <1>2 DEF Window
  <2> QED BY <2>7, <2>9, <1>4, <1>8
<1>9. CASE ~(Len(pushed) > Capacity)
  <2> DEFINE t == [offset |-> off, events |-> pushed]
  <2>1. Len(pushed) = Len(kept) + 1
    BY <1>6
  <2>2. Len(pushed) <= Capacity
    BY <2>1, <1>1, <1>5, <1>9
  <2>3. n + 1 <= Capacity /\ off = 0
    BY <2>1, <2>2, <1>1, <1>2, <1>5
  <2>4. t.offset = off /\ t.events = pushed
    OBVIOUS
  <2>5. t \in Sinks
    BY <1>1, <1>6 DEF Sinks
  <2>6. off + Len(pushed) = n + 1
    BY <2>1, <1>1, <1>2
  <2>7. Window(t, n + 1) /\ Len(t.events) <= Capacity
    BY <2>2, <2>3, <2>4, <2>6, <1>7 DEF Window
  <2> QED BY <2>5, <2>7, <1>4, <1>9
<1> QED BY <1>8, <1>9

\* events_since answers a reader with what EventLog delivers up to the end of
\* the log, whether the reader is up to date, inside the window or behind it.
LEMMA EventsSinceIsDelivery ==
  ASSUME NEW s \in Sinks, NEW n \in Nat, Window(s, n), NEW from \in 0..n
  PROVE  EventsSince(s, from) = Log!Delivery(from, n)
<1> DEFINE off == s.offset
           kept == s.events
<1>1. off \in Nat /\ kept \in Seq(Nat) /\ Len(kept) \in Nat
  BY SinkTyped
<1>2. /\ \/ n > Capacity /\ off = n - Capacity
         \/ n <= Capacity /\ off = 0
      /\ off + Len(kept) = n
  BY DEF Window
<1>3. \A i \in 1..Len(kept) : kept[i] = off + i
  BY DEF Window
<1>4. Capacity \in Nat
  BY StreamAssumption
<1>5. EventsSince(s, from) =
        IF from < off THEN kept
        ELSE IF from >= off + Len(kept) THEN <<>>
        ELSE SubSeq(kept, from - off + 1, Len(kept))
  BY DEF EventsSince, Watermark
<1>6. kept = [i \in 1..Len(kept) |-> kept[i]]
  BY <1>1, LenProperties
<1> HIDE DEF off, kept
<1>7. CASE from < off
  <2>1. n - from > Capacity /\ off = n - Capacity
    BY <1>1, <1>2, <1>4, <1>7
  <2>2. Log!Delivery(from, n) = [i \in 1..(n - off) |-> off + i]
    BY <2>1 DEF Log!Delivery
  <2>3. n - off = Len(kept)
    BY <1>1, <1>2
  <2> QED BY <2>2, <2>3, <1>3, <1>5, <1>6, <1>7
<1>8. CASE from = n
  <2>1. ~(from < off) /\ from >= off + Len(kept)
    BY <1>1, <1>2, <1>8
  <2>2. Log!Delivery(from, n) = [i \in 1..0 |-> from + i]
    BY <1>4, <1>8 DEF Log!Delivery
  <2> QED BY <2>1, <2>2, <1>5
<1>9. CASE ~(from < off) /\ from < n
  <2> DEFINE k == from - off + 1
  <2>1. k \in 1..Len(kept) /\ ~(from >= off + Len(kept))
    BY <1>1, <1>2, <1>9
  <2>2. EventsSince(s, from) = SubSeq(kept, k, Len(kept))
    BY <2>1, <1>5, <1>9
  <2>3. Len(kept) - k + 1 = n - from
    BY <1>1, <1>2
  <2> HIDE DEF k
  <2>4. SubSeq(kept, k, Len(kept)) =
          [i \in 1..(Len(kept) - k + 1) |-> kept[k + i - 1]]
    BY <2>1, <1>1 DEF SubSeq
  <2>5. \A i \in 1..(n - from) : kept[k + i - 1] = from + i
    <3> TAKE i \in 1..(n - from)
    <3>1. k + i - 1 \in 1..Len(kept) /\ off + (k + i - 1) = from + i
      BY <2>1, <2>3, <1>1, <1>2 DEF k
    <3> QED BY <3>1, <1>3
  <2>6. ~(n - from > Capacity)
    BY <1>1, <1>2, <1>4, <1>9
  <2>7. Log!Delivery(from, n) = [i \in 1..(n - from) |-> from + i]
    BY <2>6 DEF Log!Delivery
  <2> QED BY <2>2, <2>3, <2>4, <2>5, <2>7
<1> QED BY <1>1, <1>7, <1>8, <1>9

\* Whatever the positions, a delivery is a sequence of events.
LEMMA DeliveryTyped ==
  ASSUME NEW from \in Nat, NEW to \in Nat, from <= to
  PROVE  /\ Log!Delivery(from, to) \in Seq(Nat)
         /\ \A i \in DOMAIN Log!Delivery(from, to) :
              Log!Delivery(from, to)[i] \in (from + 1)..to
         /\ \A i, j \in DOMAIN Log!Delivery(from, to) :
              i < j => Log!Delivery(from, to)[i] < Log!Delivery(from, to)[j]
<1> DEFINE first == IF to - from > Capacity THEN to - Capacity ELSE from
<1>1. first \in from..to
  BY StreamAssumption
<1>2. Log!Delivery(from, to) = [i \in 1..(to - first) |-> first + i]
  BY DEF Log!Delivery
<1> HIDE DEF first
<1>3. to - first \in Nat
  BY <1>1
<1>4. [i \in 1..(to - first) |-> first + i] \in Seq(Nat)
  BY <1>1, <1>3, IsASeq
<1>5. \A i \in 1..(to - first) : first + i \in (from + 1)..to
  BY <1>1
<1> QED BY <1>1, <1>2, <1>4, <1>5

-----------------------------------------------------------------------------
(* The invariant holds                                                     *)

\* SinkIsWindow says that the sink is the window on the emitted events.
LEMMA SinkWindow ==
  ASSUME TypeOK
  PROVE  SinkIsWindow <=> Window(sink, length)
BY WindowMeans DEF TypeOK, SinkIsWindow, Sinks

\* A new agent's stream satisfies the invariant.
LEMMA InitInv == Init => StreamInv
<1> SUFFICES ASSUME Init PROVE StreamInv
  OBVIOUS
<1>1. sink = [offset |-> 0, events |-> <<>>] /\ length = 0
  BY DEF Init, NewSink
<1>2. sink.offset = 0 /\ sink.events = <<>> /\ sink \in Sinks
  BY <1>1 DEF Sinks
<1>3. TypeOK
  <2>1. sink \in Sinks /\ Len(sink.events) <= Capacity /\ length \in Nat
    BY <1>1, <1>2, StreamAssumption
  <2>2. handler \in [Watchers -> {NONE}]
    BY DEF Init
  <2>3. /\ since_index \in [Watchers -> Nat]
        /\ received \in [Watchers -> Seq(Nat)]
        /\ stopped \in [Watchers -> BOOLEAN]
    BY DEF Init
  <2>4. shutdown_requested \in BOOLEAN /\ closed \in BOOLEAN /\ run \in Nat
    BY DEF Init
  <2> QED BY <2>1, <2>2, <2>3, <2>4 DEF TypeOK, Sinks
<1>4. Window(sink, length)
  BY <1>1, <1>2, StreamAssumption DEF Window
<1>5. SinkIsWindow
  BY <1>3, <1>4, SinkWindow
<1> QED BY <1>1, <1>3, <1>5 DEF Init, StreamInv, PromisedReply, Replied

\* Emitting an event moves the window, and leaves replies on their way valid.
LEMMA EmitInv == StreamInv /\ Emit => StreamInv'
<1> SUFFICES ASSUME StreamInv, Emit PROVE StreamInv'
  OBVIOUS
<1>1. sink \in Sinks /\ length \in Nat /\ Len(sink.events) <= Capacity
  BY DEF StreamInv, TypeOK, Sinks
<1>2. Window(sink, length)
  BY SinkWindow DEF StreamInv
<1>3. sink' = EmitEvent(sink, length + 1, Capacity) /\ length' = length + 1
  BY DEF Emit
<1>4. sink' \in Sinks /\ Window(sink', length') /\ Len(sink'.events) <= Capacity
  BY <1>1, <1>2, <1>3, EmitKeepsWindow
<1>5. TypeOK'
  BY <1>1, <1>3, <1>4
  DEF StreamInv, TypeOK, Emit, watcherVars, Sinks
<1>6. SinkIsWindow'
  BY <1>1, <1>3, <1>4, WindowMeans DEF SinkIsWindow
<1>7. \A w \in Watchers : since_index'[w] <= length'
  BY <1>1, <1>3 DEF StreamInv, TypeOK, Emit, watcherVars
<1>8. \A w \in Watchers : PromisedReply(w)'
  <2> TAKE w \in Watchers
  <2>1. PromisedReply(w) /\ since_index[w] \in Nat
    BY DEF StreamInv, TypeOK
  <2> QED BY <1>1, <1>3, <2>1 DEF PromisedReply, Replied, Emit, watcherVars
<1> QED BY <1>5, <1>6, <1>7, <1>8 DEF StreamInv

\* Sink and history stay, and each handler stays or is gone.
LEMMA HandlersDie ==
  ASSUME StreamInv, UNCHANGED <<sink, length, watcherVars>>,
         shutdown_requested' \in BOOLEAN, closed' \in BOOLEAN, run' \in Nat,
         handler' \in [Watchers -> {NONE} \cup {handler[w] : w \in Watchers}],
         \A w \in Watchers : handler'[w] \in {handler[w], NONE}
  PROVE  StreamInv'
<1>1. TypeOK'
  BY DEF StreamInv, TypeOK, watcherVars
<1>2. SinkIsWindow'
  BY DEF StreamInv, SinkIsWindow, Watermark
<1>3. \A w \in Watchers : PromisedReply(w)'
  BY DEF StreamInv, PromisedReply, Replied, watcherVars
<1> QED BY <1>1, <1>2, <1>3 DEF StreamInv, watcherVars

\* The end of an execution does no more to the handlers.
LEMMA EndExecutionHandlers ==
  ASSUME EndExecution
  PROVE  /\ handler' \in [Watchers -> {NONE} \cup {handler[w] : w \in Watchers}]
         /\ \A w \in Watchers : handler'[w] \in {handler[w], NONE}
BY DEF EndExecution

\* A reply tells the watcher what is between its watermark and the end.
LEMMA ReplyIsPromised ==
  ASSUME StreamInv, NEW w \in Watchers
  PROVE  /\ Reply(w) \in Replies
         /\ Reply(w).state = "replied"
         /\ Reply(w).watermark \in since_index[w]..length
         /\ Reply(w).events = Log!Delivery(since_index[w], Reply(w).watermark)
<1>1. /\ sink \in Sinks /\ length \in Nat /\ shutdown_requested \in BOOLEAN
      /\ since_index[w] \in 0..length
  BY DEF StreamInv, TypeOK, Sinks
<1>2. Window(sink, length) /\ Watermark(sink) = length
  BY SinkWindow DEF StreamInv, SinkIsWindow
<1>3. EventsSince(sink, since_index[w]) = Log!Delivery(since_index[w], length)
  BY <1>1, <1>2, EventsSinceIsDelivery
<1>4. Log!Delivery(since_index[w], length) \in Seq(Nat)
  BY <1>1, DeliveryTyped
<1>5. Reply(w) = [state |-> "replied",
                  events |-> Log!Delivery(since_index[w], length),
                  watermark |-> length,
                  completed |-> shutdown_requested]
  BY <1>2, <1>3 DEF Reply
<1> QED BY <1>1, <1>4, <1>5 DEF Replies

\* A handler that replies, or starts to wait, keeps the invariant.
LEMMA HandlerSetInv ==
  ASSUME StreamInv, NEW w \in Watchers, NEW h,
         h = Reply(w) \/ h = Waits,
         handler' = [handler EXCEPT ![w] = h],
         UNCHANGED <<workflowVars, watcherVars>>
  PROVE  StreamInv'
<1>1. Watermark(sink) \in Nat
  BY DEF StreamInv, SinkIsWindow, TypeOK
<1>2. h \in Replies \cup [state : {"waiting"}, entry : Nat]
  BY <1>1, ReplyIsPromised DEF Waits
<1>3. TypeOK'
  BY <1>2 DEF StreamInv, TypeOK, workflowVars, watcherVars
<1>4. SinkIsWindow'
  BY DEF StreamInv, SinkIsWindow, Watermark, workflowVars
<1>5. \A v \in Watchers : PromisedReply(v)'
  <2> TAKE v \in Watchers
  <2>1. CASE v # w
    BY <2>1
    DEF StreamInv, TypeOK, PromisedReply, Replied, workflowVars, watcherVars
  <2>2. CASE v = w /\ h = Reply(w)
    <3>1. handler'[v] = Reply(w)
      BY <2>2 DEF StreamInv, TypeOK
    <3> QED BY <2>2, <3>1, ReplyIsPromised
            DEF PromisedReply, workflowVars, watcherVars
  <2>3. CASE v = w /\ h = Waits
    <3>1. handler'[v] = Waits /\ Waits.state = "waiting"
      BY <2>3 DEF StreamInv, TypeOK, Waits
    <3> QED BY <3>1 DEF PromisedReply, Replied
  <2> QED BY <2>1, <2>2, <2>3
<1> QED BY <1>3, <1>4, <1>5 DEF StreamInv, workflowVars, watcherVars

\* A reply that is received advances its watcher's watermark.
LEMMA ReceiveInv ==
  ASSUME StreamInv, NEW w \in Watchers, Receive(w)
  PROVE  StreamInv'
<1>1. /\ handler[w].watermark \in since_index[w]..length
      /\ handler[w].events \in Seq(Nat)
      /\ handler[w].completed \in BOOLEAN
  BY DEF StreamInv, PromisedReply, Receive, TypeOK, Replied, Replies
<1>2. since_index[w] \in Nat /\ length \in Nat /\ received[w] \in Seq(Nat)
  BY DEF StreamInv, TypeOK
<1>3. received[w] \o handler[w].events \in Seq(Nat)
  BY <1>1, <1>2, ConcatProperties
<1>4. TypeOK'
  BY <1>1, <1>2, <1>3 DEF StreamInv, TypeOK, Receive, workflowVars
<1>5. SinkIsWindow'
  BY DEF StreamInv, SinkIsWindow, Watermark, Receive, workflowVars
<1>6. \A v \in Watchers : since_index'[v] <= length'
  BY <1>1, <1>2 DEF StreamInv, TypeOK, Receive, workflowVars
<1>7. \A v \in Watchers : PromisedReply(v)'
  BY DEF StreamInv, TypeOK, PromisedReply, Replied, Receive, workflowVars
<1> QED BY <1>4, <1>5, <1>6, <1>7 DEF StreamInv

\* A watcher that starts over keeps the invariant.
LEMMA StartWatchingInv ==
  ASSUME StreamInv, NEW w \in Watchers, StartWatching(w)
  PROVE  StreamInv'
<1>1. TypeOK'
  BY DEF StreamInv, TypeOK, StartWatching, workflowVars
<1>2. SinkIsWindow'
  BY DEF StreamInv, SinkIsWindow, Watermark, StartWatching, workflowVars
<1>3. \A v \in Watchers : since_index'[v] <= length'
  BY DEF StreamInv, TypeOK, StartWatching, workflowVars
<1>4. \A v \in Watchers : PromisedReply(v)'
  BY DEF StreamInv, TypeOK, PromisedReply, Replied, StartWatching, workflowVars
<1> QED BY <1>1, <1>2, <1>3, <1>4 DEF StreamInv

\* Every step keeps the invariant.
LEMMA NextInv == StreamInv /\ [Next]_vars => StreamInv'
<1> SUFFICES ASSUME StreamInv, [Next]_vars PROVE StreamInv'
  OBVIOUS
<1>1. CASE Emit
  BY <1>1, EmitInv
<1>2. CASE Shutdown
  <2>1. /\ handler' \in [Watchers -> {NONE} \cup {handler[w] : w \in Watchers}]
        /\ \A w \in Watchers : handler'[w] \in {handler[w], NONE}
    BY <1>2 DEF Shutdown, StreamInv, TypeOK
  <2>2. UNCHANGED <<sink, length, watcherVars>> /\ run' \in Nat
        /\ shutdown_requested' \in BOOLEAN /\ closed' \in BOOLEAN
    BY <1>2 DEF Shutdown, StreamInv, TypeOK
  <2> QED BY <2>1, <2>2, HandlersDie
<1>3. CASE ContinueAsNew
  <2>1. sink' = sink
    BY <1>3 DEF ContinueAsNew, Restore, StreamInv, TypeOK
  <2>2. UNCHANGED <<sink, length, watcherVars>> /\ run' \in Nat
        /\ shutdown_requested' \in BOOLEAN /\ closed' \in BOOLEAN
    <3>1. run \in Nat /\ closed \in BOOLEAN
      BY DEF StreamInv, TypeOK
    <3>2. /\ UNCHANGED <<length, closed, watcherVars>>
          /\ run' = run + 1
          /\ shutdown_requested' = FALSE
      BY <1>3 DEF ContinueAsNew
    <3>3. run' \in Nat
      BY <3>1, <3>2
    <3>4. UNCHANGED <<sink, length, watcherVars>>
      BY <2>1, <3>2
    <3> QED BY <3>1, <3>2, <3>3, <3>4
  <2>3. EndExecution
    BY <1>3 DEF ContinueAsNew
  <2> QED BY <2>2, <2>3, EndExecutionHandlers, HandlersDie
<1>4. CASE Close
  <2>1. UNCHANGED <<sink, length, watcherVars>> /\ run' \in Nat
        /\ shutdown_requested' \in BOOLEAN /\ closed' \in BOOLEAN
    BY <1>4 DEF Close, StreamInv, TypeOK
  <2>2. EndExecution
    BY <1>4 DEF Close
  <2> QED BY <2>1, <2>2, EndExecutionHandlers, HandlersDie
<1>5. ASSUME NEW w \in Watchers, Watch(w) PROVE StreamInv'
  <2>1. CASE Accept(w) \/ Wake(w)
    <3>1. PICK h : /\ h = Reply(w) \/ h = Waits
                   /\ handler' = [handler EXCEPT ![w] = h]
      <4>1. CASE Accept(w)
        <5>1. CASE EventsSince(sink, since_index[w]) # <<>> \/ shutdown_requested
          BY <4>1, <5>1 DEF Accept
        <5>2. CASE ~(EventsSince(sink, since_index[w]) # <<>> \/ shutdown_requested)
          BY <4>1, <5>2 DEF Accept
        <5> QED BY <5>1, <5>2
      <4>2. CASE Wake(w)
        BY <4>2 DEF Wake
      <4> QED BY <2>1, <4>1, <4>2
    <3>2. UNCHANGED <<workflowVars, watcherVars>>
      BY <2>1 DEF Accept, Wake
    <3> QED BY <3>1, <3>2, HandlerSetInv
  <2>2. CASE Receive(w)
    BY <2>2, ReceiveInv
  <2>3. CASE CallFails(w)
    <3>1. /\ handler' \in [Watchers -> {NONE} \cup {handler[v] : v \in Watchers}]
          /\ \A v \in Watchers : handler'[v] \in {handler[v], NONE}
      BY <2>3 DEF CallFails, StreamInv, TypeOK
    <3>2. UNCHANGED <<sink, length, watcherVars>> /\ run' \in Nat
          /\ shutdown_requested' \in BOOLEAN /\ closed' \in BOOLEAN
      BY <2>3 DEF CallFails, workflowVars, StreamInv, TypeOK
    <3> QED BY <3>1, <3>2, HandlersDie
  <2>4. CASE StartWatching(w)
    BY <2>4, StartWatchingInv
  <2> QED BY <1>5, <2>1, <2>2, <2>3, <2>4 DEF Watch
<1>6. CASE UNCHANGED vars
  <2>1. /\ handler' \in [Watchers -> {NONE} \cup {handler[w] : w \in Watchers}]
        /\ \A w \in Watchers : handler'[w] \in {handler[w], NONE}
    BY <1>6 DEF vars, StreamInv, TypeOK
  <2>2. UNCHANGED <<sink, length, watcherVars>> /\ run' \in Nat
        /\ shutdown_requested' \in BOOLEAN /\ closed' \in BOOLEAN
    BY <1>6 DEF vars, workflowVars, StreamInv, TypeOK
  <2> QED BY <2>1, <2>2, HandlersDie
<1> QED BY <1>1, <1>2, <1>3, <1>4, <1>5, <1>6 DEF Next

-----------------------------------------------------------------------------
(* Theorems                                                                *)

\* Every reachable state satisfies the inductive invariant.
LEMMA StreamInvariant == Spec => []StreamInv
BY InitInv, NextInv, PTL DEF Spec

\* Every variable has its type and the window of sink.rs never outgrows its
\* capacity, however many events are emitted.
THEOREM StreamTypeCorrect == Spec => []TypeOK
<1>1. StreamInv => TypeOK
  BY DEF StreamInv
<1> QED BY <1>1, StreamInvariant, PTL

\* The sink holds exactly the last events of the history, through evictions,
\* snapshots and executions: a watermark means the same for ever.
THEOREM SinkIsAWindow == Spec => []SinkIsWindow
<1>1. StreamInv => SinkIsWindow
  BY DEF StreamInv
<1> QED BY <1>1, StreamInvariant, PTL

\* A step of the stream is a step of the log, or none.
LEMMA LogStep ==
  ASSUME StreamInv, [Next]_vars
  PROVE  Log!LogNext \/ UNCHANGED <<length, watcherVars>>
<1>1. CASE Emit
  BY <1>1 DEF Emit, watcherVars, Log!LogNext, Log!LogAppend
<1>2. CASE Shutdown \/ ContinueAsNew \/ Close
  BY <1>2 DEF Shutdown, ContinueAsNew, Close
<1>3. ASSUME NEW w \in Watchers, Watch(w)
      PROVE  Log!LogNext \/ UNCHANGED <<length, watcherVars>>
  <2>1. CASE Accept(w) \/ Wake(w) \/ CallFails(w)
    BY <2>1 DEF Accept, Wake, CallFails, workflowVars
  <2>2. CASE Receive(w)
    <3>1. /\ handler[w].watermark \in since_index[w]..length
          /\ handler[w].events
               = Log!Delivery(since_index[w], handler[w].watermark)
      BY <2>2 DEF StreamInv, PromisedReply, Receive
    <3>2. Log!Deliver(w)
      BY <2>2, <3>1 DEF Receive, workflowVars, Log!Deliver
    <3> QED BY <3>2 DEF Log!LogNext
  <2>3. CASE StartWatching(w)
    <3>1. Log!Rewind(w)
      BY <2>3 DEF StartWatching, workflowVars, Log!Rewind
    <3> QED BY <3>1 DEF Log!LogNext
  <2> QED BY <1>3, <2>1, <2>2, <2>3 DEF Watch
<1>4. CASE UNCHANGED vars
  BY <1>4 DEF vars, workflowVars
<1> QED BY <1>1, <1>2, <1>3, <1>4 DEF Next

\* The sink, get_state_update and run_watching together implement the log: a
\* watcher is handed, in order and once, every event the window still holds.
THEOREM StreamIsALog == Spec => ImplementsEventLog
<1>1. Init => Log!LogInit
  BY DEF Init, Log!LogInit
<1>2. StreamInv /\ [Next]_vars => [Log!LogNext]_(Log!logVars)
  BY LogStep DEF Log!logVars, watcherVars
<1> QED BY <1>1, <1>2, StreamInvariant, PTL
        DEF Spec, ImplementsEventLog, Log!LogSpec

-----------------------------------------------------------------------------
(* What a watcher has passed on                                            *)

\* What becomes of a watcher's events in a step, apart from a fresh start.
LEMMA WatcherStep ==
  ASSUME StreamInv, [Next]_vars, NEW w \in Watchers
  PROVE  \/ received'[w] = received[w] /\ since_index'[w] = since_index[w]
         \/ received'[w] = <<>> /\ since_index'[w] = 0
         \/ \E to \in since_index[w]..length :
              /\ received'[w] = received[w] \o Log!Delivery(since_index[w], to)
              /\ since_index'[w] = to
<1>1. CASE UNCHANGED <<length, watcherVars>>
  BY <1>1 DEF watcherVars
<1>2. CASE Log!LogAppend
  BY <1>2 DEF Log!LogAppend
<1>3. ASSUME NEW v \in Watchers, Log!Deliver(v)
      PROVE  \/ received'[w] = received[w] /\ since_index'[w] = since_index[w]
             \/ \E to \in since_index[w]..length :
                  /\ received'[w]
                       = received[w] \o Log!Delivery(since_index[w], to)
                  /\ since_index'[w] = to
  BY <1>3 DEF Log!Deliver, StreamInv, TypeOK
<1>4. ASSUME NEW v \in Watchers, Log!Rewind(v)
      PROVE  \/ received'[w] = received[w] /\ since_index'[w] = since_index[w]
             \/ received'[w] = <<>> /\ since_index'[w] = 0
  BY <1>4 DEF Log!Rewind, StreamInv, TypeOK
<1>5. Log!LogNext \/ UNCHANGED <<length, watcherVars>>
  BY LogStep
<1> QED BY <1>1, <1>2, <1>3, <1>4, <1>5 DEF Log!LogNext

\* Adding a delivery to ordered events below its start keeps them ordered.
LEMMA DeliveryKeepsOrder ==
  ASSUME NEW seq \in Seq(Nat), NEW from \in Nat, NEW to \in Nat, from <= to,
         \A i, j \in DOMAIN seq : i < j => seq[i] < seq[j],
         \A i \in DOMAIN seq : seq[i] \in 1..from
  PROVE  LET new == seq \o Log!Delivery(from, to) IN
         /\ \A i, j \in DOMAIN new : i < j => new[i] < new[j]
         /\ \A i \in DOMAIN new : new[i] \in 1..to
<1> DEFINE d == Log!Delivery(from, to)
           new == seq \o d
<1>1. /\ d \in Seq(Nat)
      /\ \A i \in DOMAIN d : d[i] \in (from + 1)..to
      /\ \A i, j \in DOMAIN d : i < j => d[i] < d[j]
  BY DeliveryTyped
<1> HIDE DEF d
<1>2. /\ Len(seq) \in Nat /\ DOMAIN seq = 1..Len(seq)
      /\ Len(d) \in Nat /\ DOMAIN d = 1..Len(d)
  BY <1>1, LenProperties
<1>3. /\ new \in Seq(Nat)
      /\ Len(new) = Len(seq) + Len(d)
      /\ \A i \in 1..(Len(seq) + Len(d)) :
           new[i] = IF i <= Len(seq) THEN seq[i] ELSE d[i - Len(seq)]
  BY <1>1, ConcatProperties
<1>4. DOMAIN new = 1..(Len(seq) + Len(d))
  BY <1>3, LenProperties
<1> HIDE DEF new
<1>5. ASSUME NEW i \in DOMAIN new
      PROVE  \/ i \in DOMAIN seq /\ new[i] = seq[i] /\ new[i] \in 1..from
             \/ /\ i - Len(seq) \in DOMAIN d
                /\ new[i] = d[i - Len(seq)]
                /\ new[i] \in (from + 1)..to
  <2>1. CASE i <= Len(seq)
    BY <2>1, <1>2, <1>3, <1>4
  <2>2. CASE ~(i <= Len(seq))
    <3>1. i - Len(seq) \in 1..Len(d)
      BY <2>2, <1>2, <1>4
    <3>2. new[i] = d[i - Len(seq)]
      BY <2>2, <1>3, <1>4
    <3> QED BY <3>1, <3>2, <1>1, <1>2
  <2> QED BY <2>1, <2>2
<1>6. ASSUME NEW i \in DOMAIN new, NEW j \in DOMAIN new, i < j
      PROVE  new[i] < new[j]
  <2>1. CASE i \in DOMAIN seq /\ j \in DOMAIN seq /\ new[i] = seq[i] /\ new[j] = seq[j]
    BY <2>1, <1>6
  <2>2. CASE new[i] \in 1..from /\ new[j] \in (from + 1)..to
    BY <2>2
  <2>3. CASE /\ i - Len(seq) \in DOMAIN d /\ new[i] = d[i - Len(seq)]
             /\ j - Len(seq) \in DOMAIN d /\ new[j] = d[j - Len(seq)]
    <3>1. i - Len(seq) < j - Len(seq)
      BY <1>2, <1>4, <1>6
    <3> QED BY <2>3, <3>1, <1>1
  <2>4. ~ (i - Len(seq) \in DOMAIN d /\ j \in DOMAIN seq)
    BY <1>2, <1>4, <1>6
  <2> QED BY <1>5, <2>1, <2>2, <2>3, <2>4
<1>7. ASSUME NEW i \in DOMAIN new PROVE new[i] \in 1..to
  BY <1>5, <1>7
<1> QED BY <1>6, <1>7 DEF new, d

\* Every step keeps the order of the events passed on.
LEMMA NextInOrder ==
  StreamInv /\ InOrderWithoutDuplicates /\ [Next]_vars
    => InOrderWithoutDuplicates'
<1> SUFFICES ASSUME StreamInv, InOrderWithoutDuplicates, [Next]_vars,
                    NEW w \in Watchers
             PROVE  /\ \A i, j \in DOMAIN received'[w] :
                         i < j => received'[w][i] < received'[w][j]
                    /\ \A i \in DOMAIN received'[w] :
                         received'[w][i] \in 1..since_index'[w]
  BY DEF InOrderWithoutDuplicates
<1>1. /\ received[w] \in Seq(Nat) /\ since_index[w] \in Nat /\ length \in Nat
  BY DEF StreamInv, TypeOK
<1>2. /\ \A i, j \in DOMAIN received[w] :
           i < j => received[w][i] < received[w][j]
      /\ \A i \in DOMAIN received[w] : received[w][i] \in 1..since_index[w]
  BY DEF InOrderWithoutDuplicates
<1>3. CASE received'[w] = received[w] /\ since_index'[w] = since_index[w]
  BY <1>2, <1>3
<1>4. CASE received'[w] = <<>> /\ since_index'[w] = 0
  BY <1>4
<1>5. ASSUME NEW to \in since_index[w]..length,
             received'[w] = received[w] \o Log!Delivery(since_index[w], to),
             since_index'[w] = to
      PROVE  /\ \A i, j \in DOMAIN received'[w] :
                  i < j => received'[w][i] < received'[w][j]
             /\ \A i \in DOMAIN received'[w] :
                  received'[w][i] \in 1..since_index'[w]
  <2>1. to \in Nat /\ since_index[w] <= to
    BY <1>1
  <2> QED BY <1>1, <1>2, <1>5, <2>1, DeliveryKeepsOrder
<1> QED BY <1>3, <1>4, <1>5, WatcherStep

\* A watcher passes events on in the order of emission and none twice,
\* whatever replies get lost and whatever calls are repeated.
THEOREM WatchersAreInOrder == Spec => []InOrderWithoutDuplicates
<1>1. Init => InOrderWithoutDuplicates
  BY DEF Init, InOrderWithoutDuplicates
<1> QED BY <1>1, StreamInvariant, NextInOrder, PTL DEF Spec

\* The window only moves on.
LEMMA OffsetGrows ==
  ASSUME StreamInv, [Next]_vars
  PROVE  /\ sink'.offset >= sink.offset
         /\ \A e \in Nat : e <= length - Capacity => e <= sink.offset
<1>1. StreamInv'
  BY NextInv
<1>2. /\ length \in Nat /\ length' \in Nat /\ sink \in Sinks /\ sink' \in Sinks
  BY <1>1 DEF StreamInv, TypeOK, Sinks
<1>3. length' = length \/ length' = length + 1
  <2>1. CASE Log!LogAppend
    BY <2>1 DEF Log!LogAppend
  <2>2. CASE UNCHANGED <<length, watcherVars>>
    BY <2>2
  <2>3. CASE \E w \in Watchers : Log!Deliver(w) \/ Log!Rewind(w)
    BY <2>3 DEF Log!Deliver, Log!Rewind
  <2> QED BY <2>1, <2>2, <2>3, LogStep DEF Log!LogNext
<1>4. Window(sink, length)
  BY SinkWindow DEF StreamInv
<1>5. Window(sink', length')
  BY <1>1, <1>2, WindowMeans DEF StreamInv, SinkIsWindow
<1>6. /\ \/ length > Capacity /\ sink.offset = length - Capacity
         \/ length <= Capacity /\ sink.offset = 0
      /\ \/ length' > Capacity /\ sink'.offset = length' - Capacity
         \/ length' <= Capacity /\ sink'.offset = 0
  BY <1>4, <1>5 DEF Window
<1>7. sink.offset \in Nat /\ sink'.offset \in Nat
  BY <1>2, SinkTyped
<1> QED BY <1>2, <1>3, <1>6, <1>7, StreamAssumption

\* Every step keeps what is missed within what was evicted.
LEMMA NextMissed ==
  StreamInv /\ OnlyEvictedAreMissed /\ [Next]_vars => OnlyEvictedAreMissed'
<1> SUFFICES ASSUME StreamInv, OnlyEvictedAreMissed, [Next]_vars,
                    NEW w \in Watchers, NEW e \in 1..since_index'[w]
             PROVE  \/ \E i \in DOMAIN received'[w] : received'[w][i] = e
                    \/ e <= sink'.offset
  BY DEF OnlyEvictedAreMissed
<1>1. /\ received[w] \in Seq(Nat) /\ since_index[w] \in Nat /\ length \in Nat
      /\ sink.offset \in Nat /\ Capacity \in Nat
  BY SinkTyped, StreamAssumption DEF StreamInv, TypeOK, Sinks
<1>2. /\ sink'.offset >= sink.offset
      /\ \A n \in Nat : n <= length - Capacity => n <= sink.offset
  BY OffsetGrows
<1>3. sink'.offset \in Nat
  <2>1. StreamInv'
    BY NextInv
  <2> QED BY <2>1 DEF StreamInv, TypeOK
<1>4. ASSUME e \in 1..since_index[w]
      PROVE  \/ \E i \in DOMAIN received[w] : received[w][i] = e
             \/ e <= sink'.offset
  BY <1>1, <1>2, <1>3, <1>4 DEF OnlyEvictedAreMissed
<1>5. CASE received'[w] = received[w] /\ since_index'[w] = since_index[w]
  BY <1>4, <1>5
<1>6. CASE received'[w] = <<>> /\ since_index'[w] = 0
  BY <1>6
<1>7. ASSUME NEW to \in since_index[w]..length,
             received'[w] = received[w] \o Log!Delivery(since_index[w], to),
             since_index'[w] = to
      PROVE  \/ \E i \in DOMAIN received'[w] : received'[w][i] = e
             \/ e <= sink'.offset
  <2> DEFINE from == since_index[w]
             first == IF to - from > Capacity THEN to - Capacity ELSE from
             d == Log!Delivery(from, to)
  <2>1. to \in Nat /\ from <= to /\ to <= length /\ e \in 1..to
    BY <1>1, <1>7
  <2>2. first \in from..to /\ (first = from \/ first = to - Capacity)
    BY <1>1, <2>1
  <2>3. d = [i \in 1..(to - first) |-> first + i]
    BY DEF Log!Delivery
  <2>4. d \in Seq(Nat) /\ received'[w] = received[w] \o d
    BY <1>1, <1>7, <2>1, DeliveryTyped
  <2> HIDE DEF first, d
  <2>5. to - first \in Nat
    BY <1>1, <2>1, <2>2
  <2>6. Len(d) = to - first
    BY <2>3, <2>4, <2>5, LenProperties
  <2>7. /\ received'[w] \in Seq(Nat)
        /\ Len(received'[w]) = Len(received[w]) + Len(d)
        /\ \A i \in 1..(Len(received[w]) + Len(d)) : received'[w][i] =
             IF i <= Len(received[w]) THEN received[w][i]
             ELSE d[i - Len(received[w])]
    BY <1>1, <2>4, ConcatProperties
  <2>8. /\ Len(received[w]) \in Nat
        /\ DOMAIN received[w] = 1..Len(received[w])
        /\ DOMAIN received'[w] = 1..(Len(received[w]) + Len(d))
    BY <1>1, <2>7, LenProperties
  <2>9. CASE e > first
    <3> DEFINE k == Len(received[w]) + (e - first)
    <3>1. e - first \in 1..(to - first) /\ first + (e - first) = e
      BY <1>1, <2>1, <2>2, <2>9
    <3>2. d[e - first] = e
      BY <2>3, <3>1
    <3>3. /\ k \in 1..(Len(received[w]) + Len(d))
          /\ ~(k <= Len(received[w]))
          /\ k - Len(received[w]) = e - first
      BY <2>5, <2>6, <2>8, <3>1
    <3> HIDE DEF k
    <3>4. received'[w][k] = d[k - Len(received[w])]
      BY <2>7, <3>3
    <3>5. received'[w][k] = e
      BY <3>2, <3>3, <3>4
    <3> QED BY <2>8, <3>3, <3>5
  <2>10. CASE e \in 1..from
    <3>1. CASE \E i \in DOMAIN received[w] : received[w][i] = e
      <4>1. PICK i \in 1..Len(received[w]) : received[w][i] = e
        BY <3>1, <2>8
      <4>2. i \in 1..(Len(received[w]) + Len(d)) /\ i <= Len(received[w])
        BY <2>5, <2>6, <2>8
      <4>3. received'[w][i] = e
        BY <2>7, <4>1, <4>2
      <4> QED BY <2>8, <4>2, <4>3
    <3> QED BY <3>1, <1>4, <2>10
  <2>11. CASE first = to - Capacity /\ e <= first
    <3>1. e \in Nat /\ e <= length - Capacity
      BY <1>1, <2>1, <2>11
    <3> QED BY <3>1, <1>1, <1>2, <1>3
  <2>12. e > first \/ e \in 1..from \/ (first = to - Capacity /\ e <= first)
    BY <1>1, <2>1, <2>2
  <2> QED BY <2>9, <2>10, <2>11, <2>12
<1> QED BY <1>5, <1>6, <1>7, WatcherStep

\* What a watcher has gone past without passing it on had been evicted: no
\* lost reply, repeated call or new execution loses an event the window holds.
THEOREM NothingElseIsMissed == Spec => []OnlyEvictedAreMissed
<1>1. Init => OnlyEvictedAreMissed
  BY DEF Init, OnlyEvictedAreMissed
<1> QED BY <1>1, StreamInvariant, NextMissed, PTL DEF Spec

=============================================================================

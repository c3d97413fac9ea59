------------------------- MODULE ClientSessionProofs -------------------------
(***************************************************************************)
(* Theorems about ClientSession, for every value of its constants: its     *)
(* types, where turns go and how often, and what is shown of whom.  Types, *)
(* turns, events and the history shown have an inductive invariant each;   *)
(* the first is a hypothesis of the others.                                *)
(***************************************************************************)
EXTENDS ClientSession, SequenceTheorems, FiniteSetTheorems, TLAPS

-----------------------------------------------------------------------------
(* The invariant of the turns                                              *)

\* Turn n may still be given to an agent.
Underway(n) ==
  \/ n > submitted
  \/ submitting # NONE /\ submitting.turn = n
  \/ retries[n] # NONE /\ retries[n].state \in {"sleep", "call"}

\* A turn is submitted once, and has a retry task only after that; where it
\* goes to was on screen meanwhile.
OneSubmit ==
  /\ submitting # NONE =>
       /\ submitting.turn = submitted
       /\ retries[submitting.turn] = NONE
       /\ session_workflow_id \in addressed[submitting.turn]
       /\ submitting.session \in addressed[submitting.turn]
  /\ \A n \in Turns : retries[n] # NONE =>
       /\ n <= submitted
       /\ retries[n].turn = n
       /\ retries[n].session \in addressed[n]

LoggedOnce ==
  \A n \in Turns :
    /\ IsFiniteSet(Occurrences(n))
    /\ Cardinality(Occurrences(n)) <= lost[n] + (IF Underway(n) THEN 0 ELSE 1)
    /\ n > submitted => lost[n] = 0

\* The executions of a session so far, but for those before this client.
Executions(s) == closes[s] + (IF s \in running THEN 1 ELSE 0)

\* The server takes one start for each of them.
StartedOnce(n, call) ==
  call.kind = "start" =>
    Cardinality(Occurrences(n)) <= Executions(call.session)

StartsOnce ==
  /\ submitting # NONE => StartedOnce(submitting.turn, submitting)
  /\ \A n \in Turns : retries[n] # NONE => StartedOnce(n, retries[n])

LogIsOfSubmitted ==
  \A s \in Sessions : \A i \in DOMAIN log[s] : log[s][i] <= submitted

TurnInv ==
  /\ OneSubmit
  /\ LoggedOnce
  /\ StartsOnce
  /\ LogIsOfSubmitted
  /\ TurnsStayWithTheirSession

-----------------------------------------------------------------------------
(* The invariant of the events                                             *)

\* What an execution is counted from is in the log.
BaseInLog == \A s \in Sessions : base[s] <= Len(log[s])

\* A watcher holds the events it took last, in their order, up to its
\* watermark, and none if it waits.
HoldsItsBatch ==
  \A w \in DOMAIN watchers : LET v == watchers[w] IN
    /\ v.generation <= generation
    /\ v.state # "checked" => v.batch = <<>>
    /\ \A k \in DOMAIN v.batch :
         /\ v.batch[k].generation = v.generation
         /\ v.batch[k].index <= base[v.agent] + v.since_index
         /\ \A i \in DOMAIN v.batch : i < k => v.batch[i].index < v.batch[k].index

\* The start of the client's own session is still under way.
Starting ==
  \/ submitting # NONE /\ submitting.kind = "start"
  \/ \E n \in Turns : /\ retries[n] # NONE
                      /\ retries[n].kind = "start"
                      /\ retries[n].generation = generation
                      /\ retries[n].state \in {"sleep", "call"}

\* Only the first turn can start the session, and before it nothing is shown
\* and nobody is followed.
StartIsFirst ==
  /\ ~started =>
       /\ generation = 0
       /\ submitting # NONE => submitting.kind = "start"
       /\ submitting = NONE => submitted = 0
  /\ submitting # NONE /\ submitting.kind = "start" =>
       submitting.turn = 1 /\ submitted = 1
  /\ submitted = 0 => \A n \in Turns : retries[n] = NONE
  /\ submitting # NONE => submitting.turn = submitted
  /\ \A n \in Turns : retries[n] # NONE /\ retries[n].kind = "start" =>
       /\ n = 1 /\ retries[n].turn = 1
       /\ submitting # NONE => submitting.kind # "start"
       /\ submitted >= 1
  /\ \A n \in Turns : retries[n] # NONE => retries[n].generation <= generation

NobodyYet ==
  /\ ~started \/ (Starting /\ ~overlapped) => watchers = <<>> /\ event_buffer = <<>>
  /\ submitting # NONE /\ submitting.kind = "start" /\ ~overlapped => generation = 0

\* Watcher v took the event already, and holds later ones only.
AheadOf(index, v) ==
  /\ index <= base[v.agent] + v.since_index
  /\ \A k \in DOMAIN v.batch : index < v.batch[k].index

\* One watcher follows the session on screen, and is ahead of what is shown.
OneFollows ==
  ~overlapped =>
    /\ \A v, w \in DOMAIN watchers :
         watchers[v].generation = generation /\ watchers[w].generation = generation
           => v = w
    /\ \A i \in DOMAIN event_buffer : event_buffer[i].generation = generation =>
         \E w \in DOMAIN watchers :
           /\ watchers[w].generation = generation
           /\ AheadOf(event_buffer[i].index, watchers[w])

\* A new client's session is followed after it was announced.
AnnouncedFirst ==
  generation = 0 /\ ~Resumed /\ watchers # <<>> =>
    \E i \in DOMAIN event_buffer : event_buffer[i].index = 0

\* ShownInOrder, of what is streamed and of the history.
StreamedInOrder ==
  /\ generation = 0 /\ ~Resumed => \A j \in DOMAIN event_buffer :
       event_buffer[j].index > 0 =>
         \E i \in 1..(j - 1) : event_buffer[i].index = 0
  /\ ~overlapped =>
       \A i, j \in DOMAIN event_buffer :
         /\ i < j
         /\ event_buffer[i].generation = generation
         /\ event_buffer[j].generation = generation
         => event_buffer[i].index < event_buffer[j].index
HistoryInOrder ==
  \A j \in DOMAIN initial :
    /\ initial[j].from = session_workflow_id
    /\ initial[j].index = initial[1].index + j - 1

\* What is known of the watchers and of what they show.
WatchInv ==
  /\ BaseInLog
  /\ HoldsItsBatch
  /\ OneFollows
  /\ AnnouncedFirst
  /\ StreamedInOrder

EventInv ==
  /\ StartIsFirst
  /\ NobodyYet
  /\ WatchInv

-----------------------------------------------------------------------------
(* Types                                                                   *)

\* Whatever the server serves is appended to one log.
LEMMA ServeAppends ==
  ASSUME TypeOK, NEW call, call.session \in Sessions, call.turn \in Turns,
         Serve(call)
  PROVE  /\ running' \in SUBSET Sessions
         /\ running' = running \cup {call.session}
         /\ log' \in [Sessions -> Seq(Turns \cup {0})]
         /\ Len(log'[call.session]) = Len(log[call.session]) + 1
         /\ log'[call.session][Len(log[call.session]) + 1] = call.turn
         /\ \A s \in Sessions :
              /\ s # call.session => log'[s] = log[s]
              /\ Len(log[s]) \in Nat /\ Len(log'[s]) \in Nat
              /\ Len(log[s]) <= Len(log'[s])
              /\ \A i \in DOMAIN log[s] : log'[s][i] = log[s][i]
         /\ base' \in [Sessions -> Nat]
         /\ \A s \in Sessions :
              /\ base'[s] \in {base[s], Len(log[s])}
              /\ s # call.session => base'[s] = base[s]
  <1> DEFINE c == call.session
             new == Append(log[c], call.turn)
  <1>1. log \in [Sessions -> Seq(Turns \cup {0})] /\ running \in SUBSET Sessions
        /\ base \in [Sessions -> Nat]
    BY DEF TypeOK
  <1>2. /\ running' = running \cup {c}
        /\ log' = [log EXCEPT ![c] = new]
    BY DEF Serve
  <1>3. /\ log[c] \in Seq(Turns \cup {0}) /\ new \in Seq(Turns \cup {0})
        /\ Len(new) = Len(log[c]) + 1
        /\ new[Len(log[c]) + 1] = call.turn
        /\ \A i \in DOMAIN log[c] : new[i] = log[c][i]
    BY <1>1
  <1>4. \A s \in Sessions : log[s] \in Seq(Turns \cup {0}) /\ Len(log[s]) \in Nat
    BY <1>1
  <1> HIDE DEF new
  <1>5. /\ log' \in [Sessions -> Seq(Turns \cup {0})]
        /\ log'[c] = new
        /\ \A s \in Sessions : s # c => log'[s] = log[s]
    BY <1>1, <1>2, <1>3
  <1>6. ASSUME NEW s \in Sessions
        PROVE  /\ Len(log'[s]) \in Nat /\ Len(log[s]) <= Len(log'[s])
               /\ \A i \in DOMAIN log[s] : log'[s][i] = log[s][i]
    <2>1. CASE s = c
      BY <1>3, <1>4, <1>5, <2>1
    <2>2. CASE s # c
      BY <1>4, <1>5, <2>2
    <2> QED
      BY <2>1, <2>2
  <1>7. /\ base' \in [Sessions -> Nat]
        /\ \A s \in Sessions :
             /\ base'[s] \in {base[s], Len(log[s])}
             /\ s # c => base'[s] = base[s]
    <2>1. CASE base' = base
      BY <1>1, <2>1
    <2>2. CASE base' = [base EXCEPT ![c] = Len(log[c])]
      BY <1>1, <1>4, <2>2
    <2> QED
      BY <2>1, <2>2 DEF Serve
  <1>8. /\ running' \in SUBSET Sessions
        /\ Len(log'[c]) = Len(log[c]) + 1
        /\ log'[c][Len(log[c]) + 1] = call.turn
        /\ running' = running \cup {c}
        /\ log' \in [Sessions -> Seq(Turns \cup {0})]
    BY <1>1, <1>2, <1>3, <1>5
  <1> QED
    BY <1>4, <1>5, <1>6, <1>7, <1>8

LEMMA WatcherTypes ==
  ASSUME TypeOK, NEW w \in DOMAIN watchers
  PROVE  /\ watchers[w] \in Watchers
         /\ DOMAIN watchers = 1..Len(watchers) /\ Len(watchers) \in Nat
         /\ Len(watchers[w].batch) \in Nat
         /\ DOMAIN watchers[w].batch = 1..Len(watchers[w].batch)
         /\ watchers[w].batch \in Seq(Shown)
  <1>1. watchers \in Seq(Watchers)
    BY DEF TypeOK
  <1>2. watchers[w] \in Watchers
    BY <1>1
  <1> QED
    BY <1>1, <1>2 DEF Watchers

\* Aborting changes how a watcher goes on, not what it holds.
LEMMA AbortedTypes ==
  ASSUME TypeOK
  PROVE  /\ Aborted \in Seq(Watchers)
         /\ Len(Aborted) = Len(watchers)
         /\ DOMAIN Aborted = DOMAIN watchers
         /\ \A w \in DOMAIN watchers :
              /\ Aborted[w].agent = watchers[w].agent
              /\ Aborted[w].generation = watchers[w].generation
              /\ Aborted[w].since_index = watchers[w].since_index
              /\ Aborted[w].batch = watchers[w].batch
              /\ Aborted[w].state = "checked" <=> watchers[w].state = "checked"
  <1>1. watchers \in Seq(Watchers) /\ Len(watchers) \in Nat
        /\ DOMAIN watchers = 1..Len(watchers)
    BY DEF TypeOK
  <1>2. DOMAIN Aborted = 1..Len(watchers)
    BY <1>1 DEF Aborted
  <1>3. ASSUME NEW w \in DOMAIN watchers
        PROVE  /\ Aborted[w] \in Watchers
               /\ Aborted[w].agent = watchers[w].agent
               /\ Aborted[w].generation = watchers[w].generation
               /\ Aborted[w].since_index = watchers[w].since_index
               /\ Aborted[w].batch = watchers[w].batch
               /\ Aborted[w].state = "checked" <=> watchers[w].state = "checked"
    <2>1. watchers[w] \in Watchers
      BY WatcherTypes
    <2> QED
      BY <2>1 DEF Aborted, Watchers
  <1>4. Aborted \in [1..Len(watchers) -> Watchers]
    BY <1>1, <1>2, <1>3 DEF Aborted
  <1> HIDE DEF Aborted
  <1>5. Aborted \in Seq(Watchers)
    BY <1>1, <1>4, SeqDef
  <1>6. Len(Aborted) = Len(watchers)
    BY <1>1, <1>2, <1>5
  <1> QED
    BY <1>1, <1>2, <1>3, <1>5, <1>6

LEMMA EventTypes ==
  ASSUME NEW s \in Sessions, NEW from \in Nat, NEW to \in Nat, from < to,
         NEW g \in Nat
  PROVE  /\ Events(s, from, to, g) \in Seq(Shown)
         /\ Len(Events(s, from, to, g)) = to - from
         /\ \A k \in DOMAIN Events(s, from, to, g) :
              Events(s, from, to, g)[k] =
                [from |-> s, index |-> from + k, generation |-> g]
  <1> DEFINE b == Events(s, from, to, g)
  <1>1. to - from \in Nat
    OBVIOUS
  <1>2. b = [k \in 1..(to - from) |-> [from |-> s, index |-> from + k, generation |-> g]]
    BY DEF Events
  <1>3. \A k \in 1..(to - from) :
          [from |-> s, index |-> from + k, generation |-> g] \in Shown
    BY DEF Shown
  <1>4. b \in [1..(to - from) -> Shown]
    BY <1>2, <1>3
  <1>5. b \in Seq(Shown) /\ DOMAIN b = 1..(to - from)
    BY <1>1, <1>4, SeqDef
  <1> HIDE DEF b
  <1>6. Len(b) = to - from
    BY <1>1, <1>5
  <1> QED
    BY <1>2, <1>5, <1>6 DEF b

\* A history is a sequence of events, an empty one if there are none yet.
LEMMA HistoryTypes ==
  ASSUME NEW s \in Sessions, NEW from \in Nat, NEW to \in Nat, NEW g \in Nat
  PROVE  /\ Events(s, from, to, g) \in Seq(Shown)
         /\ \A k \in DOMAIN Events(s, from, to, g) :
              Events(s, from, to, g)[k] =
                [from |-> s, index |-> from + k, generation |-> g]
  <1>1. CASE from < to
    BY <1>1, EventTypes
  <1>2. CASE ~(from < to)
    <2>1. 1..(to - from) = {} /\ 1..0 = {}
      BY <1>2
    <2> DEFINE b == Events(s, from, to, g)
    <2>2. b = [k \in {} |-> [from |-> s, index |-> from + k, generation |-> g]]
      BY <2>1 DEF Events
    <2>3. DOMAIN b = {} /\ b \in [{} -> Shown]
      BY <2>2
    <2> HIDE DEF b
    <2>4. b \in Seq(Shown)
      BY <2>1, <2>3, SeqDef
    <2> QED
      BY <2>3, <2>4 DEF b
  <1> QED
    BY <1>1, <1>2

\* The calls of a client are those of its submit and of its retry tasks.
LEMMA CallTypes ==
  ASSUME TypeOK
  PROVE  /\ submitting # NONE =>
              /\ submitting \in Submissions
              /\ submitting.turn \in Turns /\ submitting.session \in Sessions
         /\ \A n \in Turns : retries[n] # NONE =>
              /\ retries[n] \in Tasks
              /\ retries[n].turn \in Turns /\ retries[n].session \in Sessions
              /\ retries[n].agent \in Sessions /\ retries[n].generation \in Nat
              /\ retries[n].kind \in Kinds
  BY DEF TypeOK, Submissions, Tasks

\* A retry task keeps its type whatever its state and its token become.
LEMMA RetryTypes ==
  ASSUME TypeOK, NEW n \in Turns, retries[n] # NONE
  PROVE  /\ \A st \in {"sleep", "call", "done", "cancelled", "stale"} :
              [retries EXCEPT ![n].state = st] \in [Turns -> Tasks \cup {NONE}]
         /\ [retries EXCEPT ![n].cancelled = TRUE] \in [Turns -> Tasks \cup {NONE}]
  <1>1. retries \in [Turns -> Tasks \cup {NONE}] /\ retries[n] \in Tasks
    BY CallTypes DEF TypeOK
  <1>2. ASSUME NEW st \in {"sleep", "call", "done", "cancelled", "stale"}
        PROVE  [retries[n] EXCEPT !.state = st] \in Tasks
    BY <1>1, <1>2 DEF Tasks
  <1>3. [retries[n] EXCEPT !.cancelled = TRUE] \in Tasks
    BY <1>1 DEF Tasks
  <1> QED
    BY <1>1, <1>2, <1>3

LEMMA FailsTypes ==
  ASSUME TypeOK, NEW call, call.session \in Sessions, call.turn \in Turns,
         Fails(call)
  PROVE  /\ running' \in SUBSET Sessions
         /\ log' \in [Sessions -> Seq(Turns \cup {0})]
         /\ base' \in [Sessions -> Nat]
         /\ lost' \in [Turns -> Nat]
  <1>1. CASE UNCHANGED <<serverVars, lost>>
    BY <1>1 DEF serverVars, TypeOK
  <1>2. CASE Serve(call) /\ lost' = [lost EXCEPT ![call.turn] = @ + 1]
    <2>1. lost' \in [Turns -> Nat]
      BY <1>2 DEF TypeOK
    <2> QED
      BY <1>2, <2>1, ServeAppends
  <1> QED
    BY <1>1, <1>2 DEF Fails

\* The handle's watcher is not touched by what the others do.
HandleKnown ==
  watch_handle # NONE =>
    /\ watch_handle \in DOMAIN watchers
    /\ watchers[watch_handle].agent = session_workflow_id
    /\ watchers[watch_handle].generation = generation

LEMMA WatcherChanges ==
  ASSUME TypeOK, NEW w \in DOMAIN watchers, NEW v \in Watchers,
         v.agent = watchers[w].agent, v.generation = watchers[w].generation,
         watchers' = [watchers EXCEPT ![w] = v],
         UNCHANGED <<watch_handle, session_workflow_id, generation>>
  PROVE  watchers' \in Seq(Watchers) /\ HandleKnown'
  <1>1. watchers \in Seq(Watchers) /\ HandleKnown
    BY DEF TypeOK, HandleKnown
  <1>2. watchers' \in Seq(Watchers) /\ DOMAIN watchers' = DOMAIN watchers
    BY <1>1
  <1>3. \A u \in DOMAIN watchers : /\ watchers'[u].agent = watchers[u].agent
                                   /\ watchers'[u].generation = watchers[u].generation
    BY <1>1
  <1> QED
    BY <1>1, <1>2, <1>3 DEF HandleKnown

LEMMA NewWatcherTypes ==
  ASSUME NEW s \in Sessions, NEW g \in Nat
  PROVE  Watcher(s, g) \in Watchers
  <1>1. <<>> \in Seq(Shown)
    OBVIOUS
  <1> QED
    BY <1>1 DEF Watcher, Watchers

LEMMA StartWatchingTypes ==
  ASSUME TypeOK, NEW s \in Sessions, NEW g \in Nat, StartWatching(s, g),
         session_workflow_id' = s, generation' = g
  PROVE  watchers' \in Seq(Watchers) /\ HandleKnown'
  <1> DEFINE a == Aborted
             v == Watcher(s, g)
  <1>1. v \in Watchers /\ v.agent = s /\ v.generation = g
    BY NewWatcherTypes DEF Watcher
  <1>2. a \in Seq(Watchers) /\ Len(a) = Len(watchers) /\ Len(watchers) \in Nat
    BY AbortedTypes DEF TypeOK
  <1>3. watchers' = Append(a, v) /\ watch_handle' = Len(watchers) + 1
    BY DEF StartWatching
  <1> HIDE DEF a, v
  <1>4. /\ watchers' \in Seq(Watchers)
        /\ watch_handle' \in DOMAIN watchers'
        /\ watchers'[watch_handle'] = v
    BY <1>1, <1>2, <1>3
  <1> QED
    BY <1>1, <1>4 DEF HandleKnown

LEMMA TypesFromTheStart ==
  ASSUME Init
  PROVE  TypeOK
  <1> USE ClientAssumption
  <1>1. PICK resumed \in BOOLEAN : Create(resumed)
    BY DEF Init
  <1>2. running \in SUBSET Sessions
    BY <1>1 DEF Create
  <1>3. log \in [Sessions -> Seq(Turns \cup {0})]
    <2>1. <<0>> \in Seq(Turns \cup {0}) /\ <<>> \in Seq(Turns \cup {0})
      OBVIOUS
    <2>2. log = [s \in Sessions |-> IF s \in running THEN <<0>> ELSE <<>>]
      BY <1>1 DEF Create
    <2> QED
      BY <2>1, <2>2
  <1>4. /\ First \in Sessions /\ 0 \in Nat
        /\ Watcher(First, 0) \in Watchers
        /\ Watcher(First, 0).agent = First /\ Watcher(First, 0).generation = 0
    BY NewWatcherTypes DEF Watcher
  <1> DEFINE v == Watcher(First, 0)
  <1> HIDE DEF v
  <1>5. /\ watchers = IF resumed THEN <<v>> ELSE <<>>
        /\ watch_handle = IF resumed THEN 1 ELSE NONE
        /\ session_workflow_id = First /\ generation = 0
    BY <1>1 DEF Create, v
  <1>6. v \in Watchers /\ v.agent = First /\ v.generation = 0
    BY <1>4 DEF v
  <1>7. watchers \in Seq(Watchers) /\ HandleKnown
    BY <1>4, <1>5, <1>6 DEF HandleKnown
  <1>8. /\ started \in BOOLEAN
        /\ event_buffer \in Seq(Shown)
        /\ submit_cancel \in Turns \cup {NONE}
        /\ base \in [Sessions -> Nat]
    BY <1>1 DEF Create
  <1>9. /\ submitting \in Submissions \cup {NONE}
        /\ retries \in [Turns -> Tasks \cup {NONE}]
        /\ submitted \in Nat
        /\ addressed \in [Turns -> SUBSET Sessions]
        /\ lost \in [Turns -> Nat]
        /\ closes \in [Sessions -> Nat]
        /\ overlapped \in BOOLEAN
        /\ fetching = NONE
    BY DEF Init
  <1>10. initial \in Seq(Shown)
    <2>1. Events(First, 0, 1, 0) \in Seq(Shown)
      BY <1>4, HistoryTypes
    <2>2. initial = IF resumed THEN Events(First, 0, 1, 0) ELSE <<>>
      BY <1>1 DEF Create
    <2> QED
      BY <2>1, <2>2
  <1> QED
    BY <1>2, <1>3, <1>4, <1>5, <1>7, <1>8, <1>9, <1>10 DEF TypeOK, HandleKnown

LEMMA SubmitTypes ==
  ASSUME TypeOK, Submit
  PROVE  TypeOK'
  <1> USE ClientAssumption
  <1>1. HandleKnown
    BY DEF TypeOK, HandleKnown
  <1>2. ASSUME SubmitUserTurn
        PROVE  TypeOK'
    <2>1. submitted + 1 \in Turns /\ submitted + 1 \in Nat
      BY <1>2 DEF SubmitUserTurn, TypeOK, Turns
    <2>2. session_workflow_id \in Sessions
      BY DEF TypeOK
    <2>3. submitting' \in Submissions
      BY <1>2, <2>1, <2>2 DEF SubmitUserTurn, Submissions, Kinds
    <2>4. addressed' \in [Turns -> SUBSET Sessions]
      BY <1>2, <2>1, <2>2 DEF SubmitUserTurn, TypeOK
    <2>5. submitted' \in Nat /\ submit_cancel' \in Turns
      BY <1>2, <2>1 DEF SubmitUserTurn
    <2>6. HandleKnown'
      BY <1>1, <1>2 DEF SubmitUserTurn, HandleKnown
    <2> QED
      BY <1>2, <2>3, <2>4, <2>5, <2>6
      DEF SubmitUserTurn, TypeOK, HandleKnown, serverVars, shownVars
  <1>3. ASSUME Interrupt
        PROVE  TypeOK'
    <2>1. submit_cancel \in Turns
      BY <1>3 DEF Interrupt, TypeOK
    <2>2. retries' \in [Turns -> Tasks \cup {NONE}]
      BY <1>3, <2>1, RetryTypes DEF Interrupt, TypeOK
    <2>3. HandleKnown'
      BY <1>1, <1>3 DEF Interrupt, HandleKnown
    <2> QED
      BY <1>3, <2>2, <2>3
      DEF Interrupt, TypeOK, HandleKnown, serverVars, shownVars, historyVars
  <1> QED
    BY <1>2, <1>3 DEF Submit

LEMMA AttemptTypes ==
  ASSUME TypeOK, Attempt
  PROVE  TypeOK'
  <1> USE ClientAssumption
  <1>1. HandleKnown
    BY DEF TypeOK, HandleKnown
  <1>2. /\ submitting # NONE
        /\ submitting \in Submissions
        /\ submitting.turn \in Turns /\ submitting.session \in Sessions
        /\ submitting.kind \in Kinds
    BY CallTypes DEF Attempt, StartSucceeds, SignalSucceeds, FirstAttemptFails, Submissions
  <1>3. session_workflow_id \in Sessions /\ generation \in Nat
    BY DEF TypeOK
  <1>4. ASSUME StartSucceeds
        PROVE  TypeOK'
    <2>1. /\ running' \in SUBSET Sessions
          /\ log' \in [Sessions -> Seq(Turns \cup {0})]
          /\ base' \in [Sessions -> Nat]
      BY <1>2, <1>4, ServeAppends DEF StartSucceeds
    <2>2. Configured(submitting.session) \in Shown
      BY <1>2, <1>3 DEF Configured, Shown
    <2>3. event_buffer' \in Seq(Shown)
      BY <1>4, <2>2 DEF StartSucceeds, TypeOK
    <2>4. watchers' \in Seq(Watchers) /\ HandleKnown'
      BY <1>3, <1>4, StartWatchingTypes DEF StartSucceeds
    <2> QED
      BY <1>4, <2>1, <2>3, <2>4
      DEF StartSucceeds, TypeOK, HandleKnown, shownVars, historyVars
  <1>5. ASSUME SignalSucceeds
        PROVE  TypeOK'
    <2>1. /\ running' \in SUBSET Sessions
          /\ log' \in [Sessions -> Seq(Turns \cup {0})]
          /\ base' \in [Sessions -> Nat]
      BY <1>2, <1>5, ServeAppends DEF SignalSucceeds
    <2>2. HandleKnown'
      BY <1>1, <1>5 DEF SignalSucceeds, HandleKnown
    <2> QED
      BY <1>5, <2>1, <2>2
      DEF SignalSucceeds, TypeOK, HandleKnown, shownVars, historyVars
  <1>6. ASSUME FirstAttemptFails
        PROVE  TypeOK'
    <2>1. /\ running' \in SUBSET Sessions
          /\ log' \in [Sessions -> Seq(Turns \cup {0})]
          /\ base' \in [Sessions -> Nat]
          /\ lost' \in [Turns -> Nat]
      BY <1>2, <1>6, FailsTypes DEF FirstAttemptFails
    <2> DEFINE task == [turn |-> submitting.turn,
                        kind |-> submitting.kind,
                        session |-> IF submitting.kind = "start" THEN submitting.session
                                    ELSE session_workflow_id,
                        agent |-> session_workflow_id,
                        generation |-> generation,
                        cancelled |-> FALSE,
                        state |-> "sleep"]
    <2>2. task \in Tasks
      BY <1>2, <1>3 DEF Tasks
    <2>3. retries' = [retries EXCEPT ![submitting.turn] = task]
      BY <1>6 DEF FirstAttemptFails
    <2> HIDE DEF task
    <2>4. retries' \in [Turns -> Tasks \cup {NONE}]
      BY <1>2, <2>2, <2>3 DEF TypeOK
    <2>5. HandleKnown'
      BY <1>1, <1>6 DEF FirstAttemptFails, HandleKnown
    <2> QED
      BY <1>6, <2>1, <2>4, <2>5
      DEF FirstAttemptFails, TypeOK, HandleKnown, shownVars
  <1> QED
    BY <1>4, <1>5, <1>6 DEF Attempt

\* The watcher a retry task starts joins the others.
LEMMA AnnounceTypes ==
  ASSUME TypeOK, NEW n \in Turns, retries[n] # NONE, Announce(n),
         UNCHANGED <<watch_handle, session_workflow_id, generation>>
  PROVE  /\ event_buffer' \in Seq(Shown)
         /\ watchers' \in Seq(Watchers)
         /\ HandleKnown'
  <1>1. /\ watchers \in Seq(Watchers) /\ event_buffer \in Seq(Shown)
        /\ HandleKnown /\ generation \in Nat
    BY DEF TypeOK, HandleKnown
  <1>2. CASE UNCHANGED <<event_buffer, watchers>>
    BY <1>1, <1>2 DEF HandleKnown
  <1>3. CASE /\ event_buffer' = Append(event_buffer, Configured(retries[n].session))
             /\ watchers' = Append(watchers, Watcher(retries[n].agent, generation))
    <2> DEFINE v == Watcher(retries[n].agent, generation)
               e == Configured(retries[n].session)
    <2>1. v \in Watchers /\ e \in Shown
      BY <1>1, CallTypes, NewWatcherTypes DEF Configured, Shown
    <2>2. watchers' = Append(watchers, v) /\ event_buffer' = Append(event_buffer, e)
      BY <1>3
    <2> HIDE DEF v, e
    <2>3. /\ watchers' \in Seq(Watchers) /\ event_buffer' \in Seq(Shown)
          /\ DOMAIN watchers \subseteq DOMAIN watchers'
          /\ \A u \in DOMAIN watchers : watchers'[u] = watchers[u]
      BY <1>1, <2>1, <2>2
    <2> QED
      BY <1>1, <2>3 DEF HandleKnown
  <1> QED
    BY <1>2, <1>3 DEF Announce

LEMMA RetryStepTypes ==
  ASSUME TypeOK, NEW n \in Turns, Retry(n)
  PROVE  TypeOK'
  <1> USE ClientAssumption
  <1>1. HandleKnown
    BY DEF TypeOK, HandleKnown
  <1>2. /\ retries[n] # NONE
        /\ retries[n].turn \in Turns /\ retries[n].session \in Sessions
    BY CallTypes DEF Retry, RetryCalls, RetryCancelled, RetryFails, RetrySucceeds,
       Retrying
  <1>3. ASSUME RetryFrame
        PROVE  /\ UNCHANGED <<session_workflow_id, started, generation, submit_cancel,
                              submitting, shownVars, submitted, addressed, closes,
                              overlapped>>
               /\ UNCHANGED <<watchers, watch_handle>> => HandleKnown'
    BY <1>1, <1>3 DEF RetryFrame, HandleKnown
  <1>4. ASSUME NEW st \in {"sleep", "call", "done", "cancelled", "stale"},
               RetryGoesTo(n, st)
        PROVE  retries' \in [Turns -> Tasks \cup {NONE}]
    BY <1>2, <1>4, RetryTypes DEF RetryGoesTo
  <1>5. ASSUME RetryCalls(n) \/ RetryCancelled(n)
        PROVE  TypeOK'
    <2>1. retries' \in [Turns -> Tasks \cup {NONE}]
      BY <1>4, <1>5 DEF RetryCalls, RetryCancelled
    <2> QED
      BY <1>3, <1>5, <2>1
      DEF RetryCalls, RetryCancelled, TypeOK, HandleKnown, serverVars, shownVars
  <1>6. ASSUME RetryFails(n)
        PROVE  TypeOK'
    <2>1. retries' \in [Turns -> Tasks \cup {NONE}]
      BY <1>4, <1>6 DEF RetryFails
    <2>2. /\ running' \in SUBSET Sessions
          /\ log' \in [Sessions -> Seq(Turns \cup {0})]
          /\ base' \in [Sessions -> Nat]
          /\ lost' \in [Turns -> Nat]
      BY <1>2, <1>6, FailsTypes DEF RetryFails
    <2> QED
      BY <1>3, <1>6, <2>1, <2>2 DEF RetryFails, TypeOK, HandleKnown, shownVars
  <1>7. ASSUME RetrySucceeds(n)
        PROVE  TypeOK'
    <2>1. retries' \in [Turns -> Tasks \cup {NONE}]
      BY <1>4, <1>7 DEF RetrySucceeds
    <2>2. /\ running' \in SUBSET Sessions
          /\ log' \in [Sessions -> Seq(Turns \cup {0})]
          /\ base' \in [Sessions -> Nat]
      BY <1>2, <1>7, ServeAppends DEF RetrySucceeds
    <2>3. /\ event_buffer' \in Seq(Shown)
          /\ watchers' \in Seq(Watchers)
          /\ HandleKnown'
      BY <1>2, <1>3, <1>7, AnnounceTypes DEF RetrySucceeds
    <2> QED
      BY <1>3, <1>7, <2>1, <2>2, <2>3 DEF RetrySucceeds, TypeOK, HandleKnown, shownVars
  <1> QED
    BY <1>5, <1>6, <1>7 DEF Retry

LEMMA WatchTypes ==
  ASSUME TypeOK, NEW w \in DOMAIN watchers, Watch(w)
  PROVE  TypeOK'
  <1>1. /\ watchers[w] \in Watchers
        /\ watchers[w].agent \in Sessions
        /\ watchers[w].generation \in Nat
        /\ watchers[w].since_index \in Nat
        /\ watchers[w].batch \in Seq(Shown)
    BY WatcherTypes DEF Watchers
  <1>2. Len(log[watchers[w].agent]) \in Nat /\ base[watchers[w].agent] \in Nat
    BY <1>1 DEF TypeOK
  <1>3. ASSUME Check(w)
        PROVE  TypeOK'
    <2> DEFINE v == watchers[w]
               from == base[v.agent] + v.since_index
               b == Events(v.agent, from, Len(log[v.agent]), v.generation)
               u == [v EXCEPT !.state = "checked",
                              !.since_index = Len(log[v.agent]) - base[v.agent],
                              !.batch = b]
    <2>1. /\ from \in Nat /\ from < Len(log[v.agent])
          /\ Len(log[v.agent]) - base[v.agent] \in Nat
      BY <1>1, <1>2, <1>3 DEF Check
    <2> HIDE DEF from
    <2>2. b \in Seq(Shown)
      BY <1>1, <1>2, <2>1, EventTypes
    <2>3. watchers' = [watchers EXCEPT ![w] = u]
      BY <1>3 DEF Check, from
    <2> HIDE DEF b
    <2>4. u \in Watchers /\ u.agent = v.agent /\ u.generation = v.generation
      BY <1>1, <1>2, <2>1, <2>2 DEF Watchers
    <2> HIDE DEF u
    <2>5. watchers' \in Seq(Watchers) /\ HandleKnown'
      BY <1>3, <2>3, <2>4, WatcherChanges DEF Check
    <2> QED
      BY <1>3, <2>5
      DEF Check, TypeOK, HandleKnown, serverVars, taskVars, shownVars, historyVars
  <1>4. ASSUME Extend(w)
        PROVE  TypeOK'
    <2> DEFINE u == [watchers[w] EXCEPT
                       !.state = IF watchers[w].aborted THEN "ended" ELSE "recv",
                       !.batch = <<>>]
    <2>1. watchers' = [watchers EXCEPT ![w] = u]
      BY <1>4 DEF Extend
    <2>2. <<>> \in Seq(Shown)
      OBVIOUS
    <2>3. u \in Watchers /\ u.agent = watchers[w].agent
          /\ u.generation = watchers[w].generation
      BY <1>1, <2>2 DEF Watchers
    <2> HIDE DEF u
    <2>4. watchers' \in Seq(Watchers) /\ HandleKnown'
      BY <1>4, <2>1, <2>3, WatcherChanges DEF Extend
    <2>5. event_buffer' \in Seq(Shown)
      BY <1>1, <1>4 DEF Extend, TypeOK
    <2> QED
      BY <1>4, <2>4, <2>5
      DEF Extend, TypeOK, HandleKnown, serverVars, taskVars, shownVars, historyVars
  <1>5. ASSUME Ends(w)
        PROVE  TypeOK'
    <2> DEFINE u == [watchers[w] EXCEPT !.state = "ended"]
    <2>1. watchers' = [watchers EXCEPT ![w] = u]
      BY <1>5 DEF Ends
    <2>2. u \in Watchers /\ u.agent = watchers[w].agent
          /\ u.generation = watchers[w].generation
      BY <1>1 DEF Watchers
    <2> HIDE DEF u
    <2>3. watchers' \in Seq(Watchers) /\ HandleKnown'
      BY <1>5, <2>1, <2>2, WatcherChanges DEF Ends
    <2> QED
      BY <1>5, <2>3
      DEF Ends, TypeOK, HandleKnown, serverVars, taskVars, shownVars, historyVars
  <1> QED
    BY <1>3, <1>4, <1>5 DEF Watch, Discard, Completed

LEMMA SwitchTypes ==
  ASSUME TypeOK, NEW s \in Sessions, SwitchSession(s)
  PROVE  TypeOK'
  <1>1. generation + 1 \in Nat
    BY DEF TypeOK
  <1>2. watchers' \in Seq(Watchers) /\ HandleKnown'
    BY <1>1, StartWatchingTypes DEF SwitchSession
  <1>3. fetching' = session_workflow_id' /\ initial' \in Seq(Shown)
    BY DEF SwitchSession
  <1>4. addressed' \in [Turns -> SUBSET Sessions]
    BY CallTypes DEF SwitchSession, TypeOK
  <1>5. event_buffer' \in Seq(Shown)
    BY DEF SwitchSession
  <1>6. overlapped' \in BOOLEAN /\ started' \in BOOLEAN
    BY DEF SwitchSession, TypeOK
  <1> QED
    BY <1>1, <1>2, <1>3, <1>4, <1>5, <1>6
    DEF SwitchSession, TypeOK, HandleKnown, serverVars, taskVars

LEMMA CloseTypes ==
  ASSUME TypeOK, NEW s \in Sessions, Close(s)
  PROVE  TypeOK'
  <1>1. closes' \in [Sessions -> Nat] /\ running' \in SUBSET Sessions
    BY DEF Close, TypeOK
  <1>2. HandleKnown /\ HandleKnown'
    BY DEF Close, TypeOK, HandleKnown
  <1> QED
    BY <1>1, <1>2 DEF Close, TypeOK, HandleKnown, taskVars, shownVars

LEMMA FetchTypes ==
  ASSUME TypeOK, FetchReturns
  PROVE  TypeOK'
  <1>1. fetching \in Sessions
    BY DEF FetchReturns, TypeOK
  <1>2. /\ base[fetching] \in Nat /\ Len(log[fetching]) \in Nat
        /\ generation \in Nat
    BY <1>1 DEF TypeOK
  <1>3. Events(fetching, base[fetching], Len(log[fetching]), generation) \in Seq(Shown)
    BY <1>1, <1>2, HistoryTypes
  <1>4. initial' \in Seq(Shown) /\ fetching' = NONE
    <2>1. <<>> \in Seq(Shown)
      OBVIOUS
    <2> QED
      BY <1>3, <2>1 DEF FetchReturns
  <1>5. HandleKnown /\ HandleKnown'
    BY DEF FetchReturns, TypeOK, HandleKnown
  <1> QED
    BY <1>4, <1>5
    DEF FetchReturns, TypeOK, HandleKnown, serverVars, taskVars, historyVars

LEMMA TypesAreKept ==
  ASSUME TypeOK, [Next]_vars
  PROVE  TypeOK'
  <1>1. CASE UNCHANGED vars
    BY <1>1 DEF vars, serverVars, taskVars, shownVars, historyVars, TypeOK
  <1> QED
    BY <1>1, SubmitTypes, AttemptTypes, RetryStepTypes, WatchTypes, SwitchTypes,
       CloseTypes, FetchTypes
    DEF Next

\* Every variable has its type in every reachable state; the handle names a
\* watcher of the session and of the generation on screen (start_watching
\* and switch_session, session.rs:244 and 232), and the slot of
\* submit_cancel holds the token of a turn.
THEOREM ClientTypes == Spec => []TypeOK
  <1>1. Init => TypeOK
    BY TypesFromTheStart
  <1>2. TypeOK /\ [Next]_vars => TypeOK'
    BY TypesAreKept
  <1> QED
    BY <1>1, <1>2, PTL DEF Spec

-----------------------------------------------------------------------------
(* Turns                                                                   *)

\* What is served adds one occurrence of its turn, and none of another.
LEMMA ServeAddsOne ==
  ASSUME TypeOK, NEW call, call.session \in Sessions, call.turn \in Turns,
         Serve(call), NEW n \in Turns
  PROVE  /\ n # call.turn => Occurrences(n)' = Occurrences(n)
         /\ IsFiniteSet(Occurrences(n)) =>
              /\ IsFiniteSet(Occurrences(n)')
              /\ Cardinality(Occurrences(n)) \in Nat
              /\ Cardinality(Occurrences(n)') \in Nat
              /\ Cardinality(Occurrences(n)') <= Cardinality(Occurrences(n)) + 1
  <1> DEFINE c == call.session
             new == <<c, Len(log[c]) + 1>>
             K == 1..(MaxTurns * (MaxLost + 1) + 1)
             In(l, o) == o[2] \in DOMAIN l[o[1]] /\ l[o[1]][o[2]] = n
  <1>1. /\ \A s \in Sessions : /\ log[s] \in Seq(Turns \cup {0})
                               /\ Len(log[s]) \in Nat
                               /\ s # c => log'[s] = log[s]
        /\ log'[c] \in Seq(Turns \cup {0})
        /\ Len(log'[c]) = Len(log[c]) + 1
        /\ log'[c][Len(log[c]) + 1] = call.turn
        /\ \A i \in DOMAIN log[c] : log'[c][i] = log[c][i]
    BY ServeAppends DEF TypeOK
  <1>2. Occurrences(n) = {o \in Sessions \X K : In(log, o)}
    BY DEF Occurrences
  <1>3. Occurrences(n)' = {o \in Sessions \X K : In(log', o)}
    BY DEF Occurrences
  <1> HIDE DEF K
  <1>4. ASSUME NEW s \in Sessions, NEW k \in K, <<s, k>> # new \/ n # call.turn
        PROVE  In(log', <<s, k>>) <=> In(log, <<s, k>>)
    <2>1. CASE s # c
      BY <1>1, <2>1
    <2>2. CASE s = c
      <3>1. /\ DOMAIN log[c] = 1..Len(log[c])
            /\ DOMAIN log'[c] = 1..(Len(log[c]) + 1)
        BY <1>1
      <3>2. CASE k = Len(log[c]) + 1
        BY <1>1, <1>4, <2>2, <3>1, <3>2
      <3>3. CASE k # Len(log[c]) + 1
        <4>1. k \in DOMAIN log'[c] <=> k \in DOMAIN log[c]
          BY <1>1, <3>1, <3>3
        <4> QED
          BY <1>1, <2>2, <4>1
      <3> QED
        BY <3>2, <3>3
    <2> QED
      BY <2>1, <2>2
  <1>5. ASSUME NEW o \in Sessions \X K
        PROVE  \E s \in Sessions, k \in K : o = <<s, k>>
    BY <1>5
  <1> HIDE DEF In
  <1>6. n # call.turn => Occurrences(n)' = Occurrences(n)
    BY <1>2, <1>3, <1>4, <1>5
  <1>7. Occurrences(n)' \subseteq Occurrences(n) \cup {new}
    BY <1>2, <1>3, <1>4, <1>5
  <1>8. ASSUME IsFiniteSet(Occurrences(n))
        PROVE  /\ IsFiniteSet(Occurrences(n)')
               /\ Cardinality(Occurrences(n)) \in Nat
               /\ Cardinality(Occurrences(n)') \in Nat
               /\ Cardinality(Occurrences(n)') <= Cardinality(Occurrences(n)) + 1
    <2> DEFINE more == Occurrences(n) \cup {new}
    <2>1. /\ IsFiniteSet(more)
          /\ Cardinality(more) = IF new \in Occurrences(n)
                                 THEN Cardinality(Occurrences(n))
                                 ELSE Cardinality(Occurrences(n)) + 1
      BY <1>8, FS_AddElement
    <2>2. /\ IsFiniteSet(Occurrences(n)')
          /\ Cardinality(Occurrences(n)') <= Cardinality(more)
      BY <1>7, <2>1, FS_Subset
    <2>3. /\ Cardinality(Occurrences(n)) \in Nat
          /\ Cardinality(Occurrences(n)') \in Nat
      BY <1>8, <2>2, FS_CardinalityType
    <2> HIDE DEF more
    <2> QED
      BY <2>1, <2>2, <2>3
  <1> QED
    BY <1>6, <1>8

LEMMA SameOccurrences ==
  ASSUME UNCHANGED log
  PROVE  \A n \in Turns : Occurrences(n)' = Occurrences(n)
  BY DEF Occurrences

LEMMA ExecutionsGrow ==
  ASSUME TypeOK, running \subseteq running', UNCHANGED closes
  PROVE  \A s \in Sessions :
           Executions(s) \in Nat /\ Executions(s)' \in Nat /\ Executions(s) <= Executions(s)'
  <1>1. \A s \in Sessions : closes[s] \in Nat
    BY DEF TypeOK
  <1> QED
    BY <1>1 DEF Executions

\* What is true of the starts stays true while executions are added.
LEMMA StartedOnceStays ==
  ASSUME TypeOK, TurnInv, running \subseteq running', UNCHANGED closes,
         NEW n \in Turns, Occurrences(n)' = Occurrences(n),
         NEW call, call.session \in Sessions, StartedOnce(n, call), call.kind = "start"
  PROVE  Cardinality(Occurrences(n)') <= Executions(call.session)'
  <1>1. /\ Cardinality(Occurrences(n)) \in Nat
        /\ Cardinality(Occurrences(n)) <= Executions(call.session)
    BY FS_CardinalityType DEF TurnInv, LoggedOnce, StartedOnce
  <1>2. /\ Executions(call.session) \in Nat /\ Executions(call.session)' \in Nat
        /\ Executions(call.session) <= Executions(call.session)'
    BY ExecutionsGrow
  <1> QED
    BY <1>1, <1>2

\* Serving a call whose turn is under way keeps what is known of the turns.
LEMMA ServeKeepsTurns ==
  ASSUME TypeOK, TurnInv,
         NEW call, call.session \in Sessions, call.turn \in Turns, Serve(call),
         call.turn <= submitted, call.session \in addressed[call.turn],
         Underway(call.turn), StartedOnce(call.turn, call),
         UNCHANGED <<submitted, addressed, closes>>
  PROVE  /\ LogIsOfSubmitted'
         /\ TurnsStayWithTheirSession'
         /\ running \subseteq running' /\ call.session \in running'
         /\ \A n \in Turns : n # call.turn => Occurrences(n)' = Occurrences(n)
         /\ IsFiniteSet(Occurrences(call.turn)')
         /\ Cardinality(Occurrences(call.turn)') \in Nat
         /\ Cardinality(Occurrences(call.turn)') <= lost[call.turn] + 1
         /\ call.kind = "start" =>
              Cardinality(Occurrences(call.turn)') <= Executions(call.session)'
  <1> DEFINE c == call.session
             t == call.turn
  <1>1. /\ running' = running \cup {c}
        /\ log' \in [Sessions -> Seq(Turns \cup {0})]
        /\ Len(log'[c]) = Len(log[c]) + 1
        /\ log'[c][Len(log[c]) + 1] = t
        /\ \A s \in Sessions :
             /\ s # c => log'[s] = log[s]
             /\ Len(log[s]) \in Nat /\ Len(log'[s]) \in Nat
             /\ \A i \in DOMAIN log[s] : log'[s][i] = log[s][i]
    BY ServeAppends
  <1>2. \A s \in Sessions : /\ DOMAIN log[s] = 1..Len(log[s])
                            /\ DOMAIN log'[s] = 1..Len(log'[s])
    BY <1>1 DEF TypeOK
  <1>3. ASSUME NEW s \in Sessions, NEW i \in DOMAIN log'[s]
        PROVE  \/ s = c /\ log'[s][i] = t
               \/ i \in DOMAIN log[s] /\ log'[s][i] = log[s][i]
    <2>1. CASE s # c
      BY <1>1, <1>3, <2>1
    <2>2. CASE s = c
      <3>1. i \in 1..(Len(log[c]) + 1)
        BY <1>1, <1>2, <1>3, <2>2
      <3>2. i = Len(log[c]) + 1 \/ i \in 1..Len(log[c])
        BY <1>1, <3>1
      <3> QED
        BY <1>1, <1>2, <2>2, <3>2
    <2> QED
      BY <2>1, <2>2
  <1>4. LogIsOfSubmitted'
    BY <1>3 DEF TurnInv, LogIsOfSubmitted
  <1>5. TurnsStayWithTheirSession'
    BY <1>3 DEF TurnInv, TurnsStayWithTheirSession
  <1>6. IsFiniteSet(Occurrences(t)) /\ Cardinality(Occurrences(t)) <= lost[t]
    BY DEF TurnInv, LoggedOnce, TypeOK
  <1>7. /\ \A n \in Turns : n # t => Occurrences(n)' = Occurrences(n)
        /\ IsFiniteSet(Occurrences(t)')
        /\ Cardinality(Occurrences(t)) \in Nat
        /\ Cardinality(Occurrences(t)') \in Nat
        /\ Cardinality(Occurrences(t)') <= Cardinality(Occurrences(t)) + 1
    BY <1>6, ServeAddsOne
  <1>8. lost[t] \in Nat
    BY DEF TypeOK
  <1>9. ASSUME call.kind = "start"
        PROVE  Cardinality(Occurrences(t)') <= Executions(c)'
    <2>1. c \notin running
      BY <1>9 DEF Serve, CanServe
    <2>2. closes[c] \in Nat
      BY DEF TypeOK
    <2>3. Executions(c) = closes[c] /\ Executions(c)' = closes[c] + 1
      BY <1>1, <2>1, <2>2 DEF Executions
    <2> QED
      BY <1>7, <1>9, <2>2, <2>3 DEF StartedOnce
  <1> QED
    BY <1>1, <1>4, <1>5, <1>6, <1>7, <1>8, <1>9

LEMMA TurnsFromTheStart ==
  ASSUME Init
  PROVE  TurnInv
  <1> USE ClientAssumption
  <1>1. PICK resumed \in BOOLEAN : Create(resumed)
    BY DEF Init
  <1>2. /\ submitting = NONE /\ submitted = 0
        /\ \A n \in Turns : retries[n] = NONE /\ lost[n] = 0
    BY DEF Init
  <1>3. \A s \in Sessions : \A i \in DOMAIN log[s] : log[s][i] = 0
    BY <1>1 DEF Create
  <1>4. ASSUME NEW n \in Turns
        PROVE  Occurrences(n) = {}
    <2>1. n # 0
      BY DEF Turns
    <2>2. ASSUME NEW o \in Occurrences(n)
          PROVE  FALSE
      <3>1. o[1] \in Sessions /\ o[2] \in DOMAIN log[o[1]] /\ log[o[1]][o[2]] = n
        BY <2>2 DEF Occurrences
      <3> QED
        BY <1>3, <2>1, <3>1
    <2> QED
      BY <2>2
  <1>5. LoggedOnce
    BY <1>2, <1>4, FS_EmptySet DEF LoggedOnce
  <1>6. StartsOnce /\ OneSubmit
    BY <1>2 DEF StartsOnce, OneSubmit
  <1>7. LogIsOfSubmitted /\ TurnsStayWithTheirSession
    BY <1>2, <1>3 DEF LogIsOfSubmitted, TurnsStayWithTheirSession
  <1> QED
    BY <1>5, <1>6, <1>7 DEF TurnInv

\* Retry tasks stay what they are, and none that ended goes on.
TasksGoOn ==
  \A n \in Turns :
    /\ retries'[n] = NONE <=> retries[n] = NONE
    /\ retries[n] # NONE =>
         /\ retries'[n].turn = retries[n].turn
         /\ retries'[n].kind = retries[n].kind
         /\ retries'[n].session = retries[n].session
         /\ retries'[n].generation = retries[n].generation
         /\ retries'[n].state \in {"sleep", "call"} => retries[n].state \in {"sleep", "call"}

LEMMA CancelGoesOn ==
  ASSUME TypeOK, NEW t \in Turns, retries[t] # NONE,
         retries' = [retries EXCEPT ![t].cancelled = TRUE]
  PROVE  TasksGoOn
  <1> USE ClientAssumption
  <1>1. retries \in [Turns -> Tasks \cup {NONE}] /\ retries[t] \in Tasks
    BY CallTypes DEF TypeOK
  <1> DEFINE r == [retries[t] EXCEPT !.cancelled = TRUE]
  <1>2. /\ r \in Tasks
        /\ r.turn = retries[t].turn /\ r.kind = retries[t].kind
        /\ r.session = retries[t].session /\ r.generation = retries[t].generation
        /\ r.state = retries[t].state
    BY <1>1 DEF Tasks
  <1>3. retries' = [retries EXCEPT ![t] = r]
    OBVIOUS
  <1> HIDE DEF r
  <1>4. retries'[t] = r /\ \A n \in Turns : n # t => retries'[n] = retries[n]
    BY <1>1, <1>3
  <1>5. r # NONE
    BY <1>2
  <1> QED
    BY <1>2, <1>4, <1>5 DEF TasksGoOn

\* The state a retry task goes to.
LEMMA StateGoesTo ==
  ASSUME TypeOK, NEW t \in Turns, retries[t] # NONE,
         NEW st \in {"sleep", "call", "done", "cancelled", "stale"},
         retries' = [retries EXCEPT ![t].state = st]
  PROVE  /\ \A n \in Turns : n # t => retries'[n] = retries[n]
         /\ retries'[t] # NONE
         /\ retries'[t].turn = retries[t].turn
         /\ retries'[t].kind = retries[t].kind
         /\ retries'[t].session = retries[t].session
         /\ retries'[t].generation = retries[t].generation
         /\ retries'[t].state = st
  <1> USE ClientAssumption
  <1>1. retries \in [Turns -> Tasks \cup {NONE}] /\ retries[t] \in Tasks
    BY CallTypes DEF TypeOK
  <1> DEFINE r == [retries[t] EXCEPT !.state = st]
  <1>2. /\ r \in Tasks
        /\ r.turn = retries[t].turn /\ r.kind = retries[t].kind
        /\ r.session = retries[t].session /\ r.generation = retries[t].generation
        /\ r.state = st
    BY <1>1 DEF Tasks
  <1>3. retries' = [retries EXCEPT ![t] = r]
    OBVIOUS
  <1> HIDE DEF r
  <1>4. retries'[t] = r /\ \A n \in Turns : n # t => retries'[n] = retries[n]
    BY <1>1, <1>3
  <1>5. r # NONE
    BY <1>2
  <1> QED
    BY <1>2, <1>4, <1>5

\* Steps that give nobody a turn keep the invariant of the turns.
LEMMA QuietKeepsTurns ==
  ASSUME TypeOK, TurnInv, TasksGoOn,
         UNCHANGED <<running, log, lost, closes, submitted>>,
         submitting' \in {NONE, submitting},
         \A n \in Turns : addressed[n] \subseteq addressed'[n],
         submitting' # NONE => session_workflow_id' \in addressed'[submitting.turn]
  PROVE  TurnInv'
  <1>1. \A n \in Turns : Occurrences(n)' = Occurrences(n)
    BY SameOccurrences
  <1>2. OneSubmit'
    <2>1. submitting' # NONE => submitting' = submitting /\ submitting.turn \in Turns
      BY CallTypes
    <2>2. submitting' # NONE =>
            /\ submitting'.turn = submitted'
            /\ retries'[submitting'.turn] = NONE
            /\ session_workflow_id' \in addressed'[submitting'.turn]
            /\ submitting'.session \in addressed'[submitting'.turn]
      BY <2>1 DEF TurnInv, OneSubmit, TasksGoOn
    <2>3. \A n \in Turns : retries'[n] # NONE =>
            /\ n <= submitted'
            /\ retries'[n].turn = n
            /\ retries'[n].session \in addressed'[n]
      BY DEF TurnInv, OneSubmit, TasksGoOn
    <2> QED
      BY <2>2, <2>3 DEF OneSubmit
  <1>3. LoggedOnce'
    <2>1. ASSUME NEW n \in Turns
          PROVE  Underway(n)' => Underway(n)
      BY DEF Underway, TasksGoOn
    <2>2. ASSUME NEW n \in Turns
          PROVE  Cardinality(Occurrences(n)) <= lost[n] + (IF Underway(n)' THEN 0 ELSE 1)
      <3>1. Cardinality(Occurrences(n)) <= lost[n] + (IF Underway(n) THEN 0 ELSE 1)
            /\ IsFiniteSet(Occurrences(n))
        BY DEF TurnInv, LoggedOnce
      <3>2. Cardinality(Occurrences(n)) \in Nat /\ lost[n] \in Nat
        BY <3>1, FS_CardinalityType DEF TypeOK
      <3> QED
        BY <2>1, <3>1, <3>2
    <2> QED
      BY <1>1, <2>2 DEF TurnInv, LoggedOnce
  <1>4. StartsOnce'
    <2>1. ASSUME submitting' # NONE
          PROVE  StartedOnce(submitting.turn, submitting)'
      <3>1. StartedOnce(submitting.turn, submitting) /\ submitting.turn \in Turns
        BY <2>1, CallTypes DEF TurnInv, StartsOnce
      <3> QED
        BY <1>1, <2>1, <3>1 DEF StartedOnce, Executions
    <2>2. ASSUME NEW n \in Turns, retries'[n] # NONE
          PROVE  StartedOnce(n, retries[n])'
      <3>1. /\ StartedOnce(n, retries[n])
            /\ retries'[n].kind = retries[n].kind /\ retries'[n].session = retries[n].session
        BY <2>2 DEF TurnInv, StartsOnce, TasksGoOn
      <3> QED
        BY <1>1, <3>1 DEF StartedOnce, Executions
    <2> QED
      BY <2>1, <2>2 DEF StartsOnce
  <1>5. LogIsOfSubmitted'
    BY DEF TurnInv, LogIsOfSubmitted
  <1>6. TurnsStayWithTheirSession'
    <2>1. ASSUME NEW s \in Sessions, NEW i \in DOMAIN log[s], log[s][i] # 0
          PROVE  s \in addressed'[log[s][i]]
      BY <2>1 DEF TypeOK, TurnInv, TurnsStayWithTheirSession
    <2> QED
      BY <2>1 DEF TurnsStayWithTheirSession
  <1> QED
    BY <1>2, <1>3, <1>4, <1>5, <1>6 DEF TurnInv

LEMMA SubmitKeepsTurns ==
  ASSUME TypeOK, TurnInv, Submit
  PROVE  TurnInv'
  <1> USE ClientAssumption
  <1>1. ASSUME SubmitUserTurn
        PROVE  TurnInv'
    <2>1. PICK m \in Turns : m = submitted + 1
      BY <1>1 DEF SubmitUserTurn, TypeOK, Turns
    <2>2. /\ submitting = NONE /\ submitted \in Nat /\ submitted' = m
          /\ submitting' = [turn |-> m,
                            kind |-> IF started THEN "signal" ELSE "start",
                            session |-> session_workflow_id]
          /\ addressed' = [addressed EXCEPT ![m] = {session_workflow_id}]
          /\ UNCHANGED <<log, running, closes, retries, lost, session_workflow_id>>
      BY <1>1, <2>1 DEF SubmitUserTurn, serverVars, TypeOK
    <2>3. \A n \in Turns : Occurrences(n)' = Occurrences(n)
      BY <2>2, SameOccurrences
    <2>4. \A n \in Turns : n \in Nat
      BY DEF Turns
    <2>5. \A n \in Turns : n <= submitted => n # m
      BY <2>1, <2>2, <2>4
    <2>6. /\ addressed'[m] = {session_workflow_id}
          /\ \A n \in Turns : n # m => addressed'[n] = addressed[n]
      BY <2>2 DEF TypeOK
    <2>7. submitting' # NONE /\ submitting'.turn = m /\ submitting'.session = session_workflow_id
      <3>1. submitting' \in Submissions
        BY <2>2 DEF Submissions, Kinds, TypeOK
      <3> QED
        BY <2>2, <3>1
    <2>8. OneSubmit'
      <3>1. retries[m] = NONE
        BY <2>1, <2>5 DEF TurnInv, OneSubmit
      <3>2. ASSUME NEW n \in Turns, retries[n] # NONE
            PROVE  n <= submitted' /\ addressed'[n] = addressed[n]
        <4>1. n <= submitted
          BY <3>2 DEF TurnInv, OneSubmit
        <4> QED
          BY <2>1, <2>2, <2>4, <2>5, <2>6, <4>1
      <3> QED
        BY <2>2, <2>6, <2>7, <3>1, <3>2 DEF TurnInv, OneSubmit
    <2>9. LoggedOnce'
      <3>1. ASSUME NEW n \in Turns
            PROVE  Underway(n)' => Underway(n)
        <4>1. n > m => n > submitted
          BY <2>1, <2>2, <2>4
        <4>2. m > submitted
          BY <2>1, <2>2
        <4> QED
          BY <2>2, <2>7, <4>1, <4>2 DEF Underway
      <3>2. \A n \in Turns : n > m => n > submitted
        BY <2>1, <2>2, <2>4
      <3>3. ASSUME NEW n \in Turns
            PROVE  Cardinality(Occurrences(n)) <= lost[n] + (IF Underway(n)' THEN 0 ELSE 1)
        <4>1. Cardinality(Occurrences(n)) <= lost[n] + (IF Underway(n) THEN 0 ELSE 1)
              /\ IsFiniteSet(Occurrences(n))
          BY DEF TurnInv, LoggedOnce
        <4>2. Cardinality(Occurrences(n)) \in Nat /\ lost[n] \in Nat
          BY <4>1, FS_CardinalityType DEF TypeOK
        <4> QED
          BY <3>1, <4>1, <4>2
      <3> QED
        BY <2>2, <2>3, <3>2, <3>3 DEF TurnInv, LoggedOnce
    <2>10. StartsOnce'
      <3>1. Occurrences(m) = {}
        <4>1. ASSUME NEW o \in Occurrences(m)
              PROVE  FALSE
          <5>1. o[1] \in Sessions /\ o[2] \in DOMAIN log[o[1]] /\ log[o[1]][o[2]] = m
            BY <4>1 DEF Occurrences
          <5>2. m <= submitted
            BY <5>1 DEF TurnInv, LogIsOfSubmitted
          <5> QED
            BY <2>1, <2>2, <5>2
        <4> QED
          BY <4>1
      <3>2. Cardinality(Occurrences(m)) = 0
        BY <3>1, FS_EmptySet
      <3>3. StartedOnce(submitting.turn, submitting)'
        <4>1. session_workflow_id \in Sessions
          BY DEF TypeOK
        <4>2. 0 <= Executions(session_workflow_id)'
          BY <2>2, <4>1, ExecutionsGrow
        <4> QED
          BY <2>2, <2>3, <2>7, <3>2, <4>2 DEF StartedOnce
      <3>4. ASSUME NEW n \in Turns, retries[n] # NONE
            PROVE  StartedOnce(n, retries[n])'
        <4>1. StartedOnce(n, retries[n])
          BY <3>4 DEF TurnInv, StartsOnce
        <4> QED
          BY <2>2, <2>3, <4>1 DEF StartedOnce, Executions
      <3> QED
        BY <2>2, <3>3, <3>4 DEF StartsOnce
    <2>11. LogIsOfSubmitted'
      <3>1. \A s \in Sessions : \A i \in DOMAIN log[s] :
              log[s][i] \in Nat /\ log[s][i] <= submitted
        BY DEF TypeOK, Turns, TurnInv, LogIsOfSubmitted
      <3> QED
        BY <2>1, <2>2, <3>1 DEF LogIsOfSubmitted
    <2>12. TurnsStayWithTheirSession'
      <3>1. ASSUME NEW s \in Sessions, NEW i \in DOMAIN log[s], log[s][i] # 0
            PROVE  s \in addressed'[log[s][i]]
        <4>1. log[s][i] \in Turns /\ log[s][i] <= submitted /\ s \in addressed[log[s][i]]
          BY <3>1 DEF TypeOK, TurnInv, LogIsOfSubmitted, TurnsStayWithTheirSession
        <4> QED
          BY <2>5, <2>6, <4>1
      <3> QED
        BY <2>2, <3>1 DEF TurnsStayWithTheirSession
    <2> QED
      BY <2>8, <2>9, <2>10, <2>11, <2>12 DEF TurnInv
  <1>2. ASSUME Interrupt
        PROVE  TurnInv'
    <2>1. submit_cancel \in Turns
      BY <1>2 DEF Interrupt, TypeOK
    <2>2. TasksGoOn
      <3>1. CASE retries[submit_cancel] = NONE
        BY <1>2, <3>1 DEF Interrupt, TasksGoOn
      <3>2. CASE retries[submit_cancel] # NONE
        BY <1>2, <2>1, <3>2, CancelGoesOn DEF Interrupt
      <3> QED
        BY <3>1, <3>2
    <2> QED
      BY <1>2, <2>2, QuietKeepsTurns
      DEF Interrupt, serverVars, historyVars, TurnInv, OneSubmit
  <1> QED
    BY <1>1, <1>2 DEF Submit

\* A submit that succeeds: the attempt was the last of its turn.
LEMMA AttemptSucceedsKeepsTurns ==
  ASSUME TypeOK, TurnInv, submitting # NONE, Serve(submitting),
         submitting' = NONE,
         UNCHANGED <<retries, lost, closes, submitted, addressed>>
  PROVE  TurnInv'
  <1> USE ClientAssumption
  <1>1. PICK call \in Submissions : call = submitting
    BY CallTypes
  <1>2. PICK t \in Turns : t = call.turn
    BY <1>1 DEF Submissions
  <1>3. /\ call.session \in Sessions /\ t = submitted /\ retries[t] = NONE
        /\ call.session \in addressed[t]
        /\ Underway(t) /\ StartedOnce(t, call)
    BY <1>1, <1>2, CallTypes DEF TurnInv, OneSubmit, StartsOnce, Underway
  <1>4. t <= submitted /\ t \in Nat
    BY <1>2, <1>3 DEF Turns
  <1>5. /\ LogIsOfSubmitted'
        /\ TurnsStayWithTheirSession'
        /\ running \subseteq running' /\ call.session \in running'
        /\ \A n \in Turns : n # t => Occurrences(n)' = Occurrences(n)
        /\ IsFiniteSet(Occurrences(t)')
        /\ Cardinality(Occurrences(t)') \in Nat
        /\ Cardinality(Occurrences(t)') <= lost[t] + 1
    BY <1>1, <1>2, <1>3, <1>4, ServeKeepsTurns
  <1>6. ASSUME NEW n \in Turns
        PROVE  /\ IsFiniteSet(Occurrences(n)')
               /\ Cardinality(Occurrences(n)') <= lost[n] + (IF Underway(n)' THEN 0 ELSE 1)
    <2>1. CASE n = t
      <3>1. ~(t > submitted)
        BY <1>3, <1>4
      <3>2. ~Underway(t)'
        BY <1>3, <3>1 DEF Underway
      <3> QED
        BY <1>5, <2>1, <3>2
    <2>2. CASE n # t
      <3>1. Underway(n)' = Underway(n)
        BY <1>1, <1>2, <2>2 DEF Underway
      <3> QED
        BY <1>5, <2>2, <3>1 DEF TurnInv, LoggedOnce
    <2> QED
      BY <2>1, <2>2
  <1>7. LoggedOnce'
    BY <1>6 DEF TurnInv, LoggedOnce
  <1>8. StartsOnce'
    <2>1. ASSUME NEW n \in Turns, retries[n] # NONE
          PROVE  StartedOnce(n, retries[n])'
      <3>1. n # t /\ StartedOnce(n, retries[n]) /\ retries[n].session \in Sessions
        BY <1>3, <2>1, CallTypes DEF TurnInv, StartsOnce
      <3> QED
        BY <1>5, <3>1, StartedOnceStays DEF StartedOnce
    <2> QED
      BY <2>1 DEF StartsOnce
  <1>9. OneSubmit'
    BY DEF TurnInv, OneSubmit
  <1> QED
    BY <1>5, <1>7, <1>8, <1>9 DEF TurnInv

LEMMA AttemptKeepsTurns ==
  ASSUME TypeOK, TurnInv, Attempt
  PROVE  TurnInv'
  <1> USE ClientAssumption
  <1>1. ASSUME StartSucceeds \/ SignalSucceeds
        PROVE  TurnInv'
    BY <1>1, AttemptSucceedsKeepsTurns DEF StartSucceeds, SignalSucceeds, historyVars
  <1>2. ASSUME FirstAttemptFails
        PROVE  TurnInv'
    <2>1. PICK call \in Submissions : call = submitting
      BY <1>2, CallTypes DEF FirstAttemptFails
    <2>2. PICK t \in Turns : t = call.turn
      BY <2>1 DEF Submissions
    <2>3. /\ submitting # NONE
          /\ call.session \in Sessions /\ t = submitted /\ retries[t] = NONE
          /\ call.session \in addressed[t] /\ session_workflow_id \in addressed[t]
          /\ Underway(t) /\ StartedOnce(t, call)
      BY <1>2, <2>1, <2>2, CallTypes
      DEF TurnInv, OneSubmit, StartsOnce, Underway, FirstAttemptFails
    <2>4. t <= submitted /\ t \in Nat /\ ~(t > submitted)
      BY <2>2, <2>3 DEF Turns
    <2>5. /\ submitting' = NONE
          /\ UNCHANGED <<submitted, addressed, closes>>
          /\ Fails(call)
      BY <1>2, <2>1 DEF FirstAttemptFails
    <2> DEFINE to == IF call.kind = "start" THEN call.session ELSE session_workflow_id
               task == [turn |-> t, kind |-> call.kind, session |-> to,
                        agent |-> session_workflow_id, generation |-> generation,
                        cancelled |-> FALSE, state |-> "sleep"]
    <2>6. retries' = [retries EXCEPT ![t] = task]
      BY <1>2, <2>1, <2>2 DEF FirstAttemptFails
    <2>7. /\ task # NONE
          /\ task.turn = t /\ task.kind = call.kind /\ task.state = "sleep"
          /\ task.session = to /\ to \in addressed[t]
          /\ call.kind = "start" => to = call.session
      <3>1. task \in Tasks
        BY <2>1, <2>2, <2>3 DEF Tasks, Submissions, TypeOK
      <3> QED
        BY <2>3, <3>1
    <2> HIDE DEF task, to
    <2>8. retries'[t] = task /\ \A n \in Turns : n # t => retries'[n] = retries[n]
      BY <2>6 DEF TypeOK
    <2>9. OneSubmit'
      BY <2>4, <2>5, <2>7, <2>8 DEF TurnInv, OneSubmit
    <2>10. /\ Underway(t)'
           /\ \A n \in Turns : n # t => (Underway(n)' = Underway(n))
      BY <2>1, <2>2, <2>5, <2>7, <2>8 DEF Underway
    <2>11. CASE UNCHANGED <<serverVars, lost>>
      <3>1. \A n \in Turns : Occurrences(n)' = Occurrences(n)
        BY <2>11, SameOccurrences DEF serverVars
      <3>2. LoggedOnce'
        BY <2>3, <2>5, <2>10, <2>11, <3>1 DEF TurnInv, LoggedOnce
      <3>3. ASSUME NEW n \in Turns, retries'[n] # NONE
            PROVE  StartedOnce(n, retries[n])'
        <4>1. CASE n = t
          BY <2>3, <2>5, <2>7, <2>8, <2>11, <3>1, <4>1
          DEF StartedOnce, Executions, serverVars
        <4>2. CASE n # t
          BY <2>5, <2>8, <2>11, <3>1, <3>3, <4>2
          DEF TurnInv, StartsOnce, StartedOnce, Executions, serverVars
        <4> QED
          BY <4>1, <4>2
      <3>4. StartsOnce'
        BY <2>5, <3>3 DEF StartsOnce
      <3>5. LogIsOfSubmitted' /\ TurnsStayWithTheirSession'
        BY <2>5, <2>11 DEF TurnInv, LogIsOfSubmitted, TurnsStayWithTheirSession, serverVars
      <3> QED
        BY <2>9, <3>2, <3>4, <3>5 DEF TurnInv
    <2>12. CASE Serve(call) /\ lost' = [lost EXCEPT ![call.turn] = @ + 1]
      <3>1. /\ LogIsOfSubmitted'
            /\ TurnsStayWithTheirSession'
            /\ running \subseteq running' /\ call.session \in running'
            /\ \A n \in Turns : n # t => Occurrences(n)' = Occurrences(n)
            /\ IsFiniteSet(Occurrences(t)')
            /\ Cardinality(Occurrences(t)') <= lost[t] + 1
            /\ call.kind = "start" =>
                 Cardinality(Occurrences(t)') <= Executions(call.session)'
        BY <2>1, <2>2, <2>3, <2>4, <2>5, <2>12, ServeKeepsTurns
      <3>2. lost'[t] = lost[t] + 1 /\ \A n \in Turns : n # t => lost'[n] = lost[n]
        BY <2>2, <2>12 DEF TypeOK
      <3>3. LoggedOnce'
        <4>1. /\ IsFiniteSet(Occurrences(t)')
              /\ Cardinality(Occurrences(t)') <= lost'[t] + (IF Underway(t)' THEN 0 ELSE 1)
          BY <2>10, <3>1, <3>2 DEF TypeOK
        <4> QED
          BY <2>4, <2>5, <2>10, <3>1, <3>2, <4>1 DEF TurnInv, LoggedOnce
      <3>4. ASSUME NEW n \in Turns, retries'[n] # NONE
            PROVE  StartedOnce(n, retries[n])'
        <4>1. CASE n = t
          BY <2>7, <2>8, <3>1, <4>1 DEF StartedOnce
        <4>2. CASE n # t
          <5>1. /\ retries'[n] = retries[n] /\ retries[n].session \in Sessions
                /\ StartedOnce(n, retries[n])
            BY <2>8, <3>4, <4>2, CallTypes DEF TurnInv, StartsOnce
          <5> QED
            BY <2>5, <3>1, <4>2, <5>1, StartedOnceStays DEF StartedOnce
        <4> QED
          BY <4>1, <4>2
      <3>5. StartsOnce'
        BY <2>5, <3>4 DEF StartsOnce
      <3> QED
        BY <2>9, <3>1, <3>3, <3>5 DEF TurnInv
    <2> QED
      BY <2>5, <2>11, <2>12 DEF Fails
  <1> QED
    BY <1>1, <1>2 DEF Attempt

LEMMA RetryKeepsTurns ==
  ASSUME TypeOK, TurnInv, NEW t \in Turns, Retry(t)
  PROVE  TurnInv'
  <1> USE ClientAssumption
  <1>1. retries[t] # NONE
    BY DEF Retry, RetryCalls, RetryCancelled, RetryFails, RetrySucceeds, Retrying
  <1>2. ASSUME RetryCalls(t) \/ RetryCancelled(t)
        PROVE  TurnInv'
    <2>1. PICK st \in {"stale", "call", "cancelled"} :
            retries' = [retries EXCEPT ![t].state = st]
      BY <1>2 DEF RetryCalls, RetryCancelled, RetryGoesTo
    <2>2. retries[t].state = "sleep"
      BY <1>2 DEF RetryCalls, RetryCancelled, Retrying
    <2>3. TasksGoOn
      BY <1>1, <2>1, <2>2, StateGoesTo DEF TasksGoOn
    <2>4. UNCHANGED <<running, log, lost, closes, submitted, submitting, addressed,
                      session_workflow_id>>
      BY <1>2 DEF RetryCalls, RetryCancelled, RetryFrame, serverVars
    <2> QED
      BY <2>3, <2>4, QuietKeepsTurns DEF TurnInv, OneSubmit
  <1>3. ASSUME RetryFails(t) \/ RetrySucceeds(t)
        PROVE  TurnInv'
    <2>1. PICK call \in Tasks : call = retries[t]
      BY <1>1, CallTypes
    <2>2. /\ call.turn = t /\ call.state = "call"
          /\ call.session \in Sessions /\ call.session \in addressed[t]
          /\ t <= submitted /\ submitted \in Nat /\ ~(t > submitted)
          /\ submitting # NONE => submitting.turn # t
          /\ Underway(t) /\ StartedOnce(t, call)
      <3>1. /\ call.turn = t /\ call.state = "call"
            /\ call.session \in Sessions /\ call.session \in addressed[t]
            /\ t <= submitted /\ submitted \in Nat /\ t \in Nat
        <4>1. call.state = "call"
          BY <1>3, <2>1 DEF RetryFails, RetrySucceeds, Retrying
        <4>2. /\ call.turn = t /\ call.session \in addressed[t] /\ t <= submitted
          BY <1>1, <2>1 DEF TurnInv, OneSubmit
        <4> QED
          BY <2>1, <4>1, <4>2 DEF TypeOK, Turns, Tasks
      <3> QED
        BY <1>1, <2>1, <3>1 DEF TurnInv, OneSubmit, StartsOnce, Underway
    <2>3. PICK st \in {"cancelled", "sleep", "done"} :
            /\ retries' = [retries EXCEPT ![t].state = st]
            /\ st = "done" <=> RetrySucceeds(t)
      <3>1. RetryFails(t) => Fails(retries[t]) /\ \E st \in {"cancelled", "sleep"} :
              retries' = [retries EXCEPT ![t].state = st]
        BY DEF RetryFails, RetryGoesTo
      <3>2. RetrySucceeds(t) => retries' = [retries EXCEPT ![t].state = "done"]
        BY DEF RetrySucceeds, RetryGoesTo
      <3>3. CASE RetrySucceeds(t)
        BY <3>2, <3>3
      <3>4. CASE ~RetrySucceeds(t)
        BY <1>3, <3>1, <3>4
      <3> QED
        BY <3>3, <3>4
    <2>4. /\ \A n \in Turns : n # t => retries'[n] = retries[n]
          /\ retries'[t] # NONE /\ retries'[t].turn = t
          /\ retries'[t].kind = call.kind /\ retries'[t].session = call.session
          /\ retries'[t].state = st
      BY <1>1, <2>1, <2>2, <2>3, StateGoesTo
    <2>5. UNCHANGED <<submitted, submitting, addressed, closes, session_workflow_id>>
      BY <1>3 DEF RetryFails, RetrySucceeds, RetryFrame
    <2>6. OneSubmit'
      <3>1. /\ retries'[t].session \in addressed'[t] /\ t <= submitted'
            /\ retries'[t].turn = t
        BY <2>2, <2>4, <2>5
      <3>2. submitting' # NONE => retries'[submitting'.turn] = retries[submitting.turn]
        BY <2>2, <2>4, <2>5, CallTypes
      <3>3. \A n \in Turns : n # t => retries'[n] = retries[n]
        BY <2>4
      <3> QED
        BY <2>5, <3>1, <3>2, <3>3 DEF TurnInv, OneSubmit
    <2>7. /\ \A n \in Turns : n # t => (Underway(n)' = Underway(n))
          /\ st = "done" => ~Underway(t)'
      BY <2>2, <2>4, <2>5 DEF Underway
    <2>8. CASE UNCHANGED <<serverVars, lost>> /\ st # "done"
      <3>1. TasksGoOn
        BY <1>1, <2>1, <2>2, <2>3, StateGoesTo DEF TasksGoOn
      <3> QED
        BY <2>5, <2>8, <3>1, QuietKeepsTurns DEF TurnInv, OneSubmit, serverVars
    <2>9. CASE /\ Serve(call)
               /\ \A n \in Turns : n # t => lost'[n] = lost[n]
               /\ lost'[t] \in Nat
               /\ lost'[t] = lost[t] + (IF st = "done" THEN 0 ELSE 1)
      <3>1. /\ LogIsOfSubmitted'
            /\ TurnsStayWithTheirSession'
            /\ running \subseteq running' /\ call.session \in running'
            /\ \A n \in Turns : n # t => Occurrences(n)' = Occurrences(n)
            /\ IsFiniteSet(Occurrences(t)')
            /\ Cardinality(Occurrences(t)') \in Nat
            /\ Cardinality(Occurrences(t)') <= lost[t] + 1
            /\ call.kind = "start" =>
                 Cardinality(Occurrences(t)') <= Executions(call.session)'
        BY <2>1, <2>2, <2>5, <2>9, ServeKeepsTurns
      <3>2. lost[t] \in Nat
        BY DEF TypeOK
      <3>3. LoggedOnce'
        <4>1. Cardinality(Occurrences(t)') <= lost'[t] + (IF Underway(t)' THEN 0 ELSE 1)
          <5>1. CASE st = "done"
            BY <2>7, <2>9, <3>1, <3>2, <5>1
          <5>2. CASE st # "done"
            BY <2>9, <3>1, <3>2, <5>2
          <5> QED
            BY <5>1, <5>2
        <4> QED
          BY <2>2, <2>5, <2>7, <2>9, <3>1, <4>1 DEF TurnInv, LoggedOnce
      <3>4. ASSUME NEW n \in Turns, retries'[n] # NONE
            PROVE  StartedOnce(n, retries[n])'
        <4>1. CASE n = t
          BY <2>4, <3>1, <4>1 DEF StartedOnce
        <4>2. CASE n # t
          <5>1. /\ retries'[n] = retries[n] /\ retries[n].session \in Sessions
                /\ StartedOnce(n, retries[n])
            BY <2>4, <3>4, <4>2, CallTypes DEF TurnInv, StartsOnce
          <5> QED
            BY <2>5, <3>1, <4>2, <5>1, StartedOnceStays DEF StartedOnce
        <4> QED
          BY <4>1, <4>2
      <3>5. ASSUME submitting # NONE
            PROVE  StartedOnce(submitting.turn, submitting)'
        <4>1. /\ submitting.turn \in Turns /\ submitting.turn # t
              /\ submitting.session \in Sessions
              /\ StartedOnce(submitting.turn, submitting)
          BY <2>2, <3>5, CallTypes DEF TurnInv, StartsOnce
        <4> QED
          BY <2>5, <3>1, <4>1, StartedOnceStays DEF StartedOnce
      <3>6. StartsOnce'
        BY <2>5, <3>4, <3>5 DEF StartsOnce
      <3> QED
        BY <2>6, <3>1, <3>3, <3>6 DEF TurnInv
    <2>10. CASE RetrySucceeds(t)
      <3>1. Serve(call) /\ UNCHANGED lost /\ st = "done"
        BY <2>1, <2>3, <2>10 DEF RetrySucceeds
      <3> QED
        BY <2>9, <3>1 DEF TypeOK
    <2>11. CASE ~RetrySucceeds(t)
      <3>1. Fails(call) /\ st # "done"
        BY <1>3, <2>1, <2>3, <2>11 DEF RetryFails
      <3>2. CASE Serve(call) /\ lost' = [lost EXCEPT ![call.turn] = @ + 1]
        <4>1. /\ lost'[t] = lost[t] + 1 /\ lost[t] \in Nat
              /\ \A n \in Turns : n # t => lost'[n] = lost[n]
          BY <2>2, <3>2 DEF TypeOK
        <4> QED
          BY <2>9, <3>1, <3>2, <4>1
      <3> QED
        BY <2>8, <3>1, <3>2 DEF Fails
    <2> QED
      BY <2>10, <2>11
  <1> QED
    BY <1>2, <1>3 DEF Retry

\* An execution that ended counts as one as before.
LEMMA CloseKeepsTurns ==
  ASSUME TypeOK, TurnInv, NEW s \in Sessions, Close(s)
  PROVE  TurnInv'
  <1>1. /\ UNCHANGED <<log, session_workflow_id, submitting, retries, submitted,
                        addressed, lost>>
        /\ s \in running /\ running' = running \ {s}
        /\ closes' = [closes EXCEPT ![s] = @ + 1]
    BY DEF Close, taskVars
  <1>2. \A n \in Turns : Occurrences(n)' = Occurrences(n)
    BY <1>1, SameOccurrences
  <1>3. ASSUME NEW r \in Sessions
        PROVE  Executions(r)' = Executions(r)
    <2>1. /\ closes[r] \in Nat
          /\ closes'[r] = closes[r] + (IF r = s THEN 1 ELSE 0)
      BY <1>1 DEF TypeOK
    <2> QED
      BY <1>1, <2>1 DEF Executions
  <1>4. StartsOnce'
    <2>1. ASSUME submitting # NONE
          PROVE  StartedOnce(submitting.turn, submitting)'
      <3>1. /\ submitting.turn \in Turns /\ submitting.session \in Sessions
            /\ StartedOnce(submitting.turn, submitting)
        BY <2>1, CallTypes DEF TurnInv, StartsOnce
      <3> QED
        BY <1>1, <1>2, <1>3, <3>1 DEF StartedOnce
    <2>2. ASSUME NEW n \in Turns, retries[n] # NONE
          PROVE  StartedOnce(n, retries[n])'
      <3>1. retries[n].session \in Sessions /\ StartedOnce(n, retries[n])
        BY <2>2, CallTypes DEF TurnInv, StartsOnce
      <3> QED
        BY <1>1, <1>2, <1>3, <3>1 DEF StartedOnce
    <2> QED
      BY <1>1, <2>1, <2>2 DEF StartsOnce
  <1>5. LoggedOnce'
    BY <1>1, <1>2 DEF TurnInv, LoggedOnce, Underway
  <1>6. OneSubmit'
    BY <1>1 DEF TurnInv, OneSubmit
  <1>7. LogIsOfSubmitted' /\ TurnsStayWithTheirSession'
    BY <1>1 DEF TurnInv, LogIsOfSubmitted, TurnsStayWithTheirSession
  <1> QED
    BY <1>4, <1>5, <1>6, <1>7 DEF TurnInv

LEMMA TurnsAreKept ==
  ASSUME TypeOK, TurnInv, [Next]_vars
  PROVE  TurnInv'
  <1> USE ClientAssumption
  <1>1. UNCHANGED retries => TasksGoOn
    BY DEF TasksGoOn
  <1>2. ASSUME UNCHANGED vars
        PROVE  TurnInv'
    BY <1>1, <1>2, QuietKeepsTurns
    DEF vars, serverVars, taskVars, historyVars, TurnInv, OneSubmit
  <1>3. ASSUME NEW w \in DOMAIN watchers, Watch(w)
        PROVE  TurnInv'
    <2>1. UNCHANGED <<running, log, session_workflow_id, submitting, retries,
                      submitted, addressed, lost, closes>>
      BY <1>3 DEF Watch, Check, Extend, Discard, Completed, Ends, serverVars,
         taskVars, historyVars
    <2> QED
      BY <1>1, <2>1, QuietKeepsTurns DEF TurnInv, OneSubmit
  <1>4. ASSUME NEW s \in Sessions, SwitchSession(s)
        PROVE  TurnInv'
    <2>1. /\ UNCHANGED <<running, log, submitting, retries, submitted, lost, closes>>
          /\ session_workflow_id' = s
          /\ addressed' = IF submitting = NONE THEN addressed
                          ELSE [addressed EXCEPT ![submitting.turn] = @ \cup {s}]
      BY <1>4 DEF SwitchSession, serverVars, taskVars
    <2>2. \A n \in Turns : addressed[n] \subseteq addressed'[n]
      BY <2>1, CallTypes DEF TypeOK
    <2>3. submitting' # NONE => session_workflow_id' \in addressed'[submitting.turn]
      BY <2>1, CallTypes DEF TypeOK
    <2> QED
      BY <1>1, <2>1, <2>2, <2>3, QuietKeepsTurns
  <1>5. ASSUME FetchReturns
        PROVE  TurnInv'
    BY <1>1, <1>5, QuietKeepsTurns
    DEF FetchReturns, serverVars, taskVars, historyVars, TurnInv, OneSubmit
  <1> QED
    BY <1>2, <1>3, <1>4, <1>5, SubmitKeepsTurns, AttemptKeepsTurns, RetryKeepsTurns,
       CloseKeepsTurns
    DEF Next

\* What is known of the turns holds in every reachable state.
LEMMA TurnInvHolds == Spec => []TurnInv
  <1>1. Init => TurnInv
    BY TurnsFromTheStart
  <1>2. TypeOK /\ TurnInv /\ [Next]_vars => TurnInv'
    BY TurnsAreKept
  <1> QED
    BY <1>1, <1>2, ClientTypes, PTL DEF Spec

\* A turn is given to an agent once more than its submit lost a reply at
\* most, and the turn that starts a session once for each execution of it,
\* although its retry task starts and signals until a call succeeds
\* (retry_with_backoff, session.rs:380): the attempt that succeeds is the
\* last, and the server takes one start of an id while that id runs.
THEOREM TurnsReachAnAgentOnce == Spec => []TurnsAreNotRepeated
  <1>1. TypeOK /\ TurnInv => TurnsAreNotRepeated
    <2> SUFFICES ASSUME TypeOK, TurnInv, NEW n \in Turns
                 PROVE  /\ Cardinality(Occurrences(n)) <= 1 + lost[n]
                        /\ retries[n] # NONE /\ retries[n].kind = "start" =>
                             Cardinality(Occurrences(n)) <= 1 + closes[retries[n].session]
      BY DEF TurnsAreNotRepeated
    <2>1. /\ IsFiniteSet(Occurrences(n))
          /\ Cardinality(Occurrences(n)) <= lost[n] + (IF Underway(n) THEN 0 ELSE 1)
          /\ retries[n] # NONE => StartedOnce(n, retries[n])
      BY DEF TurnInv, LoggedOnce, StartsOnce
    <2>2. Cardinality(Occurrences(n)) \in Nat /\ lost[n] \in Nat
      BY <2>1, FS_CardinalityType DEF TypeOK
    <2>3. retries[n] # NONE => closes[retries[n].session] \in Nat
      BY CallTypes DEF TypeOK
    <2> QED
      BY <2>1, <2>2, <2>3 DEF StartedOnce, Executions
  <1> QED
    BY <1>1, ClientTypes, TurnInvHolds, PTL

\* A turn only ever reaches a session that was on screen while it was
\* submitted: a retry keeps the ids it was created with (session.rs:593, 679),
\* whatever switch_session has made the active one since.
THEOREM TurnsReachTheirSession == Spec => []TurnsStayWithTheirSession
  <1>1. TurnInv => TurnsStayWithTheirSession
    BY DEF TurnInv
  <1> QED
    BY <1>1, TurnInvHolds, PTL

-----------------------------------------------------------------------------
(* Events                                                                  *)

\* Logs only grow, and do not become those of a resumed session.
LogGrows ==
  /\ \A s \in Sessions :
       /\ base[s] \in Nat /\ base'[s] \in Nat /\ base[s] <= base'[s]
       /\ base'[s] <= Len(log'[s])
  /\ Resumed' <=> Resumed

LEMMA ServedLogGrows ==
  ASSUME TypeOK, BaseInLog, NEW call, call.session \in Sessions, call.turn \in Turns,
         Serve(call)
  PROVE  LogGrows
  <1> USE ClientAssumption
  <1>1. /\ log' \in [Sessions -> Seq(Turns \cup {0})]
        /\ Len(log'[call.session]) = Len(log[call.session]) + 1
        /\ log'[call.session][Len(log[call.session]) + 1] = call.turn
        /\ \A s \in Sessions :
             /\ s # call.session => log'[s] = log[s]
             /\ Len(log[s]) \in Nat /\ Len(log'[s]) \in Nat
             /\ Len(log[s]) <= Len(log'[s])
             /\ \A i \in DOMAIN log[s] : log'[s][i] = log[s][i]
        /\ base' \in [Sessions -> Nat]
        /\ \A s \in Sessions : base'[s] \in {base[s], Len(log[s])}
    BY ServeAppends
  <1>2. call.turn # 0
    BY DEF Turns
  <1>3. Resumed' <=> Resumed
    <2>1. log[First] \in Seq(Turns \cup {0}) /\ log'[First] \in Seq(Turns \cup {0})
      BY <1>1 DEF TypeOK
    <2>2. CASE log[First] # <<>>
      <3>1. 1 \in DOMAIN log[First] /\ Len(log[First]) >= 1
        BY <2>1, <2>2
      <3>2. log'[First] # <<>> /\ log'[First][1] = log[First][1]
        BY <1>1, <2>1, <3>1
      <3> QED
        BY <2>2, <3>2 DEF Resumed
    <2>3. CASE log[First] = <<>>
      <3>1. CASE First = call.session
        <4>1. Len(log[First]) = 0
          BY <2>3
        <4>2. log'[First][1] = call.turn
          BY <1>1, <3>1, <4>1
        <4> QED
          BY <1>2, <2>3, <4>2 DEF Resumed
      <3>2. CASE First # call.session
        BY <1>1, <2>3, <3>2 DEF Resumed
      <3> QED
        BY <3>1, <3>2
    <2> QED
      BY <2>2, <2>3
  <1>4. ASSUME NEW s \in Sessions
        PROVE  /\ base[s] \in Nat /\ base'[s] \in Nat /\ base[s] <= base'[s]
               /\ base'[s] <= Len(log'[s])
    <2>1. base[s] \in Nat /\ base[s] <= Len(log[s])
      BY DEF TypeOK, BaseInLog
    <2> QED
      BY <1>1, <2>1
  <1> QED
    BY <1>3, <1>4 DEF LogGrows

LEMMA KeptLogGrows ==
  ASSUME TypeOK, BaseInLog, UNCHANGED <<log, base>>
  PROVE  LogGrows
  <1>1. \A s \in Sessions : base[s] \in Nat
    BY DEF TypeOK
  <1> QED
    BY <1>1 DEF LogGrows, Resumed, BaseInLog

LEMMA FailingLogGrows ==
  ASSUME TypeOK, BaseInLog, NEW call, call.session \in Sessions, call.turn \in Turns,
         Fails(call)
  PROVE  LogGrows
  BY ServedLogGrows, KeptLogGrows DEF Fails, serverVars

\* What is below a watermark stays below it.
LEMMA WatermarksGrow ==
  ASSUME TypeOK, LogGrows, NEW a \in Sessions, NEW since \in Nat, NEW k \in Nat,
         k <= base[a] + since
  PROVE  k <= base'[a] + since
  <1>1. base[a] \in Nat /\ base'[a] \in Nat /\ base[a] <= base'[a]
    BY DEF LogGrows
  <1> QED
    BY <1>1

\* The same of all that a watcher is ahead of, whatever else becomes of it.
LEMMA StaysAhead ==
  ASSUME TypeOK, LogGrows, NEW w \in DOMAIN watchers, NEW u,
         u.agent = watchers[w].agent, u.since_index = watchers[w].since_index,
         u.batch = watchers[w].batch
  PROVE  /\ \A k \in Nat : AheadOf(k, watchers[w]) =>
              /\ k <= base'[u.agent] + u.since_index
              /\ \A i \in DOMAIN u.batch : k < u.batch[i].index
         /\ \A k \in DOMAIN watchers[w].batch :
              watchers[w].batch[k].index <= base[watchers[w].agent] + watchers[w].since_index
                => u.batch[k].index <= base'[u.agent] + u.since_index
  <1>1. /\ watchers[w].agent \in Sessions /\ watchers[w].since_index \in Nat
        /\ \A k \in DOMAIN watchers[w].batch : watchers[w].batch[k].index \in Nat
    <2>1. watchers[w] \in Watchers /\ watchers[w].batch \in Seq(Shown)
      BY WatcherTypes
    <2>2. \A k \in DOMAIN watchers[w].batch : watchers[w].batch[k] \in Shown
      BY <2>1
    <2> QED
      BY <2>1, <2>2 DEF Watchers, Shown
  <1> QED
    BY <1>1, WatermarksGrow DEF AheadOf

LEMMA IndexTypes ==
  ASSUME TypeOK
  PROVE  \A i \in DOMAIN event_buffer : event_buffer[i].index \in Nat
  <1>1. \A i \in DOMAIN event_buffer : event_buffer[i] \in Shown
    BY DEF TypeOK
  <1> QED
    BY <1>1 DEF Shown

\* Steps that neither watch nor switch keep it: a log that grows is no harm.
LEMMA GrowthKeepsWatch ==
  ASSUME TypeOK, WatchInv, LogGrows,
         UNCHANGED <<watchers, event_buffer, generation, overlapped>>
  PROVE  WatchInv'
  <1>1. \A w \in DOMAIN watchers :
          /\ \A k \in Nat : AheadOf(k, watchers[w]) =>
               /\ k <= base'[watchers[w].agent] + watchers[w].since_index
               /\ \A i \in DOMAIN watchers[w].batch : k < watchers[w].batch[i].index
          /\ \A k \in DOMAIN watchers[w].batch :
               watchers[w].batch[k].index <= base[watchers[w].agent] + watchers[w].since_index
                 => watchers[w].batch[k].index
                      <= base'[watchers[w].agent] + watchers[w].since_index
    BY StaysAhead
  <1>2. HoldsItsBatch'
    BY <1>1 DEF WatchInv, HoldsItsBatch
  <1>3. OneFollows'
    BY <1>1, IndexTypes DEF WatchInv, OneFollows, AheadOf
  <1>4. AnnouncedFirst' /\ StreamedInOrder'
    BY DEF WatchInv, AnnouncedFirst, StreamedInOrder, LogGrows
  <1>5. BaseInLog'
    BY DEF LogGrows, BaseInLog
  <1> QED
    BY <1>2, <1>3, <1>4, <1>5 DEF WatchInv

\* The watchers are those there were, some of them aborted, and one more.
Joined(s, g) ==
  /\ Len(watchers) \in Nat
  /\ DOMAIN watchers = 1..Len(watchers)
  /\ DOMAIN watchers' = 1..(Len(watchers) + 1)
  /\ watchers'[Len(watchers) + 1] = Watcher(s, g)
  /\ \A w \in DOMAIN watchers :
       /\ watchers'[w].agent = watchers[w].agent
       /\ watchers'[w].generation = watchers[w].generation
       /\ watchers'[w].since_index = watchers[w].since_index
       /\ watchers'[w].batch = watchers[w].batch
       /\ watchers'[w].state = "checked" <=> watchers[w].state = "checked"

LEMMA StartedWatcherJoins ==
  ASSUME TypeOK, NEW s \in Sessions, NEW g \in Nat, StartWatching(s, g)
  PROVE  Joined(s, g)
  <1> DEFINE a == Aborted
             v == Watcher(s, g)
  <1>1. /\ a \in Seq(Watchers) /\ Len(a) = Len(watchers) /\ DOMAIN a = DOMAIN watchers
        /\ Len(watchers) \in Nat /\ DOMAIN watchers = 1..Len(watchers)
        /\ \A w \in DOMAIN watchers :
             /\ a[w].agent = watchers[w].agent
             /\ a[w].generation = watchers[w].generation
             /\ a[w].since_index = watchers[w].since_index
             /\ a[w].batch = watchers[w].batch
             /\ a[w].state = "checked" <=> watchers[w].state = "checked"
    BY AbortedTypes DEF TypeOK
  <1>2. watchers' = Append(a, v) /\ v \in Watchers
    BY NewWatcherTypes DEF StartWatching
  <1> HIDE DEF a, v
  <1>3. /\ DOMAIN watchers' = 1..(Len(watchers) + 1)
        /\ watchers'[Len(watchers) + 1] = v
        /\ \A w \in DOMAIN watchers : watchers'[w] = a[w]
    BY <1>1, <1>2
  <1> QED
    BY <1>1, <1>3 DEF Joined, v

LEMMA AppendedWatcherJoins ==
  ASSUME TypeOK, NEW s \in Sessions, NEW g \in Nat,
         watchers' = Append(watchers, Watcher(s, g))
  PROVE  Joined(s, g)
  <1> DEFINE v == Watcher(s, g)
  <1>1. /\ watchers \in Seq(Watchers) /\ Len(watchers) \in Nat
        /\ DOMAIN watchers = 1..Len(watchers)
        /\ v \in Watchers
    BY NewWatcherTypes DEF TypeOK
  <1>2. watchers' = Append(watchers, v)
    OBVIOUS
  <1> HIDE DEF v
  <1>3. /\ DOMAIN watchers' = 1..(Len(watchers) + 1)
        /\ watchers'[Len(watchers) + 1] = v
        /\ \A w \in DOMAIN watchers : watchers'[w] = watchers[w]
    BY <1>1, <1>2
  <1> QED
    BY <1>1, <1>3 DEF Joined, v

\* A new watcher holds nothing yet, and the others hold what they did.
LEMMA JoiningHolds ==
  ASSUME TypeOK, HoldsItsBatch, NEW s \in Sessions, NEW g \in Nat, Joined(s, g),
         g = generation', generation <= g, LogGrows
  PROVE  HoldsItsBatch'
  <1> SUFFICES ASSUME NEW w \in DOMAIN watchers'
               PROVE  LET v == watchers'[w] IN
                        /\ v.generation <= g
                        /\ v.state # "checked" => v.batch = <<>>
                        /\ \A k \in DOMAIN v.batch :
                             /\ v.batch[k].generation = v.generation
                             /\ v.batch[k].index <= base'[v.agent] + v.since_index
                             /\ \A i \in DOMAIN v.batch :
                                  i < k => v.batch[i].index < v.batch[k].index
    BY DEF HoldsItsBatch
  <1>1. CASE w = Len(watchers) + 1
    BY <1>1 DEF Joined, Watcher
  <1>2. CASE w # Len(watchers) + 1
    <2>1. w \in DOMAIN watchers
      BY <1>2 DEF Joined
    <2>2. watchers[w].generation \in Nat /\ generation \in Nat
      BY <2>1, WatcherTypes DEF Watchers, TypeOK
    <2>3. /\ watchers'[w].agent = watchers[w].agent
          /\ watchers'[w].generation = watchers[w].generation
          /\ watchers'[w].since_index = watchers[w].since_index
          /\ watchers'[w].batch = watchers[w].batch
          /\ watchers'[w].state = "checked" <=> watchers[w].state = "checked"
      BY <2>1 DEF Joined
    <2>4. LET v == watchers[w] IN
            /\ v.generation <= generation
            /\ v.state # "checked" => v.batch = <<>>
            /\ \A k \in DOMAIN v.batch :
                 /\ v.batch[k].generation = v.generation
                 /\ v.batch[k].index <= base[v.agent] + v.since_index
                 /\ \A i \in DOMAIN v.batch : i < k => v.batch[i].index < v.batch[k].index
      BY <2>1 DEF HoldsItsBatch
    <2>5. \A k \in DOMAIN watchers[w].batch :
            watchers'[w].batch[k].index <= base'[watchers'[w].agent] + watchers'[w].since_index
      BY <2>1, <2>3, <2>4, StaysAhead
    <2>6. watchers[w].generation <= g
      BY <2>2, <2>4
    <2> QED
      BY <2>3, <2>4, <2>5, <2>6
  <1> QED
    BY <1>1, <1>2

\* A start that succeeds is announced, and its session followed.
LEMMA AnnouncingKeepsWatch ==
  ASSUME TypeOK, WatchInv, LogGrows,
         NEW s \in Sessions, NEW r \in Sessions, Joined(s, generation),
         event_buffer' = Append(event_buffer, Configured(r)),
         ~overlapped => watchers = <<>> /\ event_buffer = <<>>,
         UNCHANGED <<generation, overlapped>>
  PROVE  WatchInv'
  <1> DEFINE e == Configured(r)
             n == Len(event_buffer)
  <1>1. /\ generation \in Nat /\ event_buffer \in Seq(Shown) /\ n \in Nat
        /\ e \in Shown /\ e.index = 0 /\ e.generation = generation
    BY DEF TypeOK, Configured, Shown
  <1> HIDE DEF e
  <1>2. /\ DOMAIN event_buffer = 1..n
        /\ DOMAIN event_buffer' = 1..(n + 1)
        /\ event_buffer'[n + 1] = e
        /\ \A i \in 1..n : event_buffer'[i] = event_buffer[i]
    BY <1>1 DEF e
  <1> HIDE DEF n
  <1>3. HoldsItsBatch'
    BY <1>1, JoiningHolds DEF WatchInv
  <1>4. OneFollows'
    <2> SUFFICES ASSUME ~overlapped
                 PROVE  OneFollows'
      BY DEF OneFollows
    <2>1. n = 0 /\ Len(watchers) = 0
      BY <1>1 DEF n
    <2>2. /\ DOMAIN watchers' = {1}
          /\ watchers'[1] = Watcher(s, generation)
          /\ DOMAIN event_buffer' = {1}
          /\ event_buffer'[1] = e
      BY <1>2, <2>1 DEF Joined
    <2>3. watchers'[1].since_index = 0 /\ watchers'[1].batch = <<>>
          /\ watchers'[1].generation = generation
      BY <2>2 DEF Watcher
    <2>4. e.index <= base'[s] + 0
      BY <1>1 DEF LogGrows
    <2>5. watchers'[1].agent = s
      BY <2>2 DEF Watcher
    <2> QED
      BY <1>1, <2>2, <2>3, <2>4, <2>5 DEF OneFollows, AheadOf
  <1>5. AnnouncedFirst'
    <2>1. n + 1 \in DOMAIN event_buffer' /\ event_buffer'[n + 1].index = 0
      BY <1>1, <1>2
    <2> QED
      BY <2>1 DEF AnnouncedFirst
  <1>6. StreamedInOrder'
    <2>1. ASSUME generation = 0, ~Resumed, NEW j \in DOMAIN event_buffer',
                 event_buffer'[j].index > 0
          PROVE  \E i \in 1..(j - 1) : event_buffer'[i].index = 0
      <3>1. j \in 1..n /\ event_buffer'[j] = event_buffer[j]
        BY <1>1, <1>2, <2>1
      <3>2. PICK i \in 1..(j - 1) : event_buffer[i].index = 0
        BY <1>2, <2>1, <3>1 DEF WatchInv, StreamedInOrder
      <3>3. i \in 1..n
        BY <1>1, <3>1, <3>2
      <3> QED
        BY <1>2, <3>2, <3>3
    <2>2. ~overlapped => DOMAIN event_buffer' = {1}
      <3>1. ~overlapped => n = 0
        BY DEF n
      <3> QED
        BY <1>2, <3>1
    <2>3. ASSUME ~overlapped, NEW i \in DOMAIN event_buffer', NEW j \in DOMAIN event_buffer',
                 i < j
          PROVE  FALSE
      BY <2>2, <2>3
    <2> QED
      BY <2>1, <2>3 DEF StreamedInOrder, LogGrows
  <1>7. BaseInLog'
    BY DEF LogGrows, BaseInLog
  <1> QED
    BY <1>3, <1>4, <1>5, <1>6, <1>7 DEF WatchInv

\* The watcher w becomes v, which holds something else, and goes on with its
\* session and generation.
LEMMA OneWatcherChanges ==
  ASSUME TypeOK, NEW w \in DOMAIN watchers, NEW v \in Watchers,
         watchers' = [watchers EXCEPT ![w] = v]
  PROVE  /\ DOMAIN watchers' = DOMAIN watchers
         /\ watchers'[w] = v
         /\ \A u \in DOMAIN watchers : u # w => watchers'[u] = watchers[u]
  BY DEF TypeOK

\* What a watcher takes from the log it holds, up to the end of the log.
LEMMA CheckKeepsWatch ==
  ASSUME TypeOK, WatchInv, NEW w \in DOMAIN watchers, Check(w)
  PROVE  WatchInv'
  <1> DEFINE s == watchers[w].agent
             from == base[s] + watchers[w].since_index
             b == Events(s, from, Len(log[s]), generation)
             v == [watchers[w] EXCEPT !.state = "checked",
                                      !.since_index = Len(log[s]) - base[s],
                                      !.batch = b]
  <1>1. /\ watchers[w] \in Watchers
        /\ s \in Sessions /\ from \in Nat /\ generation \in Nat /\ base[s] \in Nat
        /\ Len(log[s]) \in Nat /\ from < Len(log[s])
        /\ Len(log[s]) - base[s] \in Nat
        /\ watchers[w].generation = generation
        /\ watchers[w].state = "recv"
    <2>1. watchers[w] \in Watchers /\ s \in Sessions /\ watchers[w].since_index \in Nat
      BY WatcherTypes DEF Watchers
    <2>2. watchers[w].state = "recv" /\ watchers[w].generation = generation
          /\ Len(log[s]) > from
      BY DEF Check
    <2>3. base[s] \in Nat /\ Len(log[s]) \in Nat /\ generation \in Nat
      BY <2>1 DEF TypeOK
    <2> QED
      BY <2>1, <2>2, <2>3
  <1>2. /\ b \in Seq(Shown) /\ Len(b) = Len(log[s]) - from /\ DOMAIN b = 1..Len(b)
        /\ \A k \in DOMAIN b :
             b[k] = [from |-> s, index |-> from + k, generation |-> generation]
    <2>1. PICK r \in Sessions, f \in Nat, t \in Nat, g \in Nat :
            r = s /\ f = from /\ t = Len(log[s]) /\ g = generation /\ f < t
      BY <1>1
    <2>2. f < t
      BY <2>1
    <2>3. /\ Events(r, f, t, g) \in Seq(Shown) /\ Len(Events(r, f, t, g)) = t - f
          /\ \A k \in DOMAIN Events(r, f, t, g) :
               Events(r, f, t, g)[k] = [from |-> r, index |-> f + k, generation |-> g]
      BY <2>2, EventTypes
    <2>4. b = Events(r, f, t, g)
      BY <2>1
    <2> HIDE DEF b, from
    <2>5. /\ b \in Seq(Shown) /\ Len(b) = t - f
          /\ \A k \in DOMAIN b :
               b[k] = [from |-> r, index |-> f + k, generation |-> g]
      BY <2>3, <2>4
    <2>6. DOMAIN b = 1..Len(b)
      BY <2>5
    <2> QED
      BY <2>1, <2>5, <2>6 DEF from
  <1>3. watchers' = [watchers EXCEPT ![w] = v]
    BY <1>1 DEF Check
  <1> HIDE DEF b
  <1>4. /\ v \in Watchers
        /\ v.agent = s /\ v.generation = generation /\ v.state = "checked"
        /\ v.since_index = Len(log[s]) - base[s] /\ v.batch = b
    BY <1>1, <1>2 DEF Watchers
  <1>5. base[s] + v.since_index = Len(log[s])
    BY <1>1, <1>4
  <1> HIDE DEF v
  <1>6. /\ DOMAIN watchers' = DOMAIN watchers
        /\ watchers'[w] = v
        /\ \A u \in DOMAIN watchers : u # w => watchers'[u] = watchers[u]
    BY <1>3, <1>4, OneWatcherChanges
  <1>7. UNCHANGED <<log, base, event_buffer, generation, overlapped>>
    BY DEF Check, serverVars, historyVars
  <1>8. ASSUME NEW k \in DOMAIN b
        PROVE  /\ b[k].generation = generation
               /\ b[k].index = from + k
               /\ k \in Nat /\ from < from + k /\ from + k <= Len(log[s])
    BY <1>1, <1>2
  <1>9. HoldsItsBatch'
    <2> SUFFICES ASSUME NEW u \in DOMAIN watchers
                 PROVE  LET x == watchers'[u] IN
                          /\ x.generation <= generation
                          /\ x.state # "checked" => x.batch = <<>>
                          /\ \A k \in DOMAIN x.batch :
                               /\ x.batch[k].generation = x.generation
                               /\ x.batch[k].index <= base[x.agent] + x.since_index
                               /\ \A i \in DOMAIN x.batch :
                                    i < k => x.batch[i].index < x.batch[k].index
      BY <1>6, <1>7 DEF HoldsItsBatch
    <2>1. CASE u = w
      <3>1. \A i, k \in DOMAIN b : i < k => b[i].index < b[k].index
        BY <1>1, <1>8
      <3>2. generation <= generation
        BY <1>1
      <3>3. \A k \in DOMAIN b : b[k].generation = generation /\ b[k].index <= Len(log[s])
        BY <1>8
      <3> QED
        BY <1>4, <1>5, <1>6, <2>1, <3>1, <3>2, <3>3
    <2>2. CASE u # w
      BY <1>6, <2>2 DEF WatchInv, HoldsItsBatch
    <2> QED
      BY <2>1, <2>2
  <1>10. OneFollows'
    <2>1. ASSUME ~overlapped, NEW i \in DOMAIN event_buffer,
                 event_buffer[i].generation = generation
          PROVE  \E u \in DOMAIN watchers :
                   /\ watchers'[u].generation = generation
                   /\ AheadOf(event_buffer[i].index, watchers'[u])
      <3>1. PICK u \in DOMAIN watchers :
              /\ watchers[u].generation = generation
              /\ AheadOf(event_buffer[i].index, watchers[u])
        BY <2>1 DEF WatchInv, OneFollows
      <3>2. CASE u # w
        BY <1>6, <3>1, <3>2
      <3>3. CASE u = w
        <4>1. PICK e \in Nat : e = event_buffer[i].index
          BY IndexTypes
        <4>2. e <= from
          BY <3>1, <3>3, <4>1 DEF AheadOf
        <4>3. e <= Len(log[s]) /\ \A k \in DOMAIN b : e < b[k].index
          BY <1>1, <1>8, <4>2
        <4>4. AheadOf(e, v)
          BY <1>4, <1>5, <4>3 DEF AheadOf
        <4> QED
          BY <1>4, <1>6, <4>1, <4>4
      <3> QED
        BY <3>2, <3>3
    <2>2. \A u \in DOMAIN watchers : watchers'[u].generation = watchers[u].generation
      BY <1>1, <1>4, <1>6
    <2> QED
      BY <1>6, <1>7, <2>1, <2>2 DEF WatchInv, OneFollows, AheadOf
  <1>11. AnnouncedFirst'
    <2>1. watchers # <<>>
      BY DEF TypeOK
    <2> QED
      BY <1>7, <2>1 DEF WatchInv, AnnouncedFirst, Resumed
  <1>12. StreamedInOrder' /\ BaseInLog'
    BY <1>7 DEF WatchInv, StreamedInOrder, BaseInLog, Resumed
  <1> QED
    BY <1>9, <1>10, <1>11, <1>12 DEF WatchInv

\* A watcher that ends waited, and holds nothing.
LEMMA EndsKeepsWatch ==
  ASSUME TypeOK, WatchInv, NEW w \in DOMAIN watchers, Ends(w)
  PROVE  WatchInv'
  <1> DEFINE v == [watchers[w] EXCEPT !.state = "ended"]
  <1>1. watchers[w] \in Watchers /\ watchers[w].state = "recv"
    BY WatcherTypes DEF Ends
  <1>2. watchers' = [watchers EXCEPT ![w] = v]
    BY DEF Ends
  <1>3. /\ v \in Watchers
        /\ v.agent = watchers[w].agent /\ v.generation = watchers[w].generation
        /\ v.since_index = watchers[w].since_index /\ v.batch = watchers[w].batch
        /\ v.state = "ended"
    BY <1>1 DEF Watchers
  <1> HIDE DEF v
  <1>4. /\ DOMAIN watchers' = DOMAIN watchers
        /\ watchers'[w] = v
        /\ \A u \in DOMAIN watchers : u # w => watchers'[u] = watchers[u]
    BY <1>2, <1>3, OneWatcherChanges
  <1>5. UNCHANGED <<log, base, event_buffer, generation, overlapped>>
    BY DEF Ends, serverVars, historyVars
  <1>6. \A u \in DOMAIN watchers :
          /\ watchers'[u].agent = watchers[u].agent
          /\ watchers'[u].generation = watchers[u].generation
          /\ watchers'[u].since_index = watchers[u].since_index
          /\ watchers'[u].batch = watchers[u].batch
    BY <1>3, <1>4
  <1>7. HoldsItsBatch'
    <2>1. watchers[w].batch = <<>>
      BY <1>1 DEF WatchInv, HoldsItsBatch
    <2> QED
      BY <1>3, <1>4, <1>5, <2>1 DEF WatchInv, HoldsItsBatch
  <1>8. OneFollows'
    BY <1>4, <1>5, <1>6 DEF WatchInv, OneFollows, AheadOf
  <1>9. AnnouncedFirst'
    <2>1. watchers # <<>>
      BY DEF TypeOK
    <2> QED
      BY <1>5, <2>1 DEF WatchInv, AnnouncedFirst, Resumed
  <1>10. StreamedInOrder' /\ BaseInLog'
    BY <1>5 DEF WatchInv, StreamedInOrder, BaseInLog, Resumed
  <1> QED
    BY <1>7, <1>8, <1>9, <1>10 DEF WatchInv

\* The events a watcher holds follow those shown, for none it showed before
\* is younger.
LEMMA ExtendKeepsWatch ==
  ASSUME TypeOK, WatchInv, NEW w \in DOMAIN watchers, Extend(w)
  PROVE  WatchInv'
  <1> DEFINE x == watchers[w]
             u == [x EXCEPT !.state = IF x.aborted THEN "ended" ELSE "recv",
                            !.batch = <<>>]
  <1>1. PICK b \in Seq(Shown) : b = x.batch
    BY WatcherTypes
  <1>2. PICK n \in Nat : n = Len(event_buffer)
    BY DEF TypeOK
  <1>3. PICK m \in Nat : m = Len(b)
    BY <1>1
  <1>4. PICK last \in Nat : last = base[x.agent] + x.since_index
    <2>1. x.agent \in Sessions /\ x.since_index \in Nat
      BY WatcherTypes DEF Watchers
    <2>2. base[x.agent] + x.since_index \in Nat
      BY <2>1 DEF TypeOK
    <2> QED
      BY <2>2
  <1>5. PICK g \in Nat : g = x.generation
    BY WatcherTypes DEF Watchers
  <1>6. /\ x \in Watchers /\ x.state = "checked" /\ generation \in Nat
        /\ event_buffer \in Seq(Shown)
    BY WatcherTypes DEF Extend, TypeOK
  <1>7. \A k \in 1..m :
          /\ b[k].generation = g
          /\ b[k].index <= last /\ b[k].index \in Nat
          /\ \A i \in 1..m : i < k => b[i].index < b[k].index
    <2>1. DOMAIN b = 1..m /\ \A k \in 1..m : b[k] \in Shown
      BY <1>1, <1>3
    <2>2. \A k \in DOMAIN x.batch :
            /\ x.batch[k].generation = x.generation
            /\ x.batch[k].index <= base[x.agent] + x.since_index
            /\ \A i \in DOMAIN x.batch : i < k => x.batch[i].index < x.batch[k].index
      BY DEF WatchInv, HoldsItsBatch
    <2> QED
      BY <1>1, <1>4, <1>5, <2>1, <2>2 DEF Shown
  <1>8. watchers' = [watchers EXCEPT ![w] = u] /\ event_buffer' = event_buffer \o b
    BY <1>1 DEF Extend
  <1>9. /\ u \in Watchers
        /\ u.agent = x.agent /\ u.generation = x.generation
        /\ u.since_index = x.since_index /\ u.batch = <<>>
        /\ u.state # "checked"
    <2>1. <<>> \in Seq(Shown)
      OBVIOUS
    <2> QED
      BY <1>6, <2>1 DEF Watchers
  <1> HIDE DEF u
  <1>10. /\ DOMAIN watchers' = DOMAIN watchers
         /\ watchers'[w] = u
         /\ \A y \in DOMAIN watchers : y # w => watchers'[y] = watchers[y]
    BY <1>8, <1>9, OneWatcherChanges
  <1>11. /\ DOMAIN event_buffer = 1..n
         /\ DOMAIN event_buffer' = 1..(n + m)
         /\ \A i \in 1..n : event_buffer'[i] = event_buffer[i]
         /\ \A i \in (n + 1)..(n + m) : event_buffer'[i] = b[i - n]
    BY <1>1, <1>2, <1>3, <1>6, <1>8
  <1>12. UNCHANGED <<log, base, generation, overlapped>>
    BY DEF Extend, serverVars, historyVars
  <1>13. ASSUME NEW i \in DOMAIN event_buffer'
         PROVE  \/ i \in 1..n /\ event_buffer'[i] = event_buffer[i]
                \/ i - n \in 1..m /\ event_buffer'[i] = b[i - n]
    <2>1. i \in 1..n \/ (i \in (n + 1)..(n + m) /\ i - n \in 1..m)
      BY <1>11, <1>13
    <2> QED
      BY <1>11, <2>1
  <1>14. \A i \in 1..n : event_buffer[i].index \in Nat
    BY <1>11, IndexTypes
  <1>15. HoldsItsBatch'
    <2>1. HoldsItsBatch /\ DOMAIN (<<>>) = {}
      BY DEF WatchInv
    <2>2. x.generation <= generation
      BY <2>1 DEF HoldsItsBatch
    <2> SUFFICES ASSUME NEW y \in DOMAIN watchers
                 PROVE  LET z == watchers'[y] IN
                          /\ z.generation <= generation
                          /\ z.state # "checked" => z.batch = <<>>
                          /\ \A k \in DOMAIN z.batch :
                               /\ z.batch[k].generation = z.generation
                               /\ z.batch[k].index <= base[z.agent] + z.since_index
                               /\ \A i \in DOMAIN z.batch :
                                    i < k => z.batch[i].index < z.batch[k].index
      BY <1>10, <1>12 DEF HoldsItsBatch
    <2>3. CASE y = w
      BY <1>9, <1>10, <2>1, <2>2, <2>3
    <2>4. CASE y # w
      BY <1>10, <2>1, <2>4 DEF HoldsItsBatch
    <2> QED
      BY <2>3, <2>4
  <1>16. ASSUME ~overlapped
         PROVE  /\ \A y, z \in DOMAIN watchers :
                     watchers[y].generation = generation /\ watchers[z].generation = generation
                       => y = z
                /\ \A i \in 1..n : event_buffer[i].generation = generation =>
                     \E y \in DOMAIN watchers :
                       /\ watchers[y].generation = generation
                       /\ AheadOf(event_buffer[i].index, watchers[y])
    BY <1>11, <1>16 DEF WatchInv, OneFollows
  \* What is shown is not younger than what the watcher of now took before.
  <1>17. ASSUME ~overlapped, g = generation, NEW i \in 1..n,
                event_buffer[i].generation = generation
         PROVE  /\ event_buffer[i].index <= last
                /\ \A k \in 1..m : event_buffer[i].index < b[k].index
    <2>1. AheadOf(event_buffer[i].index, x)
      BY <1>5, <1>16, <1>17
    <2>2. DOMAIN b = 1..m
      BY <1>1, <1>3
    <2> QED
      BY <1>1, <1>4, <2>1, <2>2 DEF AheadOf
  <1>18. OneFollows'
    <2>1. \A y \in DOMAIN watchers : watchers'[y].generation = watchers[y].generation
      BY <1>9, <1>10
    <2>2. ASSUME ~overlapped, NEW i \in DOMAIN event_buffer',
                 event_buffer'[i].generation = generation
          PROVE  \E y \in DOMAIN watchers :
                   /\ watchers'[y].generation = generation
                   /\ AheadOf(event_buffer'[i].index, watchers'[y])
      <3>1. CASE g = generation
        <4>1. event_buffer'[i].index <= last
          <5>1. CASE i \in 1..n /\ event_buffer'[i] = event_buffer[i]
            BY <1>17, <2>2, <3>1, <5>1
          <5>2. CASE i - n \in 1..m /\ event_buffer'[i] = b[i - n]
            BY <1>7, <5>2
          <5> QED
            BY <1>13, <5>1, <5>2
        <4>2. AheadOf(event_buffer'[i].index, u)
          <5>1. DOMAIN u.batch = {}
            BY <1>9
          <5> QED
            BY <1>4, <1>9, <4>1, <5>1 DEF AheadOf
        <4> QED
          BY <1>5, <1>9, <1>10, <3>1, <4>2
      <3>2. CASE g # generation
        <4>1. i \in 1..n /\ event_buffer'[i] = event_buffer[i]
          BY <1>7, <1>13, <2>2, <3>2
        <4>2. PICK y \in DOMAIN watchers :
                /\ watchers[y].generation = generation
                /\ AheadOf(event_buffer[i].index, watchers[y])
          BY <1>16, <2>2, <4>1
        <4>3. y # w
          BY <1>5, <3>2, <4>2
        <4> QED
          BY <1>10, <4>1, <4>2, <4>3
      <3> QED
        BY <3>1, <3>2
    <2> QED
      BY <1>10, <1>12, <1>16, <2>1, <2>2 DEF OneFollows, AheadOf
  \* The first shown was of index 0 before the batch came.
  <1>19. ASSUME generation = 0, ~Resumed
         PROVE  \E i \in 1..n : event_buffer[i].index = 0
    <2>1. watchers # <<>>
      BY DEF TypeOK
    <2> QED
      BY <1>11, <1>19, <2>1 DEF WatchInv, AnnouncedFirst
  <1>20. AnnouncedFirst'
    <2>1. ASSUME generation = 0, ~Resumed
          PROVE  \E i \in DOMAIN event_buffer' : event_buffer'[i].index = 0
      <3>1. 1..n \subseteq 1..(n + m)
        OBVIOUS
      <3> QED
        BY <1>11, <1>19, <2>1, <3>1
    <2> QED
      BY <1>12, <2>1 DEF AnnouncedFirst, Resumed
  <1>21. StreamedInOrder'
    <2>1. ASSUME generation = 0, ~Resumed, NEW j \in DOMAIN event_buffer',
                 event_buffer'[j].index > 0
          PROVE  \E i \in 1..(j - 1) : event_buffer'[i].index = 0
      <3>1. CASE j \in 1..n /\ event_buffer'[j] = event_buffer[j]
        <4>1. PICK i \in 1..(j - 1) : event_buffer[i].index = 0
          BY <1>11, <2>1, <3>1 DEF WatchInv, StreamedInOrder
        <4>2. i \in 1..n
          BY <3>1
        <4> QED
          BY <1>11, <4>1, <4>2
      <3>2. CASE j - n \in 1..m
        <4>1. PICK i \in 1..n : event_buffer[i].index = 0
          BY <1>19, <2>1
        <4>2. i \in 1..(j - 1)
          BY <1>11, <3>2
        <4> QED
          BY <1>11, <4>1, <4>2
      <3> QED
        BY <1>13, <3>1, <3>2
    <2>2. ASSUME ~overlapped, NEW i \in DOMAIN event_buffer', NEW j \in DOMAIN event_buffer',
                 i < j,
                 event_buffer'[i].generation = generation,
                 event_buffer'[j].generation = generation
          PROVE  event_buffer'[i].index < event_buffer'[j].index
      <3>1. CASE j \in 1..n /\ event_buffer'[j] = event_buffer[j]
        <4>1. i \in 1..n /\ event_buffer'[i] = event_buffer[i]
          BY <1>11, <2>2, <3>1
        <4> QED
          BY <1>11, <2>2, <3>1, <4>1 DEF WatchInv, StreamedInOrder
      <3>2. CASE j - n \in 1..m /\ event_buffer'[j] = b[j - n]
        <4>1. CASE i \in 1..n /\ event_buffer'[i] = event_buffer[i]
          <5>1. g = generation
            BY <1>7, <2>2, <3>2
          <5> QED
            BY <1>17, <2>2, <3>2, <4>1, <5>1
        <4>2. CASE i - n \in 1..m /\ event_buffer'[i] = b[i - n]
          <5>1. i \in Nat /\ j \in Nat
            BY <1>11
          <5>2. i - n < j - n
            BY <2>2, <5>1
          <5> QED
            BY <1>7, <3>2, <4>2, <5>2
        <4> QED
          BY <1>13, <4>1, <4>2
      <3> QED
        BY <1>13, <3>1, <3>2
    <2> QED
      BY <1>12, <2>1, <2>2 DEF StreamedInOrder, Resumed
  <1>22. BaseInLog'
    BY <1>12 DEF WatchInv, BaseInLog
  <1> QED
    BY <1>15, <1>18, <1>20, <1>21, <1>22 DEF WatchInv

\* A switch empties the buffer; whoever holds a batch is of before.
LEMMA SwitchKeepsWatch ==
  ASSUME TypeOK, WatchInv, NEW s \in Sessions, SwitchSession(s)
  PROVE  WatchInv'
  <1>1. PICK g \in Nat : g = generation + 1
    BY DEF TypeOK
  <1>2. generation \in Nat /\ generation < g /\ g # 0 /\ generation' = g
    BY <1>1 DEF SwitchSession, TypeOK
  <1>3. Joined(s, g)
    BY <1>1, StartedWatcherJoins DEF SwitchSession
  <1>4. LogGrows
    BY KeptLogGrows DEF SwitchSession, serverVars, WatchInv
  <1>5. HoldsItsBatch'
    BY <1>1, <1>2, <1>3, <1>4, JoiningHolds DEF SwitchSession, WatchInv
  <1>6. event_buffer' = <<>>
    BY DEF SwitchSession
  <1>7. OneFollows'
    <2>1. ASSUME NEW w \in DOMAIN watchers', watchers'[w].generation = g
          PROVE  w = Len(watchers) + 1
      <3>1. ASSUME w \in DOMAIN watchers
            PROVE  FALSE
        <4>1. watchers[w].generation <= generation /\ watchers[w].generation \in Nat
          BY <3>1, WatcherTypes DEF WatchInv, HoldsItsBatch, Watchers
        <4>2. watchers'[w].generation = watchers[w].generation
          BY <1>3, <3>1 DEF Joined
        <4> QED
          BY <1>2, <2>1, <4>1, <4>2
      <3> QED
        BY <1>3, <2>1, <3>1 DEF Joined
    <2> QED
      BY <1>2, <1>6, <2>1 DEF OneFollows
  <1>8. AnnouncedFirst' /\ StreamedInOrder' /\ BaseInLog'
    BY <1>2, <1>4, <1>6 DEF AnnouncedFirst, StreamedInOrder, BaseInLog, LogGrows
  <1> QED
    BY <1>5, <1>7, <1>8 DEF WatchInv

LEMMA EventsFromTheStart ==
  ASSUME Init
  PROVE  EventInv
  <1> USE ClientAssumption
  <1>1. PICK resumed \in BOOLEAN : Create(resumed)
    BY DEF Init
  <1>2. /\ submitting = NONE /\ submitted = 0
        /\ \A n \in Turns : retries[n] = NONE
    BY DEF Init
  <1>3. /\ generation = 0 /\ event_buffer = <<>>
        /\ started = resumed
        /\ watchers = IF resumed THEN <<Watcher(First, 0)>> ELSE <<>>
    BY <1>1 DEF Create
  <1>4. StartIsFirst
    BY <1>2, <1>3 DEF StartIsFirst
  <1>5. NobodyYet
    BY <1>2, <1>3 DEF NobodyYet, Starting
  <1>6. HoldsItsBatch
    <2>1. ASSUME NEW w \in DOMAIN watchers
          PROVE  watchers[w] = Watcher(First, 0)
      BY <1>3, <2>1
    <2> QED
      BY <1>3, <2>1 DEF HoldsItsBatch, Watcher
  <1>7. OneFollows
    BY <1>3 DEF OneFollows
  <1>8. AnnouncedFirst
    <2>1. CASE resumed
      <3>1. log[First] = <<0>>
        BY <1>1, <2>1 DEF Create
      <3> QED
        BY <3>1 DEF AnnouncedFirst, Resumed
    <2>2. CASE ~resumed
      BY <1>3, <2>2 DEF AnnouncedFirst
    <2> QED
      BY <2>1, <2>2
  <1>9. StreamedInOrder /\ BaseInLog
    <2>1. \A r \in Sessions : base[r] = 0 /\ Len(log[r]) \in Nat
      BY <1>1, TypesFromTheStart DEF Create, TypeOK
    <2> QED
      BY <1>3, <2>1 DEF StreamedInOrder, BaseInLog
  <1> QED
    BY <1>4, <1>5, <1>6, <1>7, <1>8, <1>9 DEF EventInv, WatchInv

\* Steps of tasks that show nothing and start nothing.
LEMMA TasksKeepEvents ==
  ASSUME TypeOK, EventInv, TasksGoOn, LogGrows,
         submitting' \in {NONE, submitting},
         submitting' = NONE => started \/ submitting = NONE,
         UNCHANGED <<submitted, started, generation, overlapped, watchers,
                     event_buffer>>
  PROVE  EventInv'
  <1>1. StartIsFirst'
    BY DEF EventInv, StartIsFirst, TasksGoOn
  <1>2. NobodyYet'
    <2>1. Starting' => Starting
      BY DEF Starting, TasksGoOn
    <2> QED
      BY <2>1 DEF EventInv, NobodyYet
  <1>3. WatchInv'
    BY GrowthKeepsWatch DEF EventInv
  <1> QED
    BY <1>1, <1>2, <1>3 DEF EventInv

LEMMA SubmitKeepsEvents ==
  ASSUME TypeOK, EventInv, Submit
  PROVE  EventInv'
  <1> USE ClientAssumption
  <1>1. ASSUME SubmitUserTurn
        PROVE  EventInv'
    <2>1. PICK m \in Turns : m = submitted + 1
      BY <1>1 DEF SubmitUserTurn, TypeOK, Turns
    <2>2. /\ submitting = NONE /\ submitted' = m /\ m \in Nat /\ m # 0 /\ m >= 1
          /\ submitting'.turn = m
          /\ submitting'.kind = "start" <=> ~started
          /\ submitted = 0 => m = 1
          /\ submitted \in Nat
          /\ UNCHANGED <<log, base, retries, started, generation, overlapped,
                         watchers, event_buffer>>
      BY <1>1, <2>1 DEF SubmitUserTurn, serverVars, TypeOK, Turns
    <2>3. ~started => submitted = 0
      BY <2>2 DEF EventInv, StartIsFirst
    <2>4. StartIsFirst'
      <3>1. ASSUME NEW n \in Turns, retries[n] # NONE
            PROVE  /\ retries[n].generation <= generation
                   /\ submitted # 0 /\ started
                   /\ retries[n].kind = "start" => n = 1 /\ retries[n].turn = 1
        BY <2>3, <3>1 DEF EventInv, StartIsFirst
      <3>2. ~started => generation = 0 /\ m = 1
        BY <2>2, <2>3 DEF EventInv, StartIsFirst
      <3>3. submitting' # NONE => submitting'.turn = submitted'
        BY <2>2
      <3>4. submitting'.kind = "start" => submitting'.turn = 1 /\ submitted' = 1
        BY <2>2, <3>2
      <3>5. submitted' # 0
        BY <2>2
      <3>6. ~started => generation = 0 /\ submitting'.kind = "start"
        BY <2>2, <3>2
      <3>7. ASSUME NEW n \in Turns, retries[n] # NONE
            PROVE  /\ retries[n].generation <= generation
                   /\ retries[n].kind = "start" =>
                        /\ n = 1 /\ retries[n].turn = 1
                        /\ submitting'.kind # "start" /\ submitted' >= 1
        BY <2>2, <3>1, <3>7
      <3>8. ~started' => submitting' # NONE
        <4>1. submitting' \in Submissions
          <5>1. /\ submitted + 1 = m
                /\ session_workflow_id \in Sessions
            BY <2>1 DEF TypeOK
          <5> QED
            BY <1>1, <5>1 DEF SubmitUserTurn, Submissions, Kinds
        <4> QED
          BY <4>1
      <3> QED
        BY <2>2, <3>3, <3>4, <3>5, <3>6, <3>7, <3>8 DEF StartIsFirst
    <2>5. NobodyYet'
      BY <2>2, <2>3 DEF EventInv, NobodyYet, Starting, StartIsFirst
    <2>6. WatchInv'
      BY <2>2, GrowthKeepsWatch, KeptLogGrows DEF EventInv, WatchInv
    <2> QED
      BY <2>4, <2>5, <2>6 DEF EventInv
  <1>2. ASSUME Interrupt
        PROVE  EventInv'
    <2>1. submit_cancel \in Turns
      BY <1>2 DEF Interrupt, TypeOK
    <2>2. TasksGoOn
      <3>1. CASE retries[submit_cancel] = NONE
        BY <1>2, <3>1 DEF Interrupt, TasksGoOn
      <3>2. CASE retries[submit_cancel] # NONE
        BY <1>2, <2>1, <3>2, CancelGoesOn DEF Interrupt
      <3> QED
        BY <3>1, <3>2
    <2>3. UNCHANGED <<log, base, submitting, submitted, started, generation,
                      overlapped, watchers, event_buffer>>
      BY <1>2 DEF Interrupt, serverVars, historyVars
    <2> QED
      BY <2>2, <2>3, TasksKeepEvents, KeptLogGrows DEF EventInv, WatchInv
  <1> QED
    BY <1>1, <1>2 DEF Submit

LEMMA AttemptKeepsEvents ==
  ASSUME TypeOK, EventInv, Attempt
  PROVE  EventInv'
  <1> USE ClientAssumption
  <1>1. /\ submitting # NONE
        /\ submitting.turn \in Turns /\ submitting.session \in Sessions
        /\ submitting' = NONE
        /\ UNCHANGED <<submitted, generation, overlapped>>
    BY CallTypes DEF Attempt, StartSucceeds, SignalSucceeds, FirstAttemptFails, historyVars
  <1>2. ASSUME StartSucceeds
        PROVE  EventInv'
    <2>1. /\ submitting.kind = "start" /\ started'
          /\ UNCHANGED retries
          /\ event_buffer' = Append(event_buffer, Configured(submitting.session))
          /\ StartWatching(session_workflow_id, generation)
      BY <1>2 DEF StartSucceeds
    <2>2. StartIsFirst'
      BY <1>1, <2>1 DEF EventInv, StartIsFirst
    <2>3. NobodyYet'
      <3>1. ~Starting'
        BY <1>1, <2>1 DEF EventInv, StartIsFirst, Starting
      <3> QED
        BY <1>1, <2>1, <3>1 DEF NobodyYet
    <2>4. LogGrows
      BY <1>1, <1>2, ServedLogGrows DEF StartSucceeds, EventInv, WatchInv
    <2>5. ~overlapped => watchers = <<>> /\ event_buffer = <<>>
      BY <1>1, <2>1 DEF EventInv, NobodyYet, Starting
    <2>6. session_workflow_id \in Sessions /\ generation \in Nat
      BY DEF TypeOK
    <2>7. Joined(session_workflow_id, generation)
      BY <2>1, <2>6, StartedWatcherJoins
    <2>8. WatchInv'
      BY <1>1, <2>1, <2>4, <2>5, <2>6, <2>7, AnnouncingKeepsWatch DEF EventInv
    <2> QED
      BY <2>2, <2>3, <2>8 DEF EventInv
  <1>3. ASSUME SignalSucceeds
        PROVE  EventInv'
    <2>1. /\ submitting.kind = "signal"
          /\ UNCHANGED <<retries, started, watchers, event_buffer>>
      BY <1>3 DEF SignalSucceeds
    <2>2. started
      BY <1>1, <2>1 DEF EventInv, StartIsFirst
    <2>3. TasksGoOn
      BY <2>1 DEF TasksGoOn
    <2>4. LogGrows
      BY <1>1, <1>3, ServedLogGrows DEF SignalSucceeds, EventInv, WatchInv
    <2> QED
      BY <1>1, <2>1, <2>2, <2>3, <2>4, TasksKeepEvents
  <1>4. ASSUME FirstAttemptFails
        PROVE  EventInv'
    <2>1. PICK t \in Turns : t = submitting.turn
      BY <1>1
    <2>2. PICK call \in Submissions : call = submitting
      BY <1>1, CallTypes
    <2> DEFINE task == [turn |-> t,
                        kind |-> call.kind,
                        session |-> IF call.kind = "start" THEN call.session
                                    ELSE session_workflow_id,
                        agent |-> session_workflow_id,
                        generation |-> generation,
                        cancelled |-> FALSE,
                        state |-> "sleep"]
    <2>3. retries' = [retries EXCEPT ![t] = task]
      BY <1>4, <2>1, <2>2 DEF FirstAttemptFails
    <2>4. /\ task.kind = call.kind /\ task.turn = t
          /\ task.generation = generation
      OBVIOUS
    <2> HIDE DEF task
    <2>5. retries'[t] = task /\ \A n \in Turns : n # t => retries'[n] = retries[n]
      BY <2>3 DEF TypeOK
    <2>6. started' /\ UNCHANGED <<watchers, event_buffer>>
      BY <1>4 DEF FirstAttemptFails
    <2>7. /\ generation \in Nat
          /\ call.kind = "start" => t = 1 /\ submitted = 1
          /\ submitted # 0
      <3>1. t = submitted /\ t \in Nat /\ t # 0
        BY <1>1, <2>1 DEF EventInv, StartIsFirst, Turns
      <3> QED
        BY <1>1, <2>1, <2>2, <3>1 DEF EventInv, StartIsFirst, TypeOK
    <2>8. StartIsFirst'
      <3>1. ASSUME NEW n \in Turns, retries'[n] # NONE
            PROVE  /\ retries'[n].generation <= generation
                   /\ retries'[n].kind = "start" =>
                        n = 1 /\ retries'[n].turn = 1 /\ submitted >= 1
        <4>1. CASE n = t
          BY <2>4, <2>5, <2>7, <4>1
        <4>2. CASE n # t
          BY <2>5, <3>1, <4>2 DEF EventInv, StartIsFirst
        <4> QED
          BY <4>1, <4>2
      <3> QED
        BY <1>1, <2>6, <2>7, <3>1 DEF StartIsFirst
    <2>9. NobodyYet'
      <3>1. ASSUME Starting'
            PROVE  Starting
        <4>1. PICK n \in Turns : /\ retries'[n] # NONE
                                 /\ retries'[n].kind = "start"
                                 /\ retries'[n].generation = generation
                                 /\ retries'[n].state \in {"sleep", "call"}
          BY <1>1, <3>1 DEF Starting
        <4>2. CASE n = t
          BY <1>1, <2>2, <2>4, <2>5, <4>1, <4>2 DEF Starting
        <4>3. CASE n # t
          BY <2>5, <4>1, <4>3 DEF Starting
        <4> QED
          BY <4>2, <4>3
      <3> QED
        BY <1>1, <2>6, <3>1 DEF EventInv, NobodyYet
    <2>10. LogGrows
      BY <1>1, <1>4, FailingLogGrows DEF FirstAttemptFails, EventInv, WatchInv
    <2>11. WatchInv'
      BY <1>1, <2>6, <2>10, GrowthKeepsWatch DEF EventInv
    <2> QED
      BY <2>8, <2>9, <2>11 DEF EventInv
  <1> QED
    BY <1>2, <1>3, <1>4 DEF Attempt

LEMMA RetryKeepsEvents ==
  ASSUME TypeOK, EventInv, NEW t \in Turns, Retry(t)
  PROVE  EventInv'
  <1> USE ClientAssumption
  <1>1. /\ retries[t] # NONE /\ retries[t].state \in {"sleep", "call"}
        /\ retries[t].turn \in Turns /\ retries[t].session \in Sessions
        /\ retries[t].agent \in Sessions
    BY CallTypes DEF Retry, RetryCalls, RetryCancelled, RetryFails, RetrySucceeds,
       Retrying
  <1>2. UNCHANGED <<submitted, submitting, started, generation, overlapped>>
    BY DEF Retry, RetryCalls, RetryCancelled, RetryFails, RetrySucceeds, RetryFrame
  <1>3. PICK st \in {"sleep", "call", "done", "cancelled", "stale"} :
          /\ retries' = [retries EXCEPT ![t].state = st]
          /\ RetrySucceeds(t) => st = "done"
    <2>1. CASE RetrySucceeds(t)
      BY <2>1 DEF RetrySucceeds, RetryGoesTo
    <2>2. CASE ~RetrySucceeds(t)
      BY <2>2 DEF Retry, RetryCalls, RetryCancelled, RetryFails, RetryGoesTo
    <2> QED
      BY <2>1, <2>2
  <1>4. /\ \A n \in Turns : n # t => retries'[n] = retries[n]
        /\ retries'[t] # NONE
        /\ retries'[t].turn = retries[t].turn
        /\ retries'[t].kind = retries[t].kind
        /\ retries'[t].session = retries[t].session
        /\ retries'[t].generation = retries[t].generation
        /\ retries'[t].state = st
    BY <1>1, <1>3, StateGoesTo
  <1>5. TasksGoOn
    BY <1>1, <1>4 DEF TasksGoOn
  <1>6. LogGrows
    <2>1. CASE RetryCalls(t) \/ RetryCancelled(t)
      BY <2>1, KeptLogGrows DEF RetryCalls, RetryCancelled, serverVars, EventInv, WatchInv
    <2>2. CASE RetryFails(t)
      BY <1>1, <2>2, FailingLogGrows DEF RetryFails, EventInv, WatchInv
    <2>3. CASE RetrySucceeds(t)
      BY <1>1, <2>3, ServedLogGrows DEF RetrySucceeds, EventInv, WatchInv
    <2> QED
      BY <2>1, <2>2, <2>3 DEF Retry
  <1>7. CASE UNCHANGED <<watchers, event_buffer>>
    BY <1>2, <1>5, <1>6, <1>7, TasksKeepEvents
  <1>8. CASE /\ RetrySucceeds(t)
             /\ retries[t].kind = "start" /\ ~Stale(t)
             /\ event_buffer' = Append(event_buffer, Configured(retries[t].session))
             /\ watchers' = Append(watchers, Watcher(retries[t].agent, generation))
    <2>1. /\ t = 1 /\ retries[t].generation = generation
          /\ submitting # NONE => submitting.kind # "start"
          /\ submitted >= 1
      BY <1>1, <1>8 DEF EventInv, StartIsFirst, Stale
    <2>2. started
      <3>1. submitted # 0
        BY <2>1 DEF TypeOK
      <3> QED
        BY <2>1, <3>1 DEF EventInv, StartIsFirst
    <2>3. ~overlapped => watchers = <<>> /\ event_buffer = <<>>
      BY <1>1, <1>8, <2>1 DEF EventInv, NobodyYet, Starting
    <2>4. StartIsFirst'
      BY <1>2, <1>5 DEF EventInv, StartIsFirst, TasksGoOn
    <2>5. ~Starting'
      <3>1. ASSUME NEW n \in Turns, retries'[n] # NONE, retries'[n].kind = "start"
            PROVE  n = t
        BY <1>5, <2>1, <3>1 DEF EventInv, StartIsFirst, TasksGoOn
      <3>2. retries'[t].state = "done"
        BY <1>3, <1>4, <1>8
      <3> QED
        BY <1>2, <2>1, <3>1, <3>2 DEF Starting
    <2>6. NobodyYet'
      BY <1>2, <2>1, <2>2, <2>5 DEF NobodyYet
    <2>7. generation \in Nat
      BY DEF TypeOK
    <2>8. Joined(retries[t].agent, generation)
      BY <1>1, <1>8, <2>7, AppendedWatcherJoins
    <2>9. WatchInv'
      BY <1>1, <1>2, <1>6, <1>8, <2>3, <2>8, AnnouncingKeepsWatch DEF EventInv
    <2> QED
      BY <2>4, <2>6, <2>9 DEF EventInv
  <1>9. CASE RetrySucceeds(t)
    <2>1. Announce(t)
      BY <1>9 DEF RetrySucceeds
    <2> QED
      BY <1>7, <1>8, <1>9, <2>1 DEF Announce
  <1>10. CASE ~RetrySucceeds(t)
    <2>1. UNCHANGED <<watchers, event_buffer>>
      BY <1>10 DEF Retry, RetryCalls, RetryCancelled, RetryFails
    <2> QED
      BY <1>7, <2>1
  <1> QED
    BY <1>9, <1>10

LEMMA WatchingKeepsEvents ==
  ASSUME TypeOK, EventInv, NEW w \in DOMAIN watchers, Watch(w)
  PROVE  EventInv'
  <1>1. WatchInv'
    BY CheckKeepsWatch, ExtendKeepsWatch, EndsKeepsWatch
    DEF Watch, Discard, Completed, EventInv
  <1>2. UNCHANGED <<submitting, retries, submitted, started, generation, overlapped>>
    BY DEF Watch, Check, Extend, Discard, Completed, Ends, taskVars, historyVars
  <1>3. watchers # <<>>
    BY DEF TypeOK
  <1>4. NobodyYet'
    BY <1>2, <1>3 DEF EventInv, NobodyYet, Starting
  <1>5. StartIsFirst'
    BY <1>2 DEF EventInv, StartIsFirst
  <1> QED
    BY <1>1, <1>4, <1>5 DEF EventInv

LEMMA SwitchKeepsEvents ==
  ASSUME TypeOK, EventInv, NEW s \in Sessions, SwitchSession(s)
  PROVE  EventInv'
  <1>1. WatchInv'
    BY SwitchKeepsWatch DEF EventInv
  <1>2. /\ UNCHANGED <<submitting, retries, submitted>>
        /\ generation' = generation + 1 /\ generation \in Nat
        /\ started'
        /\ overlapped' = (overlapped \/ submitting # NONE)
    BY DEF SwitchSession, taskVars, TypeOK
  <1>3. ASSUME NEW n \in Turns, retries[n] # NONE
        PROVE  retries[n].generation < generation'
    <2>1. retries[n].generation \in Nat /\ retries[n].generation <= generation
      BY <1>3, CallTypes DEF EventInv, StartIsFirst
    <2> QED
      BY <1>2, <2>1
  <1>4. ASSUME NEW n \in Turns, retries[n] # NONE
        PROVE  /\ retries[n].generation <= generation'
               /\ retries[n].generation # generation'
    <2>1. retries[n].generation \in Nat /\ generation' \in Nat
      BY <1>2, <1>4, CallTypes
    <2> QED
      BY <1>3, <1>4, <2>1
  <1>5. StartIsFirst'
    BY <1>2, <1>4 DEF EventInv, StartIsFirst
  <1>6. NobodyYet'
    BY <1>2, <1>4 DEF NobodyYet, Starting
  <1> QED
    BY <1>1, <1>5, <1>6 DEF EventInv

\* A session that ends, or a history that arrives, streams nothing.
LEMMA CloseKeepsEvents ==
  ASSUME TypeOK, EventInv,
         (\E s \in Sessions : Close(s)) \/ FetchReturns \/ UNCHANGED vars
  PROVE  EventInv'
  <1>1. UNCHANGED <<log, base, submitting, retries, submitted, started, generation,
                    overlapped, watchers, event_buffer>>
    BY DEF Close, FetchReturns, vars, serverVars, taskVars, historyVars
  <1>2. TasksGoOn /\ LogGrows
    BY <1>1, KeptLogGrows DEF TasksGoOn, EventInv, WatchInv
  <1> QED
    BY <1>1, <1>2, TasksKeepEvents

LEMMA EventsAreKept ==
  ASSUME TypeOK, EventInv, [Next]_vars
  PROVE  EventInv'
  BY SubmitKeepsEvents, AttemptKeepsEvents, RetryKeepsEvents, WatchingKeepsEvents,
     SwitchKeepsEvents, CloseKeepsEvents
  DEF Next

\* What is known of the events holds in every reachable state.
LEMMA EventInvHolds == Spec => []EventInv
  <1>1. Init => EventInv
    BY EventsFromTheStart
  <1>2. TypeOK /\ EventInv /\ [Next]_vars => EventInv'
    BY EventsAreKept
  <1> QED
    BY <1>1, <1>2, ClientTypes, PTL DEF Spec

LEMMA HistoryFromTheStart ==
  ASSUME Init
  PROVE  HistoryInOrder
  <1> USE ClientAssumption
  <1>1. PICK resumed \in BOOLEAN : Create(resumed)
    BY DEF Init
  <1>2. /\ session_workflow_id = First
        /\ initial = IF resumed THEN Events(First, 0, 1, 0) ELSE <<>>
    BY <1>1 DEF Create
  <1>3. /\ 1..(1 - 0) = {1}
        /\ \A k \in DOMAIN Events(First, 0, 1, 0) :
             Events(First, 0, 1, 0)[k] = [from |-> First, index |-> 0 + k, generation |-> 0]
    BY HistoryTypes
  <1>4. DOMAIN Events(First, 0, 1, 0) = {1}
    BY <1>3 DEF Events
  <1> QED
    BY <1>2, <1>3, <1>4 DEF HistoryInOrder

\* A history is that of the session on screen: a switch takes an older one away.
LEMMA HistoryIsKept ==
  ASSUME TypeOK, HistoryInOrder, [Next]_vars
  PROVE  HistoryInOrder'
  <1>1. CASE UNCHANGED <<initial, session_workflow_id>>
    BY <1>1 DEF HistoryInOrder
  <1>2. ASSUME initial' = <<>>
        PROVE  HistoryInOrder'
    BY <1>2 DEF HistoryInOrder
  <1>3. ASSUME FetchReturns, initial' # <<>>
        PROVE  HistoryInOrder'
    <2>1. /\ fetching = session_workflow_id /\ session_workflow_id' = fetching
          /\ fetching \in Sessions
      BY <1>3 DEF FetchReturns, TypeOK
    <2>2. PICK from \in Nat, to \in Nat, g \in Nat :
            initial' = Events(fetching, from, to, g)
      <3>1. /\ base[fetching] \in Nat /\ Len(log[fetching]) \in Nat /\ generation \in Nat
        BY <2>1 DEF TypeOK
      <3> QED
        BY <1>3, <3>1 DEF FetchReturns
    <2>3. \A k \in DOMAIN initial' :
            initial'[k] = [from |-> fetching, index |-> from + k, generation |-> g]
      <3> DEFINE h == Events(fetching, from, to, g)
      <3>1. \A k \in DOMAIN h :
              h[k] = [from |-> fetching, index |-> from + k, generation |-> g]
        BY <2>1, HistoryTypes
      <3>2. initial' = h
        BY <2>2
      <3> HIDE DEF h
      <3> QED
        BY <3>1, <3>2
    <2>4. DOMAIN initial' = 1..(to - from)
      BY <2>2 DEF Events
    <2>5. ASSUME NEW k \in DOMAIN initial'
          PROVE  /\ initial'[k].from = fetching
                 /\ initial'[k].index = initial'[1].index + k - 1
      <3>1. k \in Nat /\ 1 \in DOMAIN initial'
        BY <2>4, <2>5
      <3>2. initial'[k].index = from + k /\ initial'[1].index = from + 1
        BY <2>3, <2>5, <3>1
      <3> QED
        BY <2>3, <2>5, <3>1, <3>2
    <2> QED
      BY <2>1, <2>5 DEF HistoryInOrder
  <1>4. CASE \E s \in Sessions : SwitchSession(s)
    BY <1>2, <1>4 DEF SwitchSession
  <1>5. CASE \/ Submit \/ Attempt \/ (\E n \in Turns : Retry(n))
             \/ \E w \in DOMAIN watchers : Watch(w)
    <2>1. Submit \/ Attempt => UNCHANGED <<initial, session_workflow_id>>
      BY DEF Submit, SubmitUserTurn, Interrupt, Attempt, StartSucceeds,
         SignalSucceeds, FirstAttemptFails, shownVars
    <2>2. (\E n \in Turns : Retry(n)) => UNCHANGED <<initial, session_workflow_id>>
      BY DEF Retry, RetryCalls, RetryCancelled, RetryFails, RetrySucceeds,
         RetryFrame, shownVars
    <2>3. (\E w \in DOMAIN watchers : Watch(w)) =>
            UNCHANGED <<initial, session_workflow_id>>
      BY DEF Watch, Check, Extend, Discard, Completed, Ends, shownVars
    <2> QED
      BY <1>1, <1>5, <2>1, <2>2, <2>3
  <1>6. CASE (\E s \in Sessions : Close(s)) \/ UNCHANGED vars
    BY <1>1, <1>6 DEF Close, vars, shownVars
  <1> QED
    BY <1>2, <1>3, <1>4, <1>5, <1>6 DEF Next

LEMMA HistoryHolds == Spec => []HistoryInOrder
  <1>1. Init => HistoryInOrder
    BY HistoryFromTheStart
  <1>2. TypeOK /\ HistoryInOrder /\ [Next]_vars => HistoryInOrder'
    BY HistoryIsKept
  <1> QED
    BY <1>1, <1>2, ClientTypes, PTL DEF Spec

\* A new client announces its session before it streams an event of it, and
\* unless a switch came while a submit was awaiting the server, streams the
\* events of the session on screen once and in their order, over its ends and
\* restarts: at most one of the watchers start_watching (session.rs:244) and
\* the retry of a start have spawned compares equal to the generation, and its
\* watermark only grows.  The history that resume (tui.rs:204) and switch_to
\* (session.rs:828) show besides is in order too.
THEOREM EventsAreShownInOrder == Spec => []ShownInOrder
  <1>1. EventInv /\ HistoryInOrder => ShownInOrder
    BY DEF EventInv, WatchInv, StreamedInOrder, HistoryInOrder, ShownInOrder
  <1> QED
    BY <1>1, EventInvHolds, HistoryHolds, PTL

=============================================================================

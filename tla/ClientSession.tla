--------------------------- MODULE ClientSession ---------------------------
(***************************************************************************)
(* TemporalAgentSession of src/src/session.rs: the client's end of a       *)
(* session.  Three kinds of actors share its state: the task that submits  *)
(* operations, one after the other; the user interface, which may switch   *)
(* to another session while a submit awaits the server; and background     *)
(* tasks, which retry a start or a signal, or follow an agent's events.    *)
(*                                                                         *)
(* A stretch of code without an await is one step, except in a watcher:    *)
(* it compares the generation and takes the buffer's lock a moment later,  *)
(* and a switch may come in between.  An agent is its session's main       *)
(* agent.  Its events are its turns: event i answers the i-th message it   *)
(* was given.  A session may end, and a start that is still being retried  *)
(* then starts it anew under the same id: its log goes on, and what counts *)
(* as its events begins where the log was by then.  Status messages to the *)
(* user are left out.                                                      *)
(***************************************************************************)
EXTENDS Integers, Sequences, FiniteSets

CONSTANTS
  NONE,
  Sessions,
  First,        \* the session this client was created for
  Resumes,      \* whether it was resumed, a set of Booleans
  MaxTurns,     \* bound: user turns submitted
  MaxSwitches,  \* bound: switches to another session
  Ending,       \* bound: sessions that may end
  MaxCloses,    \* bound: times each of them ends
  MaxLost       \* bound: calls the server carries out but that fail

Turns == 1..MaxTurns
Kinds == {"start", "signal"}
Submissions == [turn : Turns, kind : Kinds, session : Sessions]
Tasks == [turn : Turns, kind : Kinds, session : Sessions, agent : Sessions,
          generation : Nat, cancelled : BOOLEAN,
          state : {"sleep", "call", "done", "cancelled", "stale"}]

ASSUME ClientAssumption ==
  /\ NONE \notin Turns \cup Submissions \cup Tasks
  /\ First \in Sessions
  /\ Resumes \subseteq BOOLEAN
  /\ Ending \subseteq Sessions
  /\ MaxTurns \in Nat
  /\ MaxSwitches \in Nat
  /\ MaxCloses \in Nat
  /\ MaxLost \in Nat

VARIABLES
  \* the server: sessions whose workflow runs, the messages their main agents
  \* were given (0 is a message of an earlier client), and how many of those
  \* were for earlier executions of the session
  running, log, base,
  \* fields of the struct
  session_workflow_id, started, generation, event_buffer, watch_handle,
  submit_cancel,
  \* tasks
  submitting,   \* the UserTurn whose first attempt awaits the server
  retries,      \* [turn -> its retry task]
  watchers,     \* all watcher tasks, oldest first
  fetching,     \* the session whose history switch_to waits for
  initial,      \* initial_messages: the history shown before what is streamed
  \* history variables
  submitted,    \* user turns submitted so far
  addressed,    \* [turn -> sessions on screen while its submit ran]
  lost,         \* [turn -> attempts that took effect and failed]
  closes,       \* [session -> times it ended]
  overlapped    \* a switch came while a submit awaited the server

serverVars == <<running, log, base>>
taskVars == <<submitting, retries>>
shownVars == <<fetching, initial>>
historyVars == <<submitted, addressed, lost, closes, overlapped>>
vars == <<serverVars, session_workflow_id, started, generation, event_buffer,
          watch_handle, submit_cancel, taskVars, watchers, shownVars, historyVars>>

\* An event in the buffer; generation is history: that of the task which
\* put it there.
Configured(s) == [from |-> s, index |-> 0, generation |-> generation]
\* Mutant: a batch starts with the event the watermark stands for.
Events_Inclusive(s, from, to, g) ==
  [k \in 1..(to - from + 1) |->
     [from |-> s, index |-> from + k - 1, generation |-> g]]

Events(s, from, to, g) ==
  [k \in 1..(to - from) |-> [from |-> s, index |-> from + k, generation |-> g]]

-----------------------------------------------------------------------------
(* Watchers                                                                *)

\* Mutant: the watcher starts from the newest event.
Watcher_FromNow(s, g) ==
  [agent |-> s, generation |-> g, since_index |-> Len(log[s]) - base[s], batch |-> <<>>,
   state |-> "recv", aborted |-> FALSE]

\* A task that follows the agent of a session, from its first event on.
Watcher(s, g) ==
  [agent |-> s, generation |-> g, since_index |-> 0, batch |-> <<>>,
   state |-> "recv", aborted |-> FALSE]

\* stop_watching: an abort takes effect at the task's next await.
Aborted ==
  [w \in DOMAIN watchers |->
     IF w # watch_handle THEN watchers[w]
     ELSE IF watchers[w].state = "recv" THEN [watchers[w] EXCEPT !.state = "ended"]
     ELSE [watchers[w] EXCEPT !.aborted = TRUE]]

\* start_watching, for the session and the generation given.
StartWatching(s, g) ==
  /\ watchers' = Append(Aborted, Watcher(s, g))
  /\ watch_handle' = Len(watchers) + 1

\* drain_watcher_into_buffer: the next batch has come, and is of use.  The
\* watermark counts the events of the execution that answered.
Check(w) ==
  /\ watchers[w].state = "recv"
  /\ watchers[w].generation = generation
  /\ LET s == watchers[w].agent
         from == base[s] + watchers[w].since_index
     IN /\ Len(log[s]) > from
        /\ watchers' = [watchers EXCEPT ![w] =
             [@ EXCEPT !.state = "checked",
                       !.since_index = Len(log[s]) - base[s],
                       !.batch = Events(s, from, Len(log[s]),
                                 watchers[w].generation)]]
  /\ UNCHANGED <<serverVars, session_workflow_id, started, generation,
                 event_buffer, watch_handle, submit_cancel, taskVars,
                 shownVars, historyVars>>

Extend(w) ==
  /\ watchers[w].state = "checked"
  /\ event_buffer' = event_buffer \o watchers[w].batch
  /\ watchers' = [watchers EXCEPT ![w] =
       [@ EXCEPT !.state = IF watchers[w].aborted THEN "ended" ELSE "recv",
                 !.batch = <<>>]]
  /\ UNCHANGED <<serverVars, session_workflow_id, started, generation,
                 watch_handle, submit_cancel, taskVars, shownVars, historyVars>>

Ends(w) ==
  /\ watchers[w].state = "recv"
  /\ watchers' = [watchers EXCEPT ![w] = [@ EXCEPT !.state = "ended"]]
  /\ UNCHANGED <<serverVars, session_workflow_id, started, generation,
                 event_buffer, watch_handle, submit_cancel, taskVars,
                 shownVars, historyVars>>

\* What comes in for another generation is discarded, and the watcher with it.
Discard(w) == watchers[w].generation # generation /\ Ends(w)

\* The agent said that it shuts down.  If it did not get to, or was never
\* started, the watcher goes on asking.
Completed(w) ==
  /\ watchers[w].agent \notin running /\ closes[watchers[w].agent] > 0
  /\ Ends(w)

-----------------------------------------------------------------------------
(* new and resume                                                          *)

\* A resumed session runs already; its history so far is shown, and it is
\* followed from its first event all the same.  A new one waits for its first
\* turn.
Create(resumed) ==
  /\ running = IF resumed THEN Sessions ELSE Sessions \ {First}
  /\ log = [s \in Sessions |-> IF s \in running THEN <<0>> ELSE <<>>]
  /\ base = [s \in Sessions |-> 0]
  /\ session_workflow_id = First
  /\ started = resumed
  /\ generation = 0
  /\ event_buffer = <<>>
  /\ watchers = IF resumed THEN <<Watcher(First, 0)>> ELSE <<>>
  /\ watch_handle = IF resumed THEN 1 ELSE NONE
  /\ submit_cancel = NONE
  /\ initial = IF resumed THEN Events(First, 0, 1, 0) ELSE <<>>

Init ==
  /\ \E resumed \in Resumes : Create(resumed)
  /\ fetching = NONE
  /\ submitting = NONE
  /\ retries = [n \in Turns |-> NONE]
  /\ submitted = 0
  /\ addressed = [n \in Turns |-> {}]
  /\ lost = [n \in Turns |-> 0]
  /\ closes = [s \in Sessions |-> 0]
  /\ overlapped = FALSE

-----------------------------------------------------------------------------
(* submit                                                                  *)

\* A UserTurn makes its first attempt: the first of a new session starts the
\* workflow, a later one is a signal.  The token of the attempt, which goes by
\* the turn's number, takes the place of an older one.
SubmitUserTurn ==
  /\ submitting = NONE
  /\ submitted < MaxTurns
  /\ submitted' = submitted + 1
  /\ submit_cancel' = submitted + 1
  /\ submitting' = [turn |-> submitted + 1,
                    kind |-> IF started THEN "signal" ELSE "start",
                    session |-> session_workflow_id]
  /\ addressed' = [addressed EXCEPT ![submitted + 1] = {session_workflow_id}]
  /\ UNCHANGED <<serverVars, session_workflow_id, started, generation,
                 event_buffer, watch_handle, retries, watchers, shownVars, lost,
                 closes, overlapped>>

\* A session ends: it was shut down by whoever uses it, or it failed.
Close(s) ==
  /\ s \in running \cap Ending
  /\ closes[s] < MaxCloses
  /\ running' = running \ {s}
  /\ closes' = [closes EXCEPT ![s] = @ + 1]
  /\ UNCHANGED <<log, base, session_workflow_id, started, generation, event_buffer,
                 watch_handle, submit_cancel, taskVars, watchers, shownVars,
                 submitted, addressed, lost, overlapped>>

\* What the server does with a call: it starts a workflow unless one of that
\* id runs, be it one that ran before, and takes signals for those that run.
CanServe(call) ==
  IF call.kind = "start" THEN call.session \notin running
  ELSE call.session \in running
Serve(call) ==
  /\ CanServe(call)
  /\ running' = running \cup {call.session}
  /\ log' = [log EXCEPT ![call.session] = Append(@, call.turn)]
  /\ base' = IF call.kind = "start"
             THEN [base EXCEPT ![call.session] = Len(log[call.session])] ELSE base

StartSucceeds ==
  /\ submitting # NONE /\ submitting.kind = "start"
  /\ Serve(submitting)
  /\ started' = TRUE
  /\ submit_cancel' = NONE
  /\ event_buffer' = Append(event_buffer, Configured(submitting.session))
  /\ StartWatching(session_workflow_id, generation)
  /\ submitting' = NONE
  /\ UNCHANGED <<session_workflow_id, generation, retries, shownVars, historyVars>>

SignalSucceeds ==
  /\ submitting # NONE /\ submitting.kind = "signal"
  /\ Serve(submitting)
  /\ submit_cancel' = NONE
  /\ submitting' = NONE
  /\ UNCHANGED <<session_workflow_id, started, generation, event_buffer,
                 watch_handle, retries, watchers, shownVars, historyVars>>

\* A call fails, after it took effect if the reply is what got lost.
Fails(call) ==
  \/ UNCHANGED <<serverVars, lost>>
  \/ /\ Serve(call)
     /\ \A n \in Turns : lost[n] < MaxLost
     /\ lost' = [lost EXCEPT ![call.turn] = @ + 1]

\* The first attempt fails: a task is left to retry it.  Whom it signals, and
\* whose events it will follow, is the agent that is active by now.
FirstAttemptFails ==
  /\ submitting # NONE
  /\ Fails(submitting)
  /\ retries' = [retries EXCEPT ![submitting.turn] =
       [turn |-> submitting.turn,
        kind |-> submitting.kind,
        session |-> IF submitting.kind = "start" THEN submitting.session
                    ELSE session_workflow_id,
        agent |-> session_workflow_id,
        generation |-> generation,
        cancelled |-> FALSE,
        state |-> "sleep"]]
  /\ started' = TRUE
  /\ submitting' = NONE
  /\ UNCHANGED <<session_workflow_id, generation, event_buffer, watch_handle,
                 submit_cancel, watchers, shownVars, submitted, addressed,
                 closes, overlapped>>

\* Interrupt cancels the submit whose token is in the slot; the signal it
\* sends is best effort and nobody waits for it.
Interrupt ==
  /\ submitting = NONE
  /\ submit_cancel # NONE
  /\ submit_cancel' = NONE
  /\ retries' = IF retries[submit_cancel] = NONE THEN retries
                ELSE [retries EXCEPT ![submit_cancel].cancelled = TRUE]
  /\ UNCHANGED <<serverVars, session_workflow_id, started, generation,
                 event_buffer, watch_handle, submitting, watchers, shownVars,
                 historyVars>>

-----------------------------------------------------------------------------
(* retry_with_backoff                                                      *)

Retrying(n, state) == retries[n] # NONE /\ retries[n].state = state
Stale(n) == retries[n].kind = "start" /\ retries[n].generation # generation
\* Mutant: a call that succeeded is retried.
RetryGoesTo_NeverDone(n, state) ==
  retries' = [retries EXCEPT ![n].state = IF state = "done" THEN "sleep" ELSE state]

RetryGoesTo(n, state) == retries' = [retries EXCEPT ![n].state = state]
RetryFrame == UNCHANGED <<session_workflow_id, started, generation,
                          submit_cancel, submitting, shownVars, submitted,
                          addressed, closes, overlapped>>

\* The delay is over.  The select is not biased: the sleep may win although
\* the token is cancelled.  A start for a session that was left gives up.
RetryCalls(n) ==
  /\ Retrying(n, "sleep")
  /\ RetryGoesTo(n, IF Stale(n) THEN "stale" ELSE "call")
  /\ RetryFrame
  /\ UNCHANGED <<serverVars, event_buffer, watch_handle, watchers, lost>>

RetryCancelled(n) ==
  /\ Retrying(n, "sleep")
  /\ retries[n].cancelled
  /\ RetryGoesTo(n, "cancelled")
  /\ RetryFrame
  /\ UNCHANGED <<serverVars, event_buffer, watch_handle, watchers, lost>>

\* Mutant: the first failed retry is the last.
RetryFails_GivesUp(n) ==
  /\ Retrying(n, "call")
  /\ Fails(retries[n])
  /\ RetryGoesTo(n, IF retries[n].cancelled THEN "cancelled" ELSE "done")
  /\ RetryFrame
  /\ UNCHANGED <<event_buffer, watch_handle, watchers>>

\* Back in the loop a cancelled task finds its token before the new delay.
RetryFails(n) ==
  /\ Retrying(n, "call")
  /\ Fails(retries[n])
  /\ RetryGoesTo(n, IF retries[n].cancelled THEN "cancelled" ELSE "sleep")
  /\ RetryFrame
  /\ UNCHANGED <<event_buffer, watch_handle, watchers>>

\* A start that succeeds for the session still on screen is announced and
\* followed by the task itself.
Announce(n) ==
  IF retries[n].kind = "start" /\ ~Stale(n)
  THEN /\ event_buffer' = Append(event_buffer, Configured(retries[n].session))
       /\ watchers' = Append(watchers, Watcher(retries[n].agent, generation))
  ELSE UNCHANGED <<event_buffer, watchers>>

\* Mutant: the retry goes to the session on screen.
RetrySucceeds_ToActive(n) ==
  /\ Retrying(n, "call")
  /\ Serve([retries[n] EXCEPT !.session = session_workflow_id])
  /\ RetryGoesTo(n, "done")
  /\ Announce(n)
  /\ RetryFrame
  /\ UNCHANGED <<watch_handle, lost>>

RetrySucceeds(n) ==
  /\ Retrying(n, "call")
  /\ Serve(retries[n])
  /\ RetryGoesTo(n, "done")
  /\ Announce(n)
  /\ RetryFrame
  /\ UNCHANGED <<watch_handle, lost>>

-----------------------------------------------------------------------------
(* switch_to                                                               *)

\* Mutant: the watcher is started with the old generation.
SwitchSession_WatchesFirst(s) ==
  /\ generation < MaxSwitches
  /\ fetching = NONE
  /\ generation' = generation + 1
  /\ session_workflow_id' = s
  /\ event_buffer' = <<>>
  /\ started' = TRUE
  /\ StartWatching(s, generation)
  /\ fetching' = s
  /\ initial' = <<>>
  /\ overlapped' = (overlapped \/ submitting # NONE)
  /\ addressed' = IF submitting = NONE THEN addressed
                  ELSE [addressed EXCEPT ![submitting.turn] = @ \cup {s}]
  /\ UNCHANGED <<serverVars, submit_cancel, taskVars, submitted, lost, closes>>

\* switch_session, up to the await of fetch_initial_events.
SwitchSession(s) ==
  /\ generation < MaxSwitches
  /\ fetching = NONE
  /\ generation' = generation + 1
  /\ session_workflow_id' = s
  /\ event_buffer' = <<>>
  /\ started' = TRUE
  /\ StartWatching(s, generation + 1)
  /\ fetching' = s
  /\ initial' = <<>>
  /\ overlapped' = (overlapped \/ submitting # NONE)
  /\ addressed' = IF submitting = NONE THEN addressed
                  ELSE [addressed EXCEPT ![submitting.turn] = @ \cup {s}]
  /\ UNCHANGED <<serverVars, submit_cancel, taskVars, submitted, lost, closes>>

\* fetch_initial_events returns the events the session's agent has so far, none
\* if it does not run, or an error, which leaves the session on screen.
FetchReturns ==
  /\ fetching # NONE
  /\ \/ initial' = <<>>
     \/ /\ fetching \in running
        /\ initial' = Events(fetching, base[fetching], Len(log[fetching]), generation)
  /\ fetching' = NONE
  /\ UNCHANGED <<serverVars, session_workflow_id, started, generation,
                 event_buffer, watch_handle, submit_cancel, taskVars, watchers,
                 historyVars>>

-----------------------------------------------------------------------------
(* The specification                                                       *)

Submit == SubmitUserTurn \/ Interrupt
Attempt == StartSucceeds \/ SignalSucceeds \/ FirstAttemptFails
Retry(n) == RetryCalls(n) \/ RetryCancelled(n) \/ RetryFails(n) \/ RetrySucceeds(n)
Watch(w) == Check(w) \/ Extend(w) \/ Discard(w) \/ Completed(w)

Next ==
  \/ Submit
  \/ Attempt
  \/ \E n \in Turns : Retry(n)
  \/ \E w \in DOMAIN watchers : Watch(w)
  \/ \E s \in Sessions : SwitchSession(s) \/ Close(s)
  \/ FetchReturns

Spec == Init /\ [][Next]_vars

\* Calls return and sleeping tasks wake up; a call that is made again and
\* again, and that the server can serve, succeeds in the end.
Fairness ==
  /\ WF_vars(Attempt)
  /\ \A n \in Turns :
       /\ WF_vars(Retry(n))
       /\ SF_vars(RetrySucceeds(n))
  /\ \A w \in 1..(MaxTurns + MaxSwitches + 1) :
       WF_vars(w \in DOMAIN watchers /\ Watch(w))

FairSpec == Spec /\ Fairness

-----------------------------------------------------------------------------
(* Properties                                                              *)

Shown == [from : Sessions, index : Nat, generation : Nat]
Watchers == [agent : Sessions, generation : Nat, since_index : Nat,
             batch : Seq(Shown), state : {"recv", "checked", "ended"},
             aborted : BOOLEAN]

\* Every variable has its type; the handle names a watcher of the session and
\* the generation in force, and the slot holds the token of a turn.
TypeOK ==
  /\ running \in SUBSET Sessions
  /\ base \in [Sessions -> Nat]
  /\ log \in [Sessions -> Seq(Turns \cup {0})]
  /\ session_workflow_id \in Sessions
  /\ started \in BOOLEAN
  /\ generation \in Nat
  /\ event_buffer \in Seq(Shown)
  /\ watchers \in Seq(Watchers)
  /\ watch_handle # NONE =>
       /\ watch_handle \in DOMAIN watchers
       /\ watchers[watch_handle].agent = session_workflow_id
       /\ watchers[watch_handle].generation = generation
  /\ submit_cancel \in Turns \cup {NONE}
  /\ fetching \in {session_workflow_id, NONE}
  /\ initial \in Seq(Shown)
  /\ submitting \in Submissions \cup {NONE}
  /\ retries \in [Turns -> Tasks \cup {NONE}]
  /\ submitted \in Nat
  /\ addressed \in [Turns -> SUBSET Sessions]
  /\ lost \in [Turns -> Nat]
  /\ closes \in [Sessions -> Nat]
  /\ overlapped \in BOOLEAN

Occurrences(n) ==
  {o \in Sessions \X (1..(MaxTurns * (MaxLost + 1) + 1)) :
     o[2] \in DOMAIN log[o[1]] /\ log[o[1]][o[2]] = n}

\* A turn is given to an agent more than once only if a call took effect and
\* was reported to have failed.  The turn that starts a session is given to each
\* execution of it at most once; but a start whose reply was lost is retried for
\* ever, and so starts the session again, with the same turn, once it has ended.
TurnsAreNotRepeated ==
  \A n \in Turns :
    /\ Cardinality(Occurrences(n)) <= 1 + lost[n]
    /\ retries[n] # NONE /\ retries[n].kind = "start" =>
         Cardinality(Occurrences(n)) <= 1 + closes[retries[n].session]

\* However long it is retried, and wherever the user has gone since, a turn
\* only ever reaches a session that was on screen while it was submitted.
TurnsStayWithTheirSession ==
  \A s \in Sessions : \A i \in DOMAIN log[s] :
    log[s][i] # 0 => s \in addressed[log[s][i]]

Resumed == log[First] # <<>> /\ log[First][1] = 0

\* The first event a new client shows of its session is SessionConfigured, and
\* what is streamed of the session on screen comes in order and once, also when
\* that session ends and starts again, unless the user switched while a submit
\* was under way.  What resume and switch_to show besides is its history, in
\* order; all of it is streamed again.
ShownInOrder ==
  /\ generation = 0 /\ ~Resumed => \A j \in DOMAIN event_buffer :
       event_buffer[j].index > 0 =>
         \E i \in 1..(j - 1) : event_buffer[i].index = 0
  /\ ~overlapped =>
       \A i, j \in DOMAIN event_buffer :
         /\ i < j
         /\ event_buffer[i].generation = generation
         /\ event_buffer[j].generation = generation
         => event_buffer[i].index < event_buffer[j].index
  /\ \A j \in DOMAIN initial :
       /\ initial[j].from = session_workflow_id
       /\ initial[j].index = initial[1].index + j - 1

\* session.rs:229: switching bumps the generation "so in-flight data is
\* discarded": nothing a watcher of before the switch holds gets into the buffer.
InFlightIsDiscarded ==
  \A i \in DOMAIN event_buffer : event_buffer[i].generation = generation

Received(n) == Occurrences(n) # {}

\* Every turn submit has taken reaches an agent, unless the user cancelled
\* it, or left the session it was to start, or it is addressed to a session
\* that was never started or has ended.
TurnsArrive ==
  \A n \in Turns : submitted >= n ~>
    \/ Received(n)
    \/ /\ retries[n] # NONE
       /\ \/ retries[n].state \in {"cancelled", "stale"}
          \/ retries[n].kind = "signal" /\ retries[n].session \notin running

Followed(s) ==
  \E w \in DOMAIN watchers :
    /\ watchers[w].agent = s
    /\ watchers[w].generation = generation
    /\ watchers[w].state # "ended"

\* Once the session on screen is followed, each of its events is shown,
\* until the user switches or the session ends.
EventsAreShown ==
  \A g \in 0..MaxSwitches, k \in 1..MaxTurns :
    /\ generation = g
    /\ Followed(session_workflow_id)
    /\ Len(log[session_workflow_id]) >= k
    ~> \/ generation # g \/ closes[session_workflow_id] > 0
       \/ \E i \in DOMAIN event_buffer :
            /\ event_buffer[i].from = session_workflow_id
            /\ event_buffer[i].index = k

\* session.rs:65: started says "Whether the session workflow has been
\* started"; at least a task must still be trying to start it.
StartedMeansStarted ==
  started => \/ session_workflow_id \in running
             \/ \E n \in Turns :
                  /\ retries[n] # NONE
                  /\ retries[n].kind = "start"
                  /\ retries[n].state \in {"sleep", "call"}

=============================================================================

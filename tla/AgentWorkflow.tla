--------------------------- MODULE AgentWorkflow ---------------------------
(***************************************************************************)
(* The AgentWorkflow of src/src/workflow.rs together with the tool-call    *)
(* handler of src/src/tools.rs that runs inside its turns.                 *)
(*                                                                         *)
(* A Temporal workflow is a cooperative program: the run coroutine holds   *)
(* the thread until it awaits, and signals are applied only while it is    *)
(* parked at an await.  pc says where the coroutine is; Parked lists the   *)
(* awaits.  A value of pc outside Parked is a point inside one uninter-    *)
(* rupted stretch of code, so no signal may be handled there.              *)
(***************************************************************************)
EXTENDS Integers, Sequences, ApprovalPolicy

CONSTANTS
  NONE,            \* Option::None
  MaxIterations,   \* input.max_iterations: sampling requests per turn
  SeedTurn,        \* TRUE: the workflow input carries a non-empty user_message
  Policies,        \* approval policies an OverrideTurnContext may set
  InitialPolicy,   \* input.approval_policy
  Requests,        \* <<kind, argument>> pairs the model may ask for
  MaxTurns,        \* bound: turns accepted over the workflow's life
  MaxRuns          \* bound: continue-as-new executions

ToolKinds == {"shell", "file", "patch", "mcp", "input", "dynamic"}

\* A call of the model, and what a pending slot holds while it waits: the
\* five Pending types, in one shape (only PendingUserInput stores its turn).
Calls == [id : Nat, kind : ToolKinds, arg : STRING]
Slots == [call_id : Nat, turn_id : Nat, answer : {NONE, "yes", "no"}]

ASSUME ConstantsAssumption ==
  /\ NONE \notin Nat
  /\ NONE \notin {"yes", "no", "live", "cancelled"}
  /\ NONE \notin Calls
  /\ NONE \notin Slots
  /\ MaxIterations \in Nat
  /\ MaxTurns \in Nat
  /\ MaxRuns \in Nat
  /\ SeedTurn \in BOOLEAN
  /\ InitialPolicy \in Policies
  /\ Requests \subseteq ToolKinds \X STRING

VARIABLES
  \* fields of the workflow struct
  user_turns, turn_counter, pending, shutdown_requested, compact_requested,
  policy, interrupt_requested, current_turn_cancellation,
  events,          \* all events ever emitted; EventStream models the window
  \* the run coroutine
  pc, turn, iterations, total_iterations, handler_policy, call, history,
  run,             \* number of continue-as-new steps so far
  session_tokens,  \* token total of this run's codex-core Session
  token_usage,     \* latest TokenCount in the buffer
  \* history variable: calls for which the user sent an approving decision
  granted

signalVars == <<user_turns, turn_counter, pending, shutdown_requested,
                compact_requested, policy, interrupt_requested,
                current_turn_cancellation>>
runVars == <<pc, turn, iterations, total_iterations, handler_policy, call,
             history, run>>
tokenVars == <<session_tokens, token_usage>>
vars == <<signalVars, events, runVars, tokenVars, granted>>

-----------------------------------------------------------------------------
(* Data                                                                    *)

PendingKinds == {"approval", "patch_approval", "user_input", "elicitation",
                 "dynamic_tool"}

\* What the client hears of: events carry the turn they belong to, and the
\* call for the events of a tool call.
TurnMsgs == {"TurnStarted", "TurnComplete", "TurnAborted", "Error",
             "AgentMessage"}
CallMsgs == {"Request", "Begin", "End"}
SystemMsgs == {"ContextCompacted", "ShutdownComplete"}
Event(msg, t, c) == [msg |-> msg, turn |-> t, call |-> c]
Events == [msg : TurnMsgs \cup CallMsgs \cup SystemMsgs,
           turn : Nat \cup {NONE}, call : Nat \cup {NONE}]

NothingPending == [k \in PendingKinds |-> NONE]

\* Where the coroutine awaits: an activity, a signal, or the next turn.
Parked == pc \in {"Init", "Idle", "Model", "Wait", "Tool"}
Closed == pc \in {"Done", "Failed"}

\* The pending slot a call of this kind waits on.
SlotOf(kind) ==
  CASE kind = "shell" -> "approval"
    [] kind = "patch" -> "patch_approval"
    [] kind = "input" -> "user_input"
    [] kind = "mcp"   -> "elicitation"
    [] OTHER          -> "dynamic_tool"

-----------------------------------------------------------------------------
(* new                                                                     *)

Init ==
  /\ user_turns = IF SeedTurn THEN <<0>> ELSE <<>>
  /\ turn_counter = IF SeedTurn THEN 1 ELSE 0
  /\ pending = NothingPending
  /\ shutdown_requested = FALSE
  /\ compact_requested = FALSE
  /\ policy = InitialPolicy
  /\ interrupt_requested = FALSE
  /\ current_turn_cancellation = NONE
  /\ events = <<>>
  /\ pc = "Init"
  /\ turn = NONE
  /\ iterations = 0
  /\ total_iterations = 0
  /\ handler_policy = NONE
  /\ call = NONE
  /\ history = <<>>
  /\ run = 0
  /\ session_tokens = 0
  /\ token_usage = 0
  /\ granted = {}

-----------------------------------------------------------------------------
(* receive_op: one action per operation                                    *)

Op == Parked /\ UNCHANGED <<events, runVars, tokenVars>>

\* Mutant: the turn is numbered by the length of the queue.
UserTurn_NumberedByQueue ==
  /\ Op
  /\ turn_counter < MaxTurns
  /\ user_turns' = Append(user_turns, Len(user_turns))
  /\ turn_counter' = turn_counter + 1
  /\ UNCHANGED <<pending, shutdown_requested, compact_requested, policy,
                 interrupt_requested, current_turn_cancellation, granted>>

UserTurn ==
  /\ Op
  /\ turn_counter < MaxTurns
  /\ user_turns' = Append(user_turns, turn_counter)
  /\ turn_counter' = turn_counter + 1
  /\ UNCHANGED <<pending, shutdown_requested, compact_requested, policy,
                 interrupt_requested, current_turn_cancellation, granted>>

\* Mutant: whatever waits takes the decision.
Answers_AnyId(kind, id) == pending[kind] # NONE

\* A decision or an answer lands only in the slot that waits for that id.
\* UserInputAnswer alone may also name the turn.  An elicitation goes by the
\* server's request id, which the server may use again: an answer to an
\* earlier elicitation may match, and one that does not changes nothing.
Answers(kind, id) ==
  /\ pending[kind] # NONE
  /\ \/ kind # "elicitation" /\ id = <<"call", pending[kind].call_id>>
     \/ kind = "user_input" /\ id = <<"turn", pending[kind].turn_id>>
     \/ kind = "elicitation" /\ id[1] = "request"

\* ExecApproval, PatchApproval, UserInputAnswer, ResolveElicitation and
\* DynamicToolResponse.
Resolve(kind, id, answer) ==
  /\ Op
  /\ pending' = IF Answers(kind, id)
                THEN [pending EXCEPT ![kind] = [@ EXCEPT !.answer = answer]]
                ELSE pending
  /\ granted' = IF answer = "yes" /\ kind \in {"approval", "patch_approval"}
                THEN granted \cup {id[2]} ELSE granted
  /\ UNCHANGED <<user_turns, turn_counter, shutdown_requested,
                 compact_requested, policy, interrupt_requested,
                 current_turn_cancellation>>

Shutdown ==
  /\ Op
  /\ shutdown_requested' = TRUE
  /\ UNCHANGED <<user_turns, turn_counter, pending, compact_requested, policy,
                 interrupt_requested, current_turn_cancellation, granted>>

Compact ==
  /\ Op
  /\ run < MaxRuns
  /\ compact_requested' = TRUE
  /\ UNCHANGED <<user_turns, turn_counter, pending, shutdown_requested, policy,
                 interrupt_requested, current_turn_cancellation, granted>>

OverrideTurnContext(p) ==
  /\ Op
  /\ policy' = p
  /\ UNCHANGED <<user_turns, turn_counter, pending, shutdown_requested,
                 compact_requested, interrupt_requested,
                 current_turn_cancellation, granted>>

Interrupt ==
  /\ Op
  /\ interrupt_requested' = TRUE
  /\ current_turn_cancellation' =
       IF current_turn_cancellation = NONE THEN NONE ELSE "cancelled"
  /\ UNCHANGED <<user_turns, turn_counter, pending, shutdown_requested,
                 compact_requested, policy, granted>>

-----------------------------------------------------------------------------
(* How a turn and an execution end                                         *)

\* trigger_continue_as_new, then new on the carried state: the queue, the
\* counters, the overrides, the rollout and the event buffer survive; the
\* flags, the pending slots and the Session's token total do not.
ContinueAsNew(log) ==
  /\ run < MaxRuns
  /\ run' = run + 1
  /\ pc' = "Init"
  /\ events' = log
  /\ pending' = NothingPending
  /\ shutdown_requested' = FALSE
  /\ compact_requested' = FALSE
  /\ interrupt_requested' = FALSE
  /\ session_tokens' = 0

\* The execution goes on, or leaves run through its last event.
Proceed(log, tokens, interrupt) ==
  /\ events' = log
  /\ interrupt_requested' = interrupt
  /\ session_tokens' = tokens
  /\ UNCHANGED <<pending, shutdown_requested, compact_requested, run>>

Exit(log, tokens, interrupt) ==
  /\ pc' = "Done"
  /\ Proceed(Append(log, Event("ShutdownComplete", NONE, NONE)), tokens,
             interrupt)

\* Mutant: an aborted turn is completed as well.
EndEvents_AbortedAndComplete(log, reason) ==
  Append(CASE reason = "aborted" -> Append(log, Event("TurnAborted", turn, NONE))
           [] reason = "error" -> Append(log, Event("Error", turn, NONE))
           [] OTHER -> log,
         Event("TurnComplete", turn, NONE))

\* emit_turn_end_events
EndEvents(log, reason) ==
  CASE reason = "aborted" -> Append(log, Event("TurnAborted", turn, NONE))
    [] reason = "error" -> Append(Append(log, Event("Error", turn, NONE)),
                                  Event("TurnComplete", turn, NONE))
    [] OTHER -> Append(log, Event("TurnComplete", turn, NONE))

\* From the break of run_agentic_loop to the next await of run.  The server's
\* continue-as-new suggestion is looked at first, the shutdown flag second.
EndTurn(reason, log, tokens) ==
  /\ LET ended == EndEvents(log, reason)
         interrupt == IF reason = "aborted" THEN FALSE ELSE interrupt_requested
     IN \/ ContinueAsNew(ended)
        \/ shutdown_requested /\ Exit(ended, tokens, interrupt)
        \/ ~shutdown_requested /\ pc' = "Loop"
           /\ Proceed(ended, tokens, interrupt)
  /\ turn' = NONE
  /\ current_turn_cancellation' = NONE
  /\ iterations' = 0
  /\ handler_policy' = NONE
  /\ call' = NONE
  /\ UNCHANGED <<user_turns, turn_counter, policy, granted>>

-----------------------------------------------------------------------------
(* run: initialize and the turn loop                                       *)

AtLoopTop == pc \in {"Loop", "Idle"}

Initialize ==
  /\ pc = "Init"
  /\ pc' \in {"Loop", "Failed"}
  /\ UNCHANGED <<signalVars, events, turn, iterations, total_iterations,
                 handler_policy, call, history, run, tokenVars, granted>>

\* wait_condition finds nothing to do: the coroutine parks.
Park ==
  /\ pc = "Loop"
  /\ user_turns = <<>> /\ ~shutdown_requested /\ ~compact_requested
  /\ pc' = "Idle"
  /\ UNCHANGED <<signalVars, events, turn, iterations, total_iterations,
                 handler_policy, call, history, run, tokenVars, granted>>

\* Mutant: the rollout is not carried over.
HandleCompact_LosesRollout ==
  /\ AtLoopTop
  /\ compact_requested
  /\ ContinueAsNew(Append(events, Event("ContextCompacted", NONE, NONE)))
  /\ history' = <<>>
  /\ UNCHANGED <<user_turns, turn_counter, policy, current_turn_cancellation,
                 turn, iterations, total_iterations, handler_policy, call,
                 token_usage, granted>>

\* handle_compact
HandleCompact ==
  /\ AtLoopTop
  /\ compact_requested
  /\ ContinueAsNew(Append(events, Event("ContextCompacted", NONE, NONE)))
  /\ UNCHANGED <<user_turns, turn_counter, policy, current_turn_cancellation,
                 turn, iterations, total_iterations, handler_policy, call,
                 history, token_usage, granted>>

LeaveLoop ==
  /\ AtLoopTop
  /\ ~compact_requested
  /\ shutdown_requested /\ user_turns = <<>>
  /\ Exit(events, session_tokens, interrupt_requested)
  /\ UNCHANGED <<user_turns, turn_counter, policy, current_turn_cancellation,
                 turn, iterations, total_iterations, handler_policy, call,
                 history, token_usage, granted>>

\* The head of process_turn up to the loop of run_agentic_loop: a fresh
\* cancellation token, and the interrupt flag reset.
TakeTurn ==
  /\ AtLoopTop
  /\ ~compact_requested
  /\ user_turns # <<>>
  /\ pc' = "Check"
  /\ turn' = Head(user_turns)
  /\ user_turns' = Tail(user_turns)
  /\ events' = Append(events, Event("TurnStarted", Head(user_turns), NONE))
  /\ history' = Append(history, <<"user", Head(user_turns)>>)
  /\ current_turn_cancellation' = "live"
  /\ interrupt_requested' = FALSE
  /\ iterations' = 0
  /\ UNCHANGED <<turn_counter, pending, shutdown_requested, compact_requested,
                 policy, total_iterations, handler_policy, call, run,
                 tokenVars, granted>>

-----------------------------------------------------------------------------
(* run_agentic_loop                                                        *)

\* Mutant: the turn is left without its end.
AbortTurn_Silently ==
  /\ pc = "Check"
  /\ interrupt_requested
  /\ pc' = "Loop"
  /\ interrupt_requested' = FALSE
  /\ UNCHANGED <<user_turns, turn_counter, pending, shutdown_requested,
                 compact_requested, policy, current_turn_cancellation, events,
                 turn, iterations, total_iterations, handler_policy, call,
                 history, run, tokenVars, granted>>

\* Mutant: the iteration limit is looked at before the interrupt.
ReachMaxIterations_BeforeInterrupt ==
  /\ pc = "Check"
  /\ iterations >= MaxIterations
  /\ EndTurn("complete", Append(events, Event("AgentMessage", turn, NONE)),
             session_tokens)
  /\ UNCHANGED <<total_iterations, history, token_usage>>

\* The two ways out at the top of the loop, and the way on: a handler that
\* captures the policy in force now, and a sampling request.
AbortTurn ==
  /\ pc = "Check"
  /\ interrupt_requested
  /\ EndTurn("aborted", events, session_tokens)
  /\ UNCHANGED <<total_iterations, history, token_usage>>

ReachMaxIterations ==
  /\ pc = "Check"
  /\ ~interrupt_requested
  /\ iterations >= MaxIterations
  /\ EndTurn("complete", Append(events, Event("AgentMessage", turn, NONE)),
             session_tokens)
  /\ UNCHANGED <<total_iterations, history, token_usage>>

CallModel ==
  /\ pc = "Check"
  /\ ~interrupt_requested
  /\ iterations < MaxIterations
  /\ pc' = "Model"
  /\ handler_policy' = policy
  /\ UNCHANGED <<signalVars, events, turn, iterations, total_iterations, call,
                 history, run, tokenVars, granted>>

Uncancelled == current_turn_cancellation = "live"
Cancelled == current_turn_cancellation = "cancelled"

\* TemporalModelStreamer::stream: the select is biased to the token.
ModelAborted ==
  /\ pc = "Model"
  /\ Cancelled
  /\ total_iterations' = total_iterations + 1
  /\ EndTurn("aborted", events, session_tokens)
  /\ UNCHANGED <<history, token_usage>>

ModelFails ==
  /\ pc = "Model"
  /\ Uncancelled
  /\ total_iterations' = total_iterations + 1
  /\ EndTurn("error", events, session_tokens)
  /\ UNCHANGED <<history, token_usage>>

\* A response without tool calls ends the turn.
ModelAnswers ==
  /\ pc = "Model"
  /\ Uncancelled
  /\ total_iterations' = total_iterations + 1
  /\ token_usage' = session_tokens + 1
  /\ EndTurn("complete", events, session_tokens + 1)
  /\ UNCHANGED history

-----------------------------------------------------------------------------
(* handle_tool_call                                                        *)

\* The signals' part of the state that no handler step touches.
HandlerFrame == UNCHANGED <<user_turns, turn_counter, shutdown_requested,
                            compact_requested, policy, interrupt_requested,
                            current_turn_cancellation, turn, run, granted>>

\* The model answers with one tool call (parallel_tool_calls is false).
SampledCall(kind, arg) == [id |-> total_iterations, kind |-> kind, arg |-> arg]

Sampled ==
  /\ pc = "Model"
  /\ Uncancelled
  /\ session_tokens' = session_tokens + 1
  /\ token_usage' = session_tokens + 1

\* The handler goes on to its next await, on behalf of call c.
Await(place, c) ==
  /\ pc' = place
  /\ call' = c
  /\ UNCHANGED <<iterations, total_iterations, handler_policy, history>>
  /\ HandlerFrame

\* request_and_wait: the pending slot, the request event, the wait.
RequestAndWait(c) ==
  /\ pending' = [pending EXCEPT ![SlotOf(c.kind)] =
                   [call_id |-> c.id, turn_id |-> turn, answer |-> NONE]]
  /\ events' = Append(events, Event("Request", turn, c.id))
  /\ Await("Wait", c)

\* ExecCommandBegin or PatchApplyBegin, then the tool_exec activity.
BeginTool(c) ==
  /\ events' = Append(events, Event("Begin", turn, c.id))
  /\ Await("Tool", c)

\* The sampling request made a call, so it asks for a follow-up.
FollowUp ==
  /\ pc' = "Check"
  /\ total_iterations' = total_iterations + 1
  /\ iterations' = iterations + 1
  /\ handler_policy' = NONE
  /\ call' = NONE
  /\ HandlerFrame

\* The handler returns a response for the model, and it is recorded.
Respond(c, outcome) ==
  /\ history' = Append(history, <<outcome, c.id>>)
  /\ FollowUp

\* The handler returns Err.  codex-core's drain of the calls in flight drops
\* it with a line in the log: no response is recorded, the client hears
\* nothing, and the turn goes on.  A debug build panics there instead
\* (tools.rs:569): the workflow task fails and is tried again from the same
\* state, which is no step, until an interrupt makes ToolCancelled the step.
HandlerFails ==
  /\ FollowUp
  /\ UNCHANGED history

\* MCP tools bypass the gate and are not announced.
CallMcp(kind, arg) ==
  /\ Sampled
  /\ kind = "mcp"
  /\ Await("Tool", SampledCall(kind, arg))
  /\ UNCHANGED <<pending, events>>

\* request_user_input and dynamic tools always ask; a command or a patch does
\* when the policy the handler holds says so.
CallAsks(kind, arg) ==
  /\ Sampled
  /\ \/ kind = "input" /\ arg # "malformed"
     \/ kind = "dynamic"
     \/ kind \in {"shell", "patch"}
        /\ Decision(kind, arg, handler_policy) = "Prompt"
  /\ RequestAndWait(SampledCall(kind, arg))

CallRuns(kind, arg) ==
  /\ Sampled
  /\ kind \in {"shell", "file", "patch"}
  /\ Decision(kind, arg, handler_policy) = "Allow"
  /\ BeginTool(SampledCall(kind, arg))
  /\ UNCHANGED pending

CallRefused(kind, arg) ==
  /\ Sampled
  /\ Decision(kind, arg, handler_policy) = "Forbidden"
  /\ Respond(SampledCall(kind, arg), "refused")
  /\ UNCHANGED <<pending, events>>

CallMalformed(kind, arg) ==
  /\ Sampled
  /\ kind = "input" /\ arg = "malformed"
  /\ HandlerFails
  /\ UNCHANGED <<pending, events>>

\* Mutant: only a resolved slot is cleared.
ClearPending_ResolvedOnly ==
  pending' = IF interrupt_requested THEN pending
             ELSE [pending EXCEPT ![SlotOf(call.kind)] = NONE]

\* wait_for_resolution: the interrupt is looked at before the answer, and the
\* slot is cleared either way.
ClearPending == pending' = [pending EXCEPT ![SlotOf(call.kind)] = NONE]
Answer == pending[SlotOf(call.kind)].answer

\* Mutant: the wait ends only with an answer.
WaitInterrupted_AfterAnswer ==
  /\ pc = "Wait"
  /\ interrupt_requested
  /\ Answer # NONE
  /\ ClearPending
  /\ Respond(call, "denied")
  /\ UNCHANGED <<events, tokenVars>>

WaitInterrupted ==
  /\ pc = "Wait"
  /\ interrupt_requested
  /\ ClearPending
  /\ Respond(call, "denied")
  /\ UNCHANGED <<events, tokenVars>>

Resolved ==
  /\ pc = "Wait"
  /\ ~interrupt_requested
  /\ Answer # NONE
  /\ ClearPending
  /\ UNCHANGED tokenVars

ApprovalGranted ==
  /\ Resolved
  /\ call.kind \in {"shell", "patch"} /\ Answer = "yes"
  /\ BeginTool(call)

ApprovalDenied ==
  /\ Resolved
  /\ call.kind \in {"shell", "patch"} /\ Answer = "no"
  /\ Respond(call, "denied")
  /\ UNCHANGED events

\* The answer of the user or of the client becomes the output.
AnswerReceived ==
  /\ Resolved
  /\ call.kind \in {"input", "dynamic"}
  /\ Respond(call, "output")
  /\ UNCHANGED events

\* Any decision releases the MCP tool's output.
ElicitationResolved ==
  /\ Resolved
  /\ call.kind = "mcp"
  /\ Respond(call, "output")
  /\ UNCHANGED events

\* run_with_cancellation!, biased to the token.
ToolCancelled ==
  /\ pc = "Tool"
  /\ Cancelled
  /\ Respond(call, "denied")
  /\ UNCHANGED <<pending, events, tokenVars>>

\* Mutant: a failed activity is answered like a denied one.
ToolFails_Silently ==
  /\ pc = "Tool"
  /\ Uncancelled
  /\ Respond(call, "denied")
  /\ UNCHANGED <<pending, events, tokenVars>>

ToolFails ==
  /\ pc = "Tool"
  /\ Uncancelled
  /\ HandlerFails
  /\ UNCHANGED <<pending, events, tokenVars>>

\* ExecCommandEnd or PatchApplyEnd; an MCP tool returns silently.
ToolReturns ==
  /\ pc = "Tool"
  /\ Uncancelled
  /\ events' = IF call.kind = "mcp" THEN events
               ELSE Append(events, Event("End", turn, call.id))
  /\ Respond(call, "output")
  /\ UNCHANGED <<pending, tokenVars>>

ToolElicits ==
  /\ pc = "Tool"
  /\ Uncancelled
  /\ call.kind = "mcp"
  /\ RequestAndWait(call)
  /\ UNCHANGED tokenVars

-----------------------------------------------------------------------------
(* The specification                                                       *)

\* A client answers a call it has been asked about, now or in the past; to
\* a question it may also answer by the turn's id.
CallIds == {<<"call", c>> : c \in {events[i].call : i \in DOMAIN events} \ {NONE}}
Ids(kind) ==
  CASE kind = "elicitation" -> {<<"request", 0>>}
    [] kind = "user_input" ->
         CallIds \cup {<<"turn", t>> : t \in 0..(turn_counter - 1)}
    [] OTHER -> CallIds

Signal ==
  \/ UserTurn
  \/ \E kind \in PendingKinds, answer \in {"yes", "no"} :
       \E id \in Ids(kind) : Resolve(kind, id, answer)
  \/ Shutdown
  \/ Compact
  \/ \E p \in Policies : OverrideTurnContext(p)
  \/ Interrupt

\* Steps the coroutine takes on its own, once it is scheduled.
Loop == Park \/ HandleCompact \/ LeaveLoop \/ TakeTurn
        \/ AbortTurn \/ ReachMaxIterations \/ CallModel
Unwind == ModelAborted \/ WaitInterrupted \/ ToolCancelled

\* Steps that need an activity to finish or an answer to have arrived.
CallTool ==
  \E r \in Requests :
    \/ CallMcp(r[1], r[2])
    \/ CallAsks(r[1], r[2])
    \/ CallRuns(r[1], r[2])
    \/ CallRefused(r[1], r[2])
    \/ CallMalformed(r[1], r[2])
ModelReturns == ModelFails \/ ModelAnswers \/ CallTool
Released == ApprovalGranted \/ ApprovalDenied \/ AnswerReceived
            \/ ElicitationResolved
ToolFinishes == ToolFails \/ ToolReturns \/ ToolElicits

\* A closed workflow takes no more signals.
Closure == Closed /\ UNCHANGED vars

Next == Signal \/ Initialize \/ Loop \/ Unwind \/ ModelReturns \/ Released
        \/ ToolFinishes \/ Closure

Spec == Init /\ [][Next]_vars

\* Temporal schedules a workflow task whenever the coroutine can go on.  No
\* fairness is assumed of the user, of the model or of the tools.
SchedulingFairness == WF_vars(Loop \/ Unwind)
FairSpec == Spec /\ SchedulingFairness


-----------------------------------------------------------------------------
(* Properties                                                              *)

StartsTurn(e) == e.msg = "TurnStarted"
EndsTurn(e) == e.msg \in {"TurnComplete", "TurnAborted"}

\* Every variable has its type; a turn is current exactly between its start
\* and its end, and a call exactly while its handler waits.
TypeOK ==
  /\ user_turns \in Seq(Nat)
  /\ turn_counter \in Nat
  /\ pending \in [PendingKinds -> Slots \cup {NONE}]
  /\ shutdown_requested \in BOOLEAN
  /\ compact_requested \in BOOLEAN
  /\ policy \in Policies
  /\ interrupt_requested \in BOOLEAN
  /\ current_turn_cancellation \in {NONE, "live", "cancelled"}
  /\ events \in Seq(Events)
  /\ pc \in {"Init", "Loop", "Idle", "Check", "Model", "Wait", "Tool",
             "Done", "Failed"}
  /\ turn \in Nat \cup {NONE}
  /\ turn # NONE <=> pc \in {"Check", "Model", "Wait", "Tool"}
  /\ iterations \in Nat
  /\ total_iterations \in Nat
  /\ handler_policy \in Policies \cup {NONE}
  /\ call \in Calls \cup {NONE}
  /\ call # NONE <=> pc \in {"Wait", "Tool"}
  /\ history \in Seq({"user", "refused", "denied", "output"} \X Nat)
  /\ run \in Nat
  /\ session_tokens \in Nat
  /\ token_usage \in Nat

\* The number of turns taken off the queue so far.
Taken == turn_counter - Len(user_turns)

\* The log starts each of the first n turns, and no other, once and in order.
StartedInOrder(log, n) ==
  /\ \A t \in 0..(n - 1) :
       \E i \in DOMAIN log : log[i] = Event("TurnStarted", t, NONE)
  /\ \A i \in DOMAIN log : StartsTurn(log[i]) =>
       /\ log[i].turn \in 0..(n - 1)
       /\ \A j \in 1..(i - 1) :
            StartsTurn(log[j]) => log[j].turn < log[i].turn

\* Every turn accepted from a client is started exactly once and in the order
\* of acceptance, however many executions the workflow goes through: the
\* started turns are 0 .. Taken-1, in order, and the queue holds the rest.
TurnsRunOnceInOrder ==
  /\ \A k \in DOMAIN user_turns : user_turns[k] = Taken + k - 1
  /\ StartedInOrder(events, Taken)
  /\ turn # NONE => turn = Taken - 1

\* A client can attribute every event: what carries a turn's id lies between
\* the turn's start and its one end, and only the current turn has no end.
TurnsAreBracketed ==
  \A i \in DOMAIN events : LET t == events[i].turn IN t # NONE =>
    /\ \E s \in 1..i : events[s] = Event("TurnStarted", t, NONE)
    /\ \A k \in DOMAIN events :
         EndsTurn(events[k]) /\ events[k].turn = t => i <= k
    /\ t = turn <=>
         ~ \E k \in DOMAIN events : EndsTurn(events[k]) /\ events[k].turn = t

\* A pending slot is filled exactly while the handler of the current call
\* waits for it: no request outlives its call, its turn or its execution, so
\* no late answer can reach a later call.
NoStalePending ==
  \A k \in PendingKinds :
    /\ pending[k] # NONE <=> pc = "Wait" /\ SlotOf(call.kind) = k
    /\ pending[k] # NONE => /\ pending[k].call_id = call.id
                            /\ pending[k].turn_id = turn

\* A command or patch the user was asked about runs only if the user approved
\* that very call.
AskedCallsRunOnlyIfGranted ==
  \A i, j \in DOMAIN events :
    /\ events[i].msg = "Request"
    /\ events[j].msg = "Begin"
    /\ events[i].call = events[j].call
    => i < j /\ events[i].call \in granted

\* A command the client saw begin has an end, unless its turn is interrupted or
\* was aborted, or the model has no response to it either: it still runs, or
\* its handler failed (the client then shows it as running for ever).  No
\* command that the model has been told about lacks its end for another reason.
Answered(c) == \E i \in DOMAIN history : history[i][1] # "user" /\ history[i][2] = c

UnfinishedToolsExplained ==
  \A i \in DOMAIN events : events[i].msg = "Begin" =>
    \/ \E j \in DOMAIN events :
         events[j].msg = "End" /\ events[j].call = events[i].call
    \/ ~Answered(events[i].call)
    \/ events[i].turn = turn /\ interrupt_requested
    \/ \E j \in DOMAIN events :
         events[j].turn = events[i].turn /\ events[j].msg = "TurnAborted"

\* What the client saw the model also knows: the rollout, which continue-as-new
\* carries over, holds the message of every started turn, in order, and the
\* output of every tool that ended.
RolloutMatchesEvents ==
  /\ \A t \in 0..(Taken - 1) :
       \E i \in DOMAIN history : history[i] = <<"user", t>>
  /\ \A i \in DOMAIN history : history[i][1] = "user" =>
       \A j \in 1..(i - 1) :
         history[j][1] = "user" => history[j][2] < history[i][2]
  /\ \A i \in DOMAIN events : events[i].msg = "End" =>
       \E j \in DOMAIN history : history[j] = <<"output", events[i].call>>

\* The service a client sees.
Service == INSTANCE TurnService WITH
  queue <- user_turns,
  accepted <- turn_counter,
  active <- turn,
  cancelled <- current_turn_cancellation = "cancelled",
  outcomes <- {<<events[i].turn, events[i].msg>> :
                 i \in {j \in DOMAIN events : EndsTurn(events[j])}},
  stopped <- Closed

\* The workflow implements it: in particular an interrupted turn is aborted
\* and never completes, and a turn nobody interrupted is never aborted.
ImplementsTurnService == Service!ServiceSpec

\* An interrupt frees the agent: the turn ends although the model, the tool
\* or the user it waits for may never answer.
InterruptEndsTurn == Cancelled ~> turn = NONE

\* workflow.rs:83: "When true the workflow will exit after the current turn
\* completes."  The flag is not carried over by continue-as-new.
ShutdownIsNotForgotten == [][shutdown_requested => shutdown_requested']_vars

\* types.rs:596: "Cumulative token usage across all model calls."
TokenUsageIsCumulative == [][token_usage' >= token_usage]_vars

=============================================================================

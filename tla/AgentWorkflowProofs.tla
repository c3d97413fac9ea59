------------------------ MODULE AgentWorkflowProofs ------------------------
(***************************************************************************)
(* Theorems about AgentWorkflow, for every value of its constants.         *)
(***************************************************************************)
EXTENDS AgentWorkflow, SequenceTheorems, TLAPS

USE DEF PendingKinds, Parked, Closed

-----------------------------------------------------------------------------
(* Types                                                                   *)

\* Events are built from messages, turns and calls.
LEMMA EventTyped ==
  ASSUME NEW msg \in TurnMsgs \cup CallMsgs \cup SystemMsgs,
         NEW t \in Nat \cup {NONE}, NEW c \in Nat \cup {NONE}
  PROVE  Event(msg, t, c) \in Events
BY DEF Event, Events

\* Appending an event to a log of events gives one.
LEMMA LogAppend ==
  ASSUME NEW log \in Seq(Events),
         NEW msg \in TurnMsgs \cup CallMsgs \cup SystemMsgs,
         NEW t \in Nat \cup {NONE}, NEW c \in Nat \cup {NONE}
  PROVE  Append(log, Event(msg, t, c)) \in Seq(Events)
BY EventTyped, AppendProperties

\* emit_turn_end_events appends events of the current turn.
LEMMA EndEventsTyped ==
  ASSUME NEW log \in Seq(Events), NEW reason, turn \in Nat \cup {NONE}
  PROVE  EndEvents(log, reason) \in Seq(Events)
<1>1. Append(log, Event("TurnAborted", turn, NONE)) \in Seq(Events)
  BY LogAppend DEF TurnMsgs
<1>2. Append(log, Event("TurnComplete", turn, NONE)) \in Seq(Events)
  BY LogAppend DEF TurnMsgs
<1>3. Append(log, Event("Error", turn, NONE)) \in Seq(Events)
  BY LogAppend DEF TurnMsgs
<1>4. Append(Append(log, Event("Error", turn, NONE)),
             Event("TurnComplete", turn, NONE)) \in Seq(Events)
  BY <1>3, LogAppend DEF TurnMsgs
<1> QED BY <1>1, <1>2, <1>4 DEF EndEvents

\* However a turn ends, what EndTurn assigns has its type.
LEMMA EndTurnTyped ==
  ASSUME TypeOK, NEW reason, NEW log \in Seq(Events), NEW tokens \in Nat,
         pc \in {"Check", "Model", "Wait", "Tool"},
         EndTurn(reason, log, tokens),
         total_iterations' \in Nat, token_usage' \in Nat,
         history' \in Seq({"user", "refused", "denied", "output"} \X Nat)
  PROVE  TypeOK'
<1> DEFINE ended == EndEvents(log, reason)
<1>1. ended \in Seq(Events)
  BY EndEventsTyped DEF TypeOK
<1>2. Append(ended, Event("ShutdownComplete", NONE, NONE)) \in Seq(Events)
  BY <1>1, LogAppend DEF SystemMsgs
<1> DEFINE interrupt == IF reason = "aborted" THEN FALSE
                        ELSE interrupt_requested
           Typed == /\ events' \in Seq(Events)
                    /\ pc' \in {"Init", "Done", "Loop"}
                    /\ pending' \in [PendingKinds -> Slots \cup {NONE}]
                    /\ shutdown_requested' \in BOOLEAN
                    /\ compact_requested' \in BOOLEAN
                    /\ interrupt_requested' \in BOOLEAN
                    /\ run' \in Nat
                    /\ session_tokens' \in Nat
<1>3. ASSUME ContinueAsNew(ended) PROVE Typed
  <2>1. NothingPending \in [PendingKinds -> Slots \cup {NONE}]
    BY DEF NothingPending
  <2>2. pending' \in [PendingKinds -> Slots \cup {NONE}]
    BY <1>3, <2>1 DEF ContinueAsNew
  <2>3. events' \in Seq(Events)
    BY <1>1, <1>3 DEF ContinueAsNew
  <2>4. pc' = "Init" /\ run' \in Nat /\ session_tokens' \in Nat
    BY <1>3 DEF ContinueAsNew, TypeOK
  <2> QED BY <1>3, <2>2, <2>3, <2>4 DEF ContinueAsNew
<1>4. ASSUME Exit(ended, tokens, interrupt) PROVE Typed
  BY <1>2, <1>4 DEF Exit, Proceed, TypeOK
<1>5. ASSUME pc' = "Loop", Proceed(ended, tokens, interrupt) PROVE Typed
  BY <1>1, <1>5 DEF Proceed, TypeOK
<1>6. Typed
  <2> HIDE DEF ended, interrupt, Typed
  <2>1. \/ ContinueAsNew(ended)
        \/ Exit(ended, tokens, interrupt)
        \/ pc' = "Loop" /\ Proceed(ended, tokens, interrupt)
    BY DEF EndTurn, ended, interrupt
  <2> QED BY <2>1, <1>3, <1>4, <1>5
<1> QED BY <1>6 DEF EndTurn, TypeOK

\* A follow-up leaves the types alone.
LEMMA FollowUpTyped ==
  ASSUME TypeOK, pc \in {"Model", "Wait", "Tool"}, FollowUp,
         history' \in Seq({"user", "refused", "denied", "output"} \X Nat),
         events' \in Seq(Events),
         pending' \in [PendingKinds -> Slots \cup {NONE}],
         session_tokens' \in Nat, token_usage' \in Nat
  PROVE  TypeOK'
<1>1. /\ iterations' \in Nat
      /\ total_iterations' \in Nat
      /\ handler_policy' = NONE
      /\ call' = NONE
      /\ pc' = "Check"
  BY DEF FollowUp, TypeOK
<1> QED BY <1>1 DEF FollowUp, HandlerFrame, TypeOK

\* So does a handler that responds.
LEMMA RespondTyped ==
  ASSUME TypeOK, pc \in {"Model", "Wait", "Tool"},
         NEW c \in Calls, NEW outcome \in {"refused", "denied", "output"},
         Respond(c, outcome),
         events' \in Seq(Events),
         pending' \in [PendingKinds -> Slots \cup {NONE}],
         session_tokens' \in Nat, token_usage' \in Nat
  PROVE  TypeOK'
<1>1. history' \in Seq({"user", "refused", "denied", "output"} \X Nat)
  BY AppendProperties DEF Respond, TypeOK, Calls
<1> QED BY <1>1, FollowUpTyped DEF Respond

\* So does a handler that awaits.
LEMMA AwaitTyped ==
  ASSUME TypeOK, pc \in {"Model", "Wait", "Tool"},
         NEW place \in {"Wait", "Tool"}, NEW c \in Calls, Await(place, c),
         events' \in Seq(Events),
         pending' \in [PendingKinds -> Slots \cup {NONE}],
         session_tokens' \in Nat, token_usage' \in Nat
  PROVE  TypeOK'
<1>1. c # NONE
  BY ConstantsAssumption
<1> QED BY <1>1 DEF Await, HandlerFrame, TypeOK

\* A handler asks on behalf of a call.
LEMMA RequestAndWaitTyped ==
  ASSUME TypeOK, pc \in {"Model", "Tool"}, NEW c \in Calls,
         RequestAndWait(c), session_tokens' \in Nat, token_usage' \in Nat
  PROVE  TypeOK'
<1>1. /\ c.id \in Nat
      /\ turn \in Nat
      /\ SlotOf(c.kind) \in PendingKinds
  BY DEF Calls, TypeOK, SlotOf, ToolKinds
<1>2. [call_id |-> c.id, turn_id |-> turn, answer |-> NONE] \in Slots
  BY <1>1 DEF Slots
<1>3. pending' \in [PendingKinds -> Slots \cup {NONE}]
  BY <1>1, <1>2 DEF RequestAndWait, TypeOK
<1>4. events' \in Seq(Events)
  BY <1>1, LogAppend DEF RequestAndWait, TypeOK, CallMsgs
<1> QED BY <1>3, <1>4, AwaitTyped DEF RequestAndWait

\* A tool begins.
LEMMA BeginToolTyped ==
  ASSUME TypeOK, pc \in {"Model", "Wait"}, NEW c \in Calls, BeginTool(c),
         pending' \in [PendingKinds -> Slots \cup {NONE}],
         session_tokens' \in Nat, token_usage' \in Nat
  PROVE  TypeOK'
<1>1. c.id \in Nat /\ turn \in Nat
  BY DEF Calls, TypeOK
<1>2. events' \in Seq(Events)
  BY <1>1, LogAppend DEF BeginTool, TypeOK, CallMsgs
<1> QED BY <1>2, AwaitTyped DEF BeginTool

\* The call a handler works on, and what it finds in the slot it waits on.
LEMMA CurrentCallTyped ==
  ASSUME TypeOK, pc \in {"Wait", "Tool"}
  PROVE  /\ call \in Calls
         /\ call.id \in Nat
         /\ SlotOf(call.kind) \in PendingKinds
         /\ turn \in Nat
BY DEF TypeOK, Calls, SlotOf, ToolKinds

\* The call the model asks for is a call.
LEMMA SampledCallTyped ==
  ASSUME TypeOK, NEW r \in Requests
  PROVE  /\ r[1] \in ToolKinds
         /\ SampledCall(r[1], r[2]) \in Calls
         /\ SampledCall(r[1], r[2]).id = total_iterations
         /\ SampledCall(r[1], r[2]).kind = r[1]
<1>1. r \in ToolKinds \X STRING
  BY ConstantsAssumption
<1> QED BY <1>1 DEF SampledCall, Calls, TypeOK

\* Clearing a slot keeps the slots' type.
LEMMA ClearPendingTyped ==
  ASSUME TypeOK, pc = "Wait", ClearPending
  PROVE  pending' \in [PendingKinds -> Slots \cup {NONE}]
BY CurrentCallTyped DEF TypeOK, ClearPending

\* The initial state is type correct.
LEMMA InitTyped == Init => TypeOK
<1> SUFFICES ASSUME Init PROVE TypeOK
  OBVIOUS
<1>1. user_turns \in Seq(Nat) /\ events \in Seq(Events)
      /\ history \in Seq({"user", "refused", "denied", "output"} \X Nat)
  BY DEF Init
<1>2. pending \in [PendingKinds -> Slots \cup {NONE}]
  BY DEF Init, NothingPending
<1>3. turn = NONE /\ call = NONE /\ pc = "Init" /\ turn_counter \in Nat
  BY DEF Init
<1> QED BY <1>1, <1>2, <1>3, ConstantsAssumption DEF Init, TypeOK

\* receive_op keeps the types, whatever the operation.
LEMMA SignalTyped ==
  ASSUME TypeOK, Signal
  PROVE  TypeOK'
<1>1. CASE UserTurn
  <2>1. user_turns' \in Seq(Nat) /\ turn_counter' \in Nat
    BY <1>1, AppendProperties DEF UserTurn, TypeOK
  <2> QED BY <1>1, <2>1 DEF UserTurn, Op, runVars, tokenVars, TypeOK
<1>2. ASSUME NEW kind \in PendingKinds, NEW answer \in {"yes", "no"},
             NEW id \in Ids(kind), Resolve(kind, id, answer)
      PROVE  TypeOK'
  <2>1. pending' \in [PendingKinds -> Slots \cup {NONE}]
    <3>1. CASE Answers(kind, id)
      <4>1. pending[kind] \in Slots
        BY <3>1 DEF Answers, TypeOK
      <4>2. [pending[kind] EXCEPT !.answer = answer] \in Slots
        BY <4>1 DEF Slots
      <4> QED BY <1>2, <3>1, <4>2 DEF Resolve, TypeOK
    <3>2. CASE ~Answers(kind, id)
      BY <1>2, <3>2 DEF Resolve, TypeOK
    <3> QED BY <3>1, <3>2
  <2> QED BY <1>2, <2>1 DEF Resolve, Op, runVars, tokenVars, TypeOK
<1>3. CASE Shutdown
  BY <1>3 DEF Shutdown, Op, runVars, tokenVars, TypeOK
<1>4. CASE Compact
  BY <1>4 DEF Compact, Op, runVars, tokenVars, TypeOK
<1>5. ASSUME NEW p \in Policies, OverrideTurnContext(p) PROVE TypeOK'
  BY <1>5 DEF OverrideTurnContext, Op, runVars, tokenVars, TypeOK
<1>6. CASE Interrupt
  BY <1>6 DEF Interrupt, Op, runVars, tokenVars, TypeOK
<1> QED BY <1>1, <1>2, <1>3, <1>4, <1>5, <1>6 DEF Signal

\* The turn loop and the head of the agentic loop keep the types.
LEMMA LoopTyped ==
  ASSUME TypeOK, Initialize \/ Loop
  PROVE  TypeOK'
<1>1. CASE Initialize
  BY <1>1 DEF Initialize, signalVars, tokenVars, TypeOK
<1>2. CASE Park
  BY <1>2 DEF Park, signalVars, tokenVars, TypeOK
<1>3. CASE HandleCompact
  <2>1. events' \in Seq(Events)
    BY <1>3, LogAppend DEF HandleCompact, ContinueAsNew, TypeOK, SystemMsgs
  <2>2. pending' \in [PendingKinds -> Slots \cup {NONE}]
    BY <1>3 DEF HandleCompact, ContinueAsNew, NothingPending
  <2>3. /\ pc' = "Init" /\ run' \in Nat /\ session_tokens' = 0
        /\ shutdown_requested' = FALSE /\ compact_requested' = FALSE
        /\ interrupt_requested' = FALSE /\ pc \in {"Loop", "Idle"}
    BY <1>3 DEF HandleCompact, ContinueAsNew, TypeOK, AtLoopTop
  <2> QED BY <1>3, <2>1, <2>2, <2>3 DEF HandleCompact, TypeOK
<1>4. CASE LeaveLoop
  <2>1. events' \in Seq(Events)
    BY <1>4, LogAppend DEF LeaveLoop, Exit, Proceed, TypeOK, SystemMsgs
  <2> QED BY <1>4, <2>1 DEF LeaveLoop, Exit, Proceed, AtLoopTop, TypeOK
<1>5. CASE TakeTurn
  <2>1. Head(user_turns) \in Nat /\ Tail(user_turns) \in Seq(Nat)
    BY <1>5, HeadTailProperties DEF TakeTurn, TypeOK
  <2>2. events' \in Seq(Events)
    BY <1>5, <2>1, LogAppend DEF TakeTurn, TypeOK, TurnMsgs
  <2>3. history' \in Seq({"user", "refused", "denied", "output"} \X Nat)
    BY <1>5, <2>1, AppendProperties DEF TakeTurn, TypeOK
  <2>4. turn' # NONE
    BY <1>5, <2>1, ConstantsAssumption DEF TakeTurn
  <2> QED BY <1>5, <2>1, <2>2, <2>3, <2>4
          DEF TakeTurn, AtLoopTop, tokenVars, TypeOK
<1>6. CASE AbortTurn
  BY <1>6, EndTurnTyped DEF AbortTurn, TypeOK
<1>7. CASE ReachMaxIterations
  <2>1. Append(events, Event("AgentMessage", turn, NONE)) \in Seq(Events)
    BY LogAppend DEF TypeOK, TurnMsgs
  <2> QED BY <1>7, <2>1, EndTurnTyped DEF ReachMaxIterations, TypeOK
<1>8. CASE CallModel
  BY <1>8 DEF CallModel, signalVars, tokenVars, TypeOK
<1> QED BY <1>1, <1>2, <1>3, <1>4, <1>5, <1>6, <1>7, <1>8 DEF Loop

\* An interrupted await keeps the types.
LEMMA UnwindTyped ==
  ASSUME TypeOK, Unwind
  PROVE  TypeOK'
<1>1. CASE ModelAborted
  BY <1>1, EndTurnTyped DEF ModelAborted, TypeOK
<1>2. CASE WaitInterrupted
  BY <1>2, RespondTyped, CurrentCallTyped, ClearPendingTyped
     DEF WaitInterrupted, tokenVars, TypeOK
<1>3. CASE ToolCancelled
  BY <1>3, RespondTyped, CurrentCallTyped DEF ToolCancelled, tokenVars, TypeOK
<1> QED BY <1>1, <1>2, <1>3 DEF Unwind

\* A response with a tool call keeps the types.
LEMMA CallToolTyped ==
  ASSUME TypeOK, NEW r \in Requests,
         \/ CallMcp(r[1], r[2])
         \/ CallAsks(r[1], r[2])
         \/ CallRuns(r[1], r[2])
         \/ CallRefused(r[1], r[2])
         \/ CallMalformed(r[1], r[2])
  PROVE  TypeOK'
<1> DEFINE c == SampledCall(r[1], r[2])
<1>1. c \in Calls
  BY SampledCallTyped
<1>2. session_tokens + 1 \in Nat
  BY DEF TypeOK
<1> HIDE DEF c
<1>3. ASSUME Sampled
      PROVE  pc = "Model" /\ session_tokens' \in Nat /\ token_usage' \in Nat
  BY <1>2, <1>3 DEF Sampled
<1>4. CASE CallMcp(r[1], r[2])
  BY <1>1, <1>3, <1>4, AwaitTyped DEF CallMcp, c, TypeOK
<1>5. CASE CallAsks(r[1], r[2])
  BY <1>1, <1>3, <1>5, RequestAndWaitTyped DEF CallAsks, c
<1>6. CASE CallRuns(r[1], r[2])
  BY <1>1, <1>3, <1>6, BeginToolTyped DEF CallRuns, c, TypeOK
<1>7. CASE CallRefused(r[1], r[2])
  BY <1>1, <1>3, <1>7, RespondTyped DEF CallRefused, c, TypeOK
<1>8. CASE CallMalformed(r[1], r[2])
  BY <1>3, <1>8, FollowUpTyped DEF CallMalformed, HandlerFails, TypeOK
<1> QED BY <1>4, <1>5, <1>6, <1>7, <1>8

\* However the model activity ends, the types are kept.
LEMMA ModelReturnsTyped ==
  ASSUME TypeOK, ModelReturns
  PROVE  TypeOK'
<1>1. CASE ModelFails
  BY <1>1, EndTurnTyped DEF ModelFails, TypeOK
<1>2. CASE ModelAnswers
  BY <1>2, EndTurnTyped DEF ModelAnswers, TypeOK
<1>3. CASE CallTool
  BY <1>3, CallToolTyped DEF CallTool
<1> QED BY <1>1, <1>2, <1>3 DEF ModelReturns

\* An answered wait or a finished tool keeps the types.
LEMMA HandlerTyped ==
  ASSUME TypeOK, Released \/ ToolFinishes
  PROVE  TypeOK'
<1> DEFINE Slot == [PendingKinds -> Slots \cup {NONE}]
<1>1. ASSUME Resolved
      PROVE  /\ pc = "Wait" /\ call \in Calls /\ pending' \in Slot
             /\ session_tokens' \in Nat /\ token_usage' \in Nat
  BY <1>1, CurrentCallTyped, ClearPendingTyped DEF Resolved, tokenVars, TypeOK
<1>2. CASE ApprovalGranted
  BY <1>1, <1>2, BeginToolTyped DEF ApprovalGranted
<1>3. CASE ApprovalDenied \/ AnswerReceived \/ ElicitationResolved
  BY <1>1, <1>3, RespondTyped
     DEF ApprovalDenied, AnswerReceived, ElicitationResolved, TypeOK
<1>4. CASE ToolFails
  BY <1>4, FollowUpTyped DEF ToolFails, HandlerFails, tokenVars, TypeOK
<1>5. CASE ToolReturns
  <2>1. events' \in Seq(Events)
    BY <1>5, CurrentCallTyped, LogAppend DEF ToolReturns, TypeOK, CallMsgs
  <2> QED BY <1>5, <2>1, CurrentCallTyped, RespondTyped
          DEF ToolReturns, tokenVars, TypeOK
<1>6. CASE ToolElicits
  BY <1>6, CurrentCallTyped, RequestAndWaitTyped
     DEF ToolElicits, tokenVars, TypeOK
<1> QED BY <1>2, <1>3, <1>4, <1>5, <1>6 DEF Released, ToolFinishes

\* Every step keeps the types.
LEMMA NextTyped == TypeOK /\ [Next]_vars => TypeOK'
<1> SUFFICES ASSUME TypeOK, [Next]_vars PROVE TypeOK'
  OBVIOUS
<1>1. CASE UNCHANGED vars
  BY <1>1 DEF vars, signalVars, runVars, tokenVars, TypeOK
<1>2. CASE Next
  BY <1>1, <1>2, SignalTyped, LoopTyped, UnwindTyped, ModelReturnsTyped,
     HandlerTyped DEF Next, Closure
<1> QED BY <1>1, <1>2

\* The state keeps its types, and a turn and a call are current exactly where
\* run_agentic_loop and handle_tool_call are at work.
THEOREM TypeCorrect == Spec => []TypeOK
BY InitTyped, NextTyped, PTL DEF Spec

-----------------------------------------------------------------------------
(* Pending slots                                                           *)

\* Nobody waits: every slot is empty.
LEMMA NothingPendingOutsideWait ==
  ASSUME TypeOK, NoStalePending, pc # "Wait"
  PROVE  \A k \in PendingKinds : pending[k] = NONE
BY DEF NoStalePending

\* A state in which nobody waits and every slot is empty is fine.
LEMMA QuietSlots ==
  ASSUME pc' # "Wait", \A k \in PendingKinds : pending'[k] = NONE
  PROVE  NoStalePending'
BY DEF NoStalePending

\* The end of a turn, of an execution or of the workflow leaves none behind.
LEMMA EndTurnSlots ==
  ASSUME TypeOK, NoStalePending, pc \in {"Check", "Model", "Tool"},
         NEW reason, NEW log, NEW tokens, EndTurn(reason, log, tokens)
  PROVE  NoStalePending'
<1>1. \A k \in PendingKinds : pending[k] = NONE
  BY NothingPendingOutsideWait
<1>2. pc' \in {"Init", "Done", "Loop"}
      /\ (pending' = NothingPending \/ pending' = pending)
  BY DEF EndTurn, ContinueAsNew, Exit, Proceed
<1> QED BY <1>1, <1>2, QuietSlots DEF NothingPending

\* A request fills the one slot its handler then waits on.
LEMMA RequestSlots ==
  ASSUME TypeOK, NoStalePending, pc \in {"Model", "Tool"}, NEW c \in Calls,
         RequestAndWait(c)
  PROVE  NoStalePending'
<1>1. \A k \in PendingKinds : pending[k] = NONE
  BY NothingPendingOutsideWait
<1>2. SlotOf(c.kind) \in PendingKinds
  BY DEF Calls, SlotOf, ToolKinds
<1>3. /\ pending' = [pending EXCEPT ![SlotOf(c.kind)] =
                       [call_id |-> c.id, turn_id |-> turn, answer |-> NONE]]
      /\ pc' = "Wait" /\ call' = c /\ turn' = turn
  BY DEF RequestAndWait, Await, HandlerFrame
<1>4. [call_id |-> c.id, turn_id |-> turn, answer |-> NONE] \in Slots
  BY DEF TypeOK, Calls, Slots
<1>5. [call_id |-> c.id, turn_id |-> turn, answer |-> NONE] # NONE
  BY <1>4, ConstantsAssumption
<1>6. /\ pending'[SlotOf(c.kind)] =
           [call_id |-> c.id, turn_id |-> turn, answer |-> NONE]
      /\ \A k \in PendingKinds : k # SlotOf(c.kind) => pending'[k] = NONE
  BY <1>1, <1>2, <1>3 DEF TypeOK
<1> QED BY <1>2, <1>3, <1>5, <1>6 DEF NoStalePending

\* The wait clears its slot, however it ends.
LEMMA ClearedSlots ==
  ASSUME TypeOK, NoStalePending, pc = "Wait", ClearPending, pc' # "Wait"
  PROVE  NoStalePending'
<1>1. \A k \in PendingKinds : k # SlotOf(call.kind) => pending[k] = NONE
  BY DEF NoStalePending
<1>2. \A k \in PendingKinds : pending'[k] = NONE
  BY <1>1, CurrentCallTyped DEF ClearPending, TypeOK
<1> QED BY <1>2, QuietSlots

\* An answer that lands in a slot does not change whose slot it is.
LEMMA ResolveSlots ==
  ASSUME TypeOK, NoStalePending,
         NEW kind \in PendingKinds, NEW answer \in {"yes", "no"}, NEW id,
         Resolve(kind, id, answer)
  PROVE  NoStalePending'
<1>1. CASE Answers(kind, id)
  <2>1. pending[kind] \in Slots /\ pending[kind] # NONE
    BY <1>1 DEF Answers, TypeOK
  <2>2. [pending[kind] EXCEPT !.answer = answer] \in Slots
    BY <2>1 DEF Slots
  <2>3. [pending[kind] EXCEPT !.answer = answer] # NONE
    BY <2>2, ConstantsAssumption
  <2>4. \A k \in PendingKinds :
          /\ pending'[k] # NONE <=> pending[k] # NONE
          /\ pending[k] # NONE =>
               /\ pending'[k].call_id = pending[k].call_id
               /\ pending'[k].turn_id = pending[k].turn_id
    BY <1>1, <2>1, <2>3 DEF Resolve, TypeOK, Slots
  <2> QED BY <2>4 DEF Resolve, Op, runVars, NoStalePending
<1>2. CASE ~Answers(kind, id)
  BY <1>2 DEF Resolve, Op, runVars, NoStalePending
<1> QED BY <1>1, <1>2

\* Every step keeps the slots with their call.
LEMMA NextSlots == TypeOK /\ NoStalePending /\ [Next]_vars => NoStalePending'
<1> SUFFICES ASSUME TypeOK, NoStalePending, [Next]_vars PROVE NoStalePending'
  OBVIOUS
<1>1. CASE UNCHANGED vars
  BY <1>1 DEF vars, signalVars, runVars, NoStalePending
<1>2. CASE Signal
  <2>1. ASSUME UNCHANGED <<pending, pc, call, turn>> PROVE NoStalePending'
    BY <2>1 DEF NoStalePending
  <2> QED BY <1>2, <2>1, ResolveSlots
          DEF Signal, UserTurn, Shutdown, Compact, OverrideTurnContext,
              Interrupt, Op, runVars
<1>3. CASE Initialize \/ Park \/ TakeTurn \/ CallModel
  <2>1. pc # "Wait" /\ pc' # "Wait" /\ pending' = pending
    BY <1>3 DEF Initialize, Park, TakeTurn, CallModel, AtLoopTop, signalVars
  <2> QED BY <2>1, NothingPendingOutsideWait, QuietSlots
<1>4. CASE HandleCompact \/ LeaveLoop
  <2>1. /\ pc # "Wait" /\ pc' # "Wait"
        /\ pending' = NothingPending \/ pending' = pending
    BY <1>4 DEF HandleCompact, LeaveLoop, ContinueAsNew, Exit, Proceed,
                AtLoopTop
  <2> QED BY <2>1, NothingPendingOutsideWait, QuietSlots DEF NothingPending
<1>5. CASE \/ AbortTurn \/ ReachMaxIterations \/ ModelAborted \/ ModelFails
           \/ ModelAnswers
  BY <1>5, EndTurnSlots DEF AbortTurn, ReachMaxIterations, ModelAborted,
     ModelFails, ModelAnswers
<1>6. CASE WaitInterrupted \/ Released
  BY <1>6, ClearedSlots
     DEF WaitInterrupted, Released, Resolved, ApprovalGranted, ApprovalDenied,
         AnswerReceived, ElicitationResolved, BeginTool, Await, Respond, FollowUp
<1>7. CASE ToolCancelled \/ ToolFails \/ ToolReturns
  <2>1. pc # "Wait" /\ pc' # "Wait" /\ pending' = pending
    BY <1>7 DEF ToolCancelled, ToolFails, ToolReturns, HandlerFails, Respond,
                FollowUp
  <2> QED BY <2>1, NothingPendingOutsideWait, QuietSlots
<1>8. CASE ToolElicits
  BY <1>8, CurrentCallTyped, RequestSlots DEF ToolElicits
<1>9. CASE CallTool
  <2> PICK r \in Requests : \/ CallMcp(r[1], r[2])
                            \/ CallAsks(r[1], r[2])
                            \/ CallRuns(r[1], r[2])
                            \/ CallRefused(r[1], r[2])
                            \/ CallMalformed(r[1], r[2])
    BY <1>9 DEF CallTool
  <2>1. CASE CallMcp(r[1], r[2]) \/ CallRuns(r[1], r[2])
             \/ CallRefused(r[1], r[2]) \/ CallMalformed(r[1], r[2])
    <3>1. pc # "Wait" /\ pc' # "Wait" /\ pending' = pending
      BY <2>1 DEF CallMcp, CallRuns, CallRefused, CallMalformed, Sampled,
                  BeginTool, Await, HandlerFails, Respond, FollowUp
    <3> QED BY <3>1, NothingPendingOutsideWait, QuietSlots
  <2>2. CASE CallAsks(r[1], r[2])
    BY <2>2, SampledCallTyped, RequestSlots DEF CallAsks, Sampled
  <2> QED BY <2>1, <2>2
<1>10. CASE Closure
  BY <1>1, <1>10 DEF Closure
<1> QED BY <1>1, <1>2, <1>3, <1>4, <1>5, <1>6, <1>7, <1>8, <1>9, <1>10
        DEF Next, Loop, Unwind, ModelReturns, ToolFinishes

\* At any time the one request that waits is that of the call whose handler
\* waits for it: an answer given late, to a call that was denied, interrupted
\* or lost with its execution, finds no slot that a later call could read.
THEOREM SlotsBelongToTheirCall == Spec => []NoStalePending
<1>1. Init => NoStalePending
  BY DEF Init, NoStalePending, NothingPending
<1> QED BY <1>1, NextSlots, TypeCorrect, PTL DEF Spec

-----------------------------------------------------------------------------
(* Approvals                                                               *)

\* No call in the log has reached number n.
CallsBelow(log, n) == \A i \in DOMAIN log : log[i].call # NONE => log[i].call < n

Unbegun(log, id) == \A i \in DOMAIN log : log[i].msg = "Begin" => log[i].call # id

\* AskedCallsRunOnlyIfGranted, of a log.
AskedFirst(log, grants) ==
  \A i, j \in DOMAIN log :
    /\ log[i].msg = "Request"
    /\ log[j].msg = "Begin"
    /\ log[i].call = log[j].call
    => i < j /\ log[i].call \in grants

NextCall == IF call = NONE THEN total_iterations ELSE total_iterations + 1

\* The inductive invariant: calls are numbered as they come, a call that waits
\* or that may still ask has not begun, and an approving answer in a slot is
\* one the user gave for that call.
ApprovalInv ==
  /\ call # NONE => call.id = total_iterations
  /\ CallsBelow(events, NextCall)
  /\ pc = "Wait" => Unbegun(events, call.id)
  /\ pc = "Tool" /\ call.kind = "mcp" => Unbegun(events, call.id)
  /\ \A k \in {"approval", "patch_approval"} :
       pending[k] # NONE /\ pending[k].answer = "yes"
       => pending[k].call_id \in granted
  /\ AskedFirst(events, granted)

\* Where the entries of a log are once an event has been appended.
LEMMA AppendedEntries ==
  ASSUME NEW log \in Seq(Events), NEW e \in Events
  PROVE  /\ \A i \in DOMAIN Append(log, e) :
              \/ i \in DOMAIN log /\ Append(log, e)[i] = log[i]
              \/ i = Len(log) + 1 /\ Append(log, e)[i] = e
         /\ \A i \in DOMAIN log : /\ i \in DOMAIN Append(log, e)
                                  /\ Append(log, e)[i] = log[i]
                                 /\ i \in Nat /\ i < Len(log) + 1
         /\ Len(log) \in Nat
         /\ Len(log) + 1 \in DOMAIN Append(log, e)
         /\ Append(log, e)[Len(log) + 1] = e
<1>1. DOMAIN log = 1..Len(log) /\ Len(log) \in Nat
  BY LenProperties
<1>2. DOMAIN Append(log, e) = 1..(Len(log) + 1)
  BY AppendProperties, LenProperties
<1>3. \A i \in 1..Len(log) : Append(log, e)[i] = log[i]
  BY AppendProperties
<1>4. Append(log, e)[Len(log) + 1] = e
  BY AppendProperties
<1> QED BY <1>1, <1>2, <1>3, <1>4

\* Events that are neither requests nor begins matter to no approval.
LEMMA AppendNeutral ==
  ASSUME NEW log \in Seq(Events), NEW e \in Events, NEW n \in Nat, NEW grants,
         e.msg \notin {"Request", "Begin"},
         e.call # NONE => e.call < n,
         CallsBelow(log, n), AskedFirst(log, grants)
  PROVE  /\ CallsBelow(Append(log, e), n)
         /\ AskedFirst(Append(log, e), grants)
<1> DEFINE new == Append(log, e)
<1>1. \A i \in DOMAIN new : \/ i \in DOMAIN log /\ new[i] = log[i]
                            \/ i = Len(log) + 1 /\ new[i] = e
  BY AppendedEntries
<1> HIDE DEF new
<1>2. CallsBelow(new, n)
  BY <1>1 DEF CallsBelow
<1>3. AskedFirst(new, grants)
  BY <1>1 DEF AskedFirst
<1> QED BY <1>2, <1>3 DEF new

\* A request for a call that has not begun.
LEMMA AppendRequest ==
  ASSUME NEW log \in Seq(Events), NEW e \in Events, NEW n \in Nat, NEW grants,
         e.msg = "Request", e.call \in Nat, e.call < n,
         CallsBelow(log, n), AskedFirst(log, grants), Unbegun(log, e.call)
  PROVE  /\ CallsBelow(Append(log, e), n)
         /\ AskedFirst(Append(log, e), grants)
         /\ Unbegun(Append(log, e), e.call)
<1> DEFINE new == Append(log, e)
<1>1. \A i \in DOMAIN new : \/ i \in DOMAIN log /\ new[i] = log[i]
                            \/ i = Len(log) + 1 /\ new[i] = e
  BY AppendedEntries
<1> HIDE DEF new
<1>2. CallsBelow(new, n)
  BY <1>1 DEF CallsBelow
<1>3. AskedFirst(new, grants)
  BY <1>1 DEF AskedFirst, Unbegun
<1>4. Unbegun(new, e.call)
  BY <1>1 DEF Unbegun
<1> QED BY <1>2, <1>3, <1>4 DEF new

\* The begin of a call that was granted, if it was ever asked for.
LEMMA AppendBegin ==
  ASSUME NEW log \in Seq(Events), NEW e \in Events, NEW n \in Nat, NEW grants,
         e.msg = "Begin", e.call \in Nat, e.call < n,
         CallsBelow(log, n), AskedFirst(log, grants),
         \A i \in DOMAIN log : log[i].call = e.call => e.call \in grants
  PROVE  /\ CallsBelow(Append(log, e), n)
         /\ AskedFirst(Append(log, e), grants)
<1> DEFINE new == Append(log, e)
<1>1. /\ \A i \in DOMAIN new : \/ i \in DOMAIN log /\ new[i] = log[i]
                               \/ i = Len(log) + 1 /\ new[i] = e
      /\ \A i \in DOMAIN log : i < Len(log) + 1
  BY AppendedEntries
<1> HIDE DEF new
<1>2. CallsBelow(new, n)
  BY <1>1 DEF CallsBelow
<1>3. AskedFirst(new, grants)
  BY <1>1 DEF AskedFirst
<1> QED BY <1>2, <1>3 DEF new

\* A bound on the calls of a log may be raised.
LEMMA CallsBelowMonotone ==
  ASSUME NEW log \in Seq(Events), NEW m \in Nat, NEW n \in Nat, m <= n,
         CallsBelow(log, m)
  PROVE  CallsBelow(log, n)
<1>1. \A i \in DOMAIN log : log[i] \in Events
  BY LenProperties
<1>2. \A i \in DOMAIN log : log[i].call \in Nat \cup {NONE}
  BY <1>1 DEF Events
<1> QED BY <1>2 DEF CallsBelow

\* The number of the next call is at most one ahead of the count.
LEMMA NextCallTyped ==
  ASSUME TypeOK
  PROVE  /\ NextCall \in Nat
         /\ total_iterations <= NextCall
         /\ NextCall <= total_iterations + 1
BY DEF NextCall, TypeOK

\* Between calls the log is all that matters.
LEMMA BetweenCalls ==
  ASSUME call' = NONE, pc' \notin {"Wait", "Tool"},
         \A k \in PendingKinds : pending'[k] = NONE,
         CallsBelow(events', total_iterations'),
         AskedFirst(events', granted')
  PROVE  ApprovalInv'
BY DEF ApprovalInv, NextCall

\* The events that end a turn concern no call.
LEMMA EndEventsApprovals ==
  ASSUME TypeOK, NEW reason, NEW log \in Seq(Events), NEW n \in Nat,
         CallsBelow(log, n), AskedFirst(log, granted)
  PROVE  /\ CallsBelow(EndEvents(log, reason), n)
         /\ AskedFirst(EndEvents(log, reason), granted)
         /\ EndEvents(log, reason) \in Seq(Events)
<1> DEFINE e(msg) == Event(msg, turn, NONE)
           Fine(l) == /\ l \in Seq(Events)
                      /\ CallsBelow(l, n)
                      /\ AskedFirst(l, granted)
<1>1. ASSUME NEW l, Fine(l), NEW msg \in {"TurnAborted", "Error", "TurnComplete"}
      PROVE  Fine(Append(l, e(msg)))
  <2>1. /\ e(msg) \in Events
        /\ e(msg).msg = msg /\ e(msg).call = NONE
    BY EventTyped DEF TypeOK, TurnMsgs, Event
  <2> QED BY <1>1, <2>1, AppendNeutral, AppendProperties
<1>2. Fine(log)
  OBVIOUS
<1> HIDE DEF e, Fine
<1>3. /\ Fine(Append(log, e("TurnAborted")))
      /\ Fine(Append(log, e("TurnComplete")))
      /\ Fine(Append(Append(log, e("Error")), e("TurnComplete")))
  BY <1>1, <1>2
<1>4. Fine(EndEvents(log, reason))
  BY <1>3 DEF EndEvents, e
<1> QED BY <1>4 DEF Fine

\* The end of a turn.
LEMMA EndTurnApprovals ==
  ASSUME TypeOK, NoStalePending, ApprovalInv,
         pc \in {"Check", "Model", "Tool"},
         NEW reason, NEW log \in Seq(Events), NEW tokens,
         EndTurn(reason, log, tokens),
         CallsBelow(log, NextCall), AskedFirst(log, granted),
         total_iterations' \in Nat, NextCall <= total_iterations'
  PROVE  ApprovalInv'
<1> DEFINE ended == EndEvents(log, reason)
           Fine(l) == CallsBelow(l, total_iterations') /\ AskedFirst(l, granted)
<1>1. CallsBelow(log, total_iterations')
  BY CallsBelowMonotone, NextCallTyped
<1>2. Fine(ended) /\ ended \in Seq(Events)
  BY <1>1, EndEventsApprovals
<1>3. Fine(Append(ended, Event("ShutdownComplete", NONE, NONE)))
  <2>1. /\ Event("ShutdownComplete", NONE, NONE) \in Events
        /\ Event("ShutdownComplete", NONE, NONE).call = NONE
        /\ Event("ShutdownComplete", NONE, NONE).msg = "ShutdownComplete"
    BY EventTyped DEF SystemMsgs, Event
  <2> QED BY <1>2, <2>1, AppendNeutral
<1>4. /\ \/ events' = ended
         \/ events' = Append(ended, Event("ShutdownComplete", NONE, NONE))
      /\ pending' = NothingPending \/ pending' = pending
      /\ pc' \in {"Init", "Done", "Loop"}
      /\ call' = NONE /\ granted' = granted
  BY DEF EndTurn, ContinueAsNew, Exit, Proceed
<1>5. \A k \in PendingKinds : pending'[k] = NONE
  BY <1>4, NothingPendingOutsideWait DEF NothingPending
<1>6. Fine(events')
  BY <1>2, <1>3, <1>4
<1> QED BY <1>4, <1>5, <1>6, BetweenCalls

\* The call is over: no slot is left and the next call has a new number.
LEMMA FollowUpApprovals ==
  ASSUME TypeOK, FollowUp,
         events' \in Seq(Events),
         CallsBelow(events', NextCall), AskedFirst(events', granted),
         \A k \in PendingKinds : pending'[k] = NONE
  PROVE  ApprovalInv'
<1>1. /\ total_iterations' = total_iterations + 1
      /\ call' = NONE /\ pc' = "Check" /\ granted' = granted
  BY DEF FollowUp, HandlerFrame
<1>2. CallsBelow(events', total_iterations')
  <2>1. total_iterations + 1 \in Nat
    BY DEF TypeOK
  <2> QED BY <1>1, <2>1, NextCallTyped, CallsBelowMonotone
<1> QED BY <1>1, <1>2, BetweenCalls

\* The number the next call gets has not been used.
LEMMA FreshCall ==
  ASSUME TypeOK, ApprovalInv, pc = "Model"
  PROVE  \A i \in DOMAIN events : events[i].call # total_iterations
<1>1. CallsBelow(events, total_iterations)
  BY DEF ApprovalInv, NextCall, TypeOK
<1>2. \A i \in DOMAIN events : events[i] \in Events
  BY LenProperties DEF TypeOK
<1>3. total_iterations \in Nat /\ total_iterations # NONE
  BY ConstantsAssumption DEF TypeOK
<1> QED BY <1>1, <1>2, <1>3 DEF CallsBelow, Events

\* The handler asks on behalf of a call that has not begun.
LEMMA RequestApprovals ==
  ASSUME TypeOK, NoStalePending, ApprovalInv, pc \in {"Model", "Tool"},
         NEW c \in Calls, c.id = total_iterations, Unbegun(events, c.id),
         RequestAndWait(c)
  PROVE  ApprovalInv'
<1> DEFINE e == Event("Request", turn, c.id)
           n == total_iterations + 1
<1>1. c.id \in Nat /\ n \in Nat /\ c.id < n /\ turn \in Nat
  BY DEF Calls, TypeOK
<1>2. e \in Events /\ e.msg = "Request" /\ e.call = c.id
  BY <1>1, EventTyped DEF Event, CallMsgs
<1>3. /\ events \in Seq(Events) /\ CallsBelow(events, n)
      /\ AskedFirst(events, granted)
  BY <1>1, NextCallTyped, CallsBelowMonotone DEF TypeOK, ApprovalInv
<1>4. /\ CallsBelow(Append(events, e), n)
      /\ AskedFirst(Append(events, e), granted)
      /\ Unbegun(Append(events, e), c.id)
  <2> HIDE DEF e, n
  <2> QED BY <1>1, <1>2, <1>3, AppendRequest
<1>5. /\ events' = Append(events, e) /\ pc' = "Wait" /\ call' = c
      /\ total_iterations' = total_iterations /\ granted' = granted
      /\ pending' = [pending EXCEPT ![SlotOf(c.kind)] =
                       [call_id |-> c.id, turn_id |-> turn, answer |-> NONE]]
  BY DEF RequestAndWait, Await, HandlerFrame
<1>6. c # NONE /\ NONE # "yes"
  BY ConstantsAssumption
<1>7. \A k \in PendingKinds :
        pending'[k] # NONE => pending'[k].answer = NONE
  BY <1>5, NothingPendingOutsideWait DEF TypeOK
<1> QED BY <1>4, <1>5, <1>6, <1>7 DEF ApprovalInv, NextCall

\* A tool begins for a call the user granted, if it was ever announced.
LEMMA BeginApprovals ==
  ASSUME TypeOK, ApprovalInv, NEW c \in Calls, c.id = total_iterations,
         c.kind # "mcp", BeginTool(c),
         \A i \in DOMAIN events : events[i].call = c.id => c.id \in granted,
         \A k \in PendingKinds : pending'[k] = NONE,
         turn \in Nat
  PROVE  ApprovalInv'
<1> DEFINE e == Event("Begin", turn, c.id)
           n == total_iterations + 1
<1>1. c.id \in Nat /\ n \in Nat /\ c.id < n
  BY DEF Calls, TypeOK
<1>2. e \in Events /\ e.msg = "Begin" /\ e.call = c.id
  BY <1>1, EventTyped DEF Event, CallMsgs
<1>3. /\ events \in Seq(Events) /\ CallsBelow(events, n)
      /\ AskedFirst(events, granted)
  BY <1>1, NextCallTyped, CallsBelowMonotone DEF TypeOK, ApprovalInv
<1>4. /\ CallsBelow(Append(events, e), n)
      /\ AskedFirst(Append(events, e), granted)
  <2> HIDE DEF e, n
  <2> QED BY <1>1, <1>2, <1>3, AppendBegin
<1>5. /\ events' = Append(events, e) /\ pc' = "Tool" /\ call' = c
      /\ total_iterations' = total_iterations /\ granted' = granted
  BY DEF BeginTool, Await, HandlerFrame
<1>6. c # NONE
  BY ConstantsAssumption
<1> QED BY <1>4, <1>5, <1>6 DEF ApprovalInv, NextCall

\* A decision reaches the slot of the call it names, and no other.
LEMMA ResolveApprovals ==
  ASSUME TypeOK, ApprovalInv,
         NEW kind \in PendingKinds, NEW answer \in {"yes", "no"},
         NEW id \in Ids(kind), Resolve(kind, id, answer)
  PROVE  ApprovalInv'
<1>1. /\ UNCHANGED <<pc, call, events, total_iterations>>
      /\ granted \subseteq granted'
  BY DEF Resolve, Op, runVars
<1>2. AskedFirst(events, granted')
  BY <1>1 DEF ApprovalInv, AskedFirst
<1>3. ASSUME NEW k \in {"approval", "patch_approval"},
             pending'[k] # NONE, pending'[k].answer = "yes"
      PROVE  pending'[k].call_id \in granted'
  <2>1. CASE pending'[k] = pending[k]
    BY <1>1, <1>3, <2>1 DEF ApprovalInv
  <2>2. CASE pending'[k] # pending[k]
    <3>1. k = kind /\ Answers(kind, id)
      BY <2>2 DEF Resolve, TypeOK
    <3>2. pending[k] \in Slots
      BY <3>1 DEF Answers, TypeOK
    <3>3. pending'[k] = [pending[k] EXCEPT !.answer = answer]
      BY <3>1 DEF Resolve, TypeOK
    <3>4. pending'[k].answer = answer /\ pending'[k].call_id = pending[k].call_id
      BY <3>2, <3>3 DEF Slots
    <3>5. id[2] = pending[k].call_id
      BY <3>1 DEF Answers
    <3>6. id[2] \in granted'
      BY <1>3, <3>1, <3>4 DEF Resolve
    <3> QED BY <3>4, <3>5, <3>6
  <2> QED BY <2>1, <2>2
<1> QED BY <1>1, <1>2, <1>3 DEF ApprovalInv, NextCall

\* The wait is over: whatever the handler does next, its slot is empty and the
\* answer it acts on was given for this call.
LEMMA ReleasedApprovals ==
  ASSUME TypeOK, NoStalePending, ApprovalInv, WaitInterrupted \/ Released
  PROVE  ApprovalInv'
<1>1. pc = "Wait" /\ ClearPending
  BY DEF WaitInterrupted, Released, Resolved, ApprovalGranted, ApprovalDenied,
         AnswerReceived, ElicitationResolved
<1>2. \A k \in PendingKinds : pending'[k] = NONE
  BY <1>1, CurrentCallTyped DEF ClearPending, TypeOK, NoStalePending
<1>3. call.id = total_iterations /\ CallsBelow(events, NextCall)
      /\ AskedFirst(events, granted)
  BY <1>1 DEF ApprovalInv, TypeOK
<1>4. CASE ApprovalGranted
  <2>1. pending[SlotOf(call.kind)] # NONE
    BY <1>1, CurrentCallTyped, <1>4, ConstantsAssumption
       DEF NoStalePending, ApprovalGranted, Answer, TypeOK
  <2>2. SlotOf(call.kind) \in {"approval", "patch_approval"}
    BY <1>4 DEF ApprovalGranted, SlotOf
  <2>3. call.id \in granted
    BY <1>1, <1>4, <2>1, <2>2 DEF ApprovalGranted, Answer, ApprovalInv,
       NoStalePending
  <2>4. call.kind # "mcp"
    BY <1>4 DEF ApprovalGranted
  <2> QED BY <1>1, <1>2, <1>3, <1>4, <2>3, <2>4, CurrentCallTyped,
             BeginApprovals DEF ApprovalGranted
<1>5. CASE WaitInterrupted \/ ApprovalDenied \/ AnswerReceived
           \/ ElicitationResolved
  <2>1. events' = events
    BY <1>5 DEF WaitInterrupted, ApprovalDenied, AnswerReceived,
                ElicitationResolved
  <2> QED BY <1>2, <1>3, <1>5, <2>1, FollowUpApprovals
          DEF Respond, WaitInterrupted, ApprovalDenied, AnswerReceived,
              ElicitationResolved, TypeOK
<1> QED BY <1>4, <1>5 DEF Released

\* A response with a tool call keeps the approval invariant.
LEMMA CallToolApprovals ==
  ASSUME TypeOK, NoStalePending, ApprovalInv, CallTool
  PROVE  ApprovalInv'
<1> PICK r \in Requests : \/ CallMcp(r[1], r[2])
                          \/ CallAsks(r[1], r[2])
                          \/ CallRuns(r[1], r[2])
                          \/ CallRefused(r[1], r[2])
                          \/ CallMalformed(r[1], r[2])
  BY DEF CallTool
<1> DEFINE c == SampledCall(r[1], r[2])
<1>1. c \in Calls /\ c.id = total_iterations /\ c.kind = r[1]
  BY SampledCallTyped
<1>2. pc = "Model" /\ call = NONE /\ turn \in Nat
  BY DEF CallMcp, CallAsks, CallRuns, CallRefused, CallMalformed, Sampled,
         TypeOK
<1>3. /\ Unbegun(events, total_iterations)
      /\ \A i \in DOMAIN events : events[i].call # total_iterations
  BY <1>2, FreshCall DEF Unbegun
<1>4. \A k \in PendingKinds : pending[k] = NONE
  BY <1>2, NothingPendingOutsideWait
<1>5. /\ CallsBelow(events, NextCall) /\ AskedFirst(events, granted)
      /\ events \in Seq(Events) /\ total_iterations \in Nat
  BY DEF ApprovalInv, TypeOK
<1> HIDE DEF c
<1>6. CASE CallMcp(r[1], r[2])
  <2>1. /\ pc' = "Tool" /\ call' = c
        /\ UNCHANGED <<events, pending, granted, total_iterations>>
    BY <1>6 DEF CallMcp, Await, HandlerFrame, c
  <2>2. c # NONE
    BY <1>1, ConstantsAssumption
  <2>3. CallsBelow(events, total_iterations + 1)
    BY <1>5, NextCallTyped, CallsBelowMonotone
  <2> QED BY <1>1, <1>3, <1>4, <1>5, <2>1, <2>2, <2>3
          DEF ApprovalInv, NextCall
<1>7. CASE CallAsks(r[1], r[2])
  BY <1>1, <1>2, <1>3, <1>7, RequestApprovals DEF CallAsks, c
<1>8. CASE CallRuns(r[1], r[2])
  <2>1. BeginTool(c) /\ c.kind # "mcp"
        /\ \A k \in PendingKinds : pending'[k] = NONE
    BY <1>1, <1>4, <1>8 DEF CallRuns, c
  <2> QED BY <1>1, <1>2, <1>3, <2>1, BeginApprovals
<1>9. CASE CallRefused(r[1], r[2])
  BY <1>4, <1>5, <1>9, FollowUpApprovals
     DEF CallRefused, Respond, c
<1>10. CASE CallMalformed(r[1], r[2])
  BY <1>4, <1>5, <1>10, FollowUpApprovals DEF CallMalformed, HandlerFails
<1> QED BY <1>6, <1>7, <1>8, <1>9, <1>10

\* Every step keeps the approval invariant.
LEMMA NextApprovals ==
  TypeOK /\ NoStalePending /\ ApprovalInv /\ [Next]_vars => ApprovalInv'
<1> SUFFICES ASSUME TypeOK, NoStalePending, ApprovalInv, [Next]_vars
             PROVE  ApprovalInv'
  OBVIOUS
<1>1. ASSUME UNCHANGED <<pc, call, events, pending, granted, total_iterations>>
      PROVE  ApprovalInv'
  BY <1>1 DEF ApprovalInv, NextCall
<1>2. /\ CallsBelow(events, NextCall) /\ AskedFirst(events, granted)
      /\ events \in Seq(Events) /\ total_iterations \in Nat
      /\ NextCall \in Nat
  BY NextCallTyped DEF ApprovalInv, TypeOK
<1>3. CASE UNCHANGED vars
  BY <1>1, <1>3 DEF vars, signalVars, runVars
<1>4. CASE Signal
  BY <1>1, <1>4, ResolveApprovals
     DEF Signal, UserTurn, Shutdown, Compact, OverrideTurnContext, Interrupt,
         Op, runVars
<1>5. CASE Initialize \/ Park \/ CallModel
  <2>1. /\ pc \notin {"Wait", "Tool"} /\ pc' \notin {"Wait", "Tool"}
        /\ UNCHANGED <<call, events, pending, granted, total_iterations>>
    BY <1>5 DEF Initialize, Park, CallModel, AtLoopTop, signalVars
  <2> QED BY <2>1 DEF ApprovalInv, NextCall
<1>6. CASE TakeTurn \/ HandleCompact \/ LeaveLoop
  <2>1. PICK msg \in {"TurnStarted", "ContextCompacted", "ShutdownComplete"},
             t \in Nat \cup {NONE} : events' = Append(events, Event(msg, t, NONE))
    BY <1>6, HeadTailProperties
       DEF TakeTurn, HandleCompact, LeaveLoop, ContinueAsNew, Exit, Proceed,
           TypeOK
  <2>2. /\ Event(msg, t, NONE) \in Events
        /\ Event(msg, t, NONE).msg = msg /\ Event(msg, t, NONE).call = NONE
    BY EventTyped DEF TurnMsgs, SystemMsgs, Event
  <2>3. CallsBelow(events', NextCall) /\ AskedFirst(events', granted)
    BY <1>2, <2>1, <2>2, AppendNeutral
  <2>4. /\ pc \notin {"Wait", "Tool"} /\ pc' \notin {"Wait", "Tool"}
        /\ UNCHANGED <<call, granted, total_iterations>>
        /\ pending' = NothingPending \/ pending' = pending
    BY <1>6 DEF TakeTurn, HandleCompact, LeaveLoop, ContinueAsNew, Exit,
                Proceed, AtLoopTop
  <2>5. \A k \in PendingKinds : pending'[k] = NONE
    BY <2>4, NothingPendingOutsideWait DEF NothingPending
  <2>6. call = NONE /\ NextCall = total_iterations
    BY <2>4 DEF TypeOK, NextCall
  <2> QED BY <2>3, <2>4, <2>5, <2>6, BetweenCalls
<1>7. CASE ReachMaxIterations
  <2> DEFINE e == Event("AgentMessage", turn, NONE)
  <2>1. e \in Events /\ e.msg = "AgentMessage" /\ e.call = NONE
    BY EventTyped DEF TurnMsgs, Event, TypeOK
  <2>2. /\ CallsBelow(Append(events, e), NextCall)
        /\ AskedFirst(Append(events, e), granted)
        /\ Append(events, e) \in Seq(Events)
    <3> HIDE DEF e
    <3> QED BY <1>2, <2>1, AppendNeutral, AppendProperties
  <2>3. NextCall = total_iterations
    BY <1>7 DEF ReachMaxIterations, NextCall, TypeOK
  <2>4. /\ EndTurn("complete", Append(events, e), session_tokens)
        /\ pc = "Check" /\ total_iterations' = total_iterations
    BY <1>7 DEF ReachMaxIterations
  <2>5. total_iterations' \in Nat /\ NextCall <= total_iterations'
    BY <1>2, <2>3, <2>4
  <2> DEFINE log == Append(events, e)
  <2>6. /\ EndTurn("complete", log, session_tokens)
        /\ log \in Seq(Events)
        /\ CallsBelow(log, NextCall) /\ AskedFirst(log, granted)
    BY <2>2, <2>4
  <2> HIDE DEF log
  <2> QED BY <2>4, <2>5, <2>6, EndTurnApprovals
<1>8. CASE AbortTurn
  <2>1. /\ EndTurn("aborted", events, session_tokens)
        /\ pc = "Check" /\ total_iterations' = total_iterations
        /\ NextCall = total_iterations
    BY <1>8 DEF AbortTurn, NextCall, TypeOK
  <2> QED BY <1>2, <2>1, EndTurnApprovals
<1>9. CASE ModelAborted \/ ModelFails \/ ModelAnswers
  <2>1. /\ pc = "Model" /\ total_iterations' = total_iterations + 1
        /\ \E reason, tokens : EndTurn(reason, events, tokens)
    BY <1>9 DEF ModelAborted, ModelFails, ModelAnswers
  <2> QED BY <1>2, <2>1, NextCallTyped, EndTurnApprovals
<1>10. CASE ToolCancelled \/ ToolFails \/ ToolReturns
  <2>1. pc = "Tool" /\ pending' = pending
    BY <1>10 DEF ToolCancelled, ToolFails, ToolReturns
  <2>2. \A k \in PendingKinds : pending'[k] = NONE
    BY <2>1, NothingPendingOutsideWait
  <2> DEFINE e == Event("End", turn, call.id)
  <2>3. events' = events \/ events' = Append(events, e)
    BY <1>10 DEF ToolCancelled, ToolFails, ToolReturns
  <2>4. e \in Events /\ e.msg = "End" /\ e.call = call.id
    BY <2>1, CurrentCallTyped, EventTyped DEF CallMsgs, Event
  <2>5. call.id < NextCall
    BY <2>1 DEF ApprovalInv, TypeOK, NextCall
  <2> HIDE DEF e
  <2>6. /\ CallsBelow(events', NextCall) /\ AskedFirst(events', granted)
        /\ events' \in Seq(Events)
    <3>1. /\ CallsBelow(Append(events, e), NextCall)
          /\ AskedFirst(Append(events, e), granted)
          /\ Append(events, e) \in Seq(Events)
      BY <1>2, <2>4, <2>5, AppendNeutral, AppendProperties
    <3> QED BY <1>2, <2>3, <3>1
  <2> QED BY <1>10, <2>2, <2>6, FollowUpApprovals
          DEF ToolCancelled, ToolFails, ToolReturns, HandlerFails, Respond
<1>11. CASE ToolElicits
  BY <1>11, CurrentCallTyped, RequestApprovals DEF ToolElicits, ApprovalInv,
     TypeOK
<1> QED BY <1>3, <1>4, <1>5, <1>6, <1>7, <1>8, <1>9, <1>10, <1>11,
           ReleasedApprovals, CallToolApprovals
        DEF Next, Loop, Unwind, ModelReturns, ToolFinishes, Closure

\* The approval invariant holds throughout.
LEMMA ApprovalInvHolds == Spec => []ApprovalInv
<1>1. Init => ApprovalInv
  BY DEF Init, ApprovalInv, CallsBelow, AskedFirst, NothingPending
<1> QED BY <1>1, NextApprovals, TypeCorrect, SlotsBelongToTheirCall,
           PTL DEF Spec

\* A command or a patch that the user was asked about begins only after the
\* request, and only if the user approved that very call.
THEOREM ApprovalsAreRespected == Spec => []AskedCallsRunOnlyIfGranted
<1>1. ApprovalInv => AskedCallsRunOnlyIfGranted
  BY DEF ApprovalInv, AskedFirst, AskedCallsRunOnlyIfGranted
<1> QED BY <1>1, ApprovalInvHolds, PTL

-----------------------------------------------------------------------------
(* The order of turns                                                      *)

\* The inductive invariant: the property, and no more turns in the queue than
\* were accepted.
OrderInv == TurnsRunOnceInOrder /\ Taken \in Nat

\* An event that starts no turn leaves the order of the starts alone.
LEMMA AppendOtherTurn ==
  ASSUME NEW log \in Seq(Events), NEW e \in Events, NEW n \in Nat,
         e.msg # "TurnStarted", StartedInOrder(log, n)
  PROVE  StartedInOrder(Append(log, e), n)
<1> DEFINE new == Append(log, e)
<1>1. \A i \in DOMAIN new : \/ i \in DOMAIN log /\ new[i] = log[i]
                            \/ i = Len(log) + 1 /\ new[i] = e
  BY AppendedEntries
<1>2. \A i \in DOMAIN log : i \in DOMAIN new /\ new[i] = log[i]
  BY AppendedEntries
<1>3. \A i \in DOMAIN log : i \in Nat /\ \A j \in 1..(i - 1) : j \in DOMAIN log
  BY LenProperties
<1> HIDE DEF new
<1>4. ASSUME NEW t \in 0..(n - 1)
      PROVE  \E i \in DOMAIN new : new[i] = Event("TurnStarted", t, NONE)
  BY <1>2 DEF StartedInOrder
<1>5. ASSUME NEW i \in DOMAIN new, StartsTurn(new[i])
      PROVE  /\ new[i].turn \in 0..(n - 1)
             /\ \A j \in 1..(i - 1) :
                  StartsTurn(new[j]) => new[j].turn < new[i].turn
  <2>1. i \in DOMAIN log /\ new[i] = log[i]
    BY <1>1, <1>5 DEF StartsTurn
  <2> QED BY <1>2, <1>3, <1>5, <2>1 DEF StartedInOrder
<1> QED BY <1>4, <1>5 DEF StartedInOrder, new

\* The start of the next turn continues the order.
LEMMA AppendNextTurn ==
  ASSUME NEW log \in Seq(Events), NEW n \in Nat, StartedInOrder(log, n)
  PROVE  StartedInOrder(Append(log, Event("TurnStarted", n, NONE)), n + 1)
<1> DEFINE e == Event("TurnStarted", n, NONE)
           new == Append(log, e)
<1>1. e \in Events /\ e.msg = "TurnStarted" /\ e.turn = n
  BY EventTyped DEF TurnMsgs, Event
<1> HIDE DEF e
<1>2. \A i \in DOMAIN new : \/ i \in DOMAIN log /\ new[i] = log[i]
                            \/ i = Len(log) + 1 /\ new[i] = e
  BY <1>1, AppendedEntries
<1>3. /\ \A i \in DOMAIN log : i \in DOMAIN new /\ new[i] = log[i]
      /\ Len(log) + 1 \in DOMAIN new /\ new[Len(log) + 1] = e
  BY <1>1, AppendedEntries
<1>4. /\ \A i \in DOMAIN log : i \in Nat /\ \A j \in 1..(i - 1) : j \in DOMAIN log
      /\ \A j \in 1..(Len(log) + 1 - 1) : j \in DOMAIN log
  BY LenProperties
<1> HIDE DEF new
<1>5. ASSUME NEW t \in 0..(n + 1 - 1)
      PROVE  \E i \in DOMAIN new : new[i] = Event("TurnStarted", t, NONE)
  <2>1. CASE t = n
    BY <1>3, <2>1 DEF e
  <2>2. CASE t # n
    <3>1. t \in 0..(n - 1)
      BY <2>2
    <3> QED BY <1>3, <3>1 DEF StartedInOrder
  <2> QED BY <2>1, <2>2
<1>6. \A j \in DOMAIN log : StartsTurn(log[j]) => log[j].turn \in 0..(n - 1)
  BY DEF StartedInOrder
<1>7. ASSUME NEW i \in DOMAIN new, StartsTurn(new[i])
      PROVE  /\ new[i].turn \in 0..(n + 1 - 1)
             /\ \A j \in 1..(i - 1) :
                  StartsTurn(new[j]) => new[j].turn < new[i].turn
  <2>1. CASE i \in DOMAIN log
    <3>1. /\ new[i] = log[i]
          /\ \A j \in 1..(i - 1) : j \in DOMAIN log /\ new[j] = log[j]
      BY <1>3, <1>4, <2>1
    <3>2. /\ log[i].turn \in 0..(n - 1)
          /\ \A j \in 1..(i - 1) :
               StartsTurn(log[j]) => log[j].turn < log[i].turn
      BY <1>7, <2>1, <3>1 DEF StartedInOrder
    <3>3. log[i].turn \in 0..(n + 1 - 1)
      BY <3>2
    <3> QED BY <3>1, <3>2, <3>3
  <2>2. CASE i = Len(log) + 1
    <3>1. new[i].turn = n
      BY <1>1, <1>3, <2>2
    <3>2. ASSUME NEW j \in 1..(i - 1), StartsTurn(new[j])
          PROVE  new[j].turn < n
      <4>1. j \in DOMAIN log /\ new[j] = log[j]
        BY <1>3, <1>4, <2>2
      <4> QED BY <1>6, <3>2, <4>1
    <3> QED BY <3>1, <3>2
  <2> QED BY <1>2, <2>1, <2>2
<1>8. StartedInOrder(new, n + 1)
  BY <1>5, <1>7 DEF StartedInOrder
<1> QED BY <1>8 DEF new, e

\* Steps that neither accept nor start a turn, and log no start.
LEMMA OrderKept ==
  ASSUME OrderInv, StartedInOrder(events', Taken),
         UNCHANGED <<user_turns, turn_counter>>,
         turn' = turn \/ turn' = NONE
  PROVE  OrderInv'
BY DEF OrderInv, TurnsRunOnceInOrder, Taken

\* However a turn ends, the order of the turns is kept.
LEMMA EndTurnOrder ==
  ASSUME TypeOK, OrderInv, NEW reason, NEW log \in Seq(Events), NEW tokens,
         EndTurn(reason, log, tokens), StartedInOrder(log, Taken)
  PROVE  OrderInv'
<1> DEFINE e(msg) == Event(msg, turn, NONE)
           ended == EndEvents(log, reason)
           bye == Event("ShutdownComplete", NONE, NONE)
           Fine(l) == l \in Seq(Events) /\ StartedInOrder(l, Taken)
<1>1. Fine(log) /\ Taken \in Nat
  BY DEF OrderInv
<1>2. ASSUME NEW l, Fine(l), NEW msg \in {"TurnAborted", "Error", "TurnComplete"}
      PROVE  Fine(Append(l, e(msg)))
  <2>1. e(msg) \in Events /\ e(msg).msg = msg
    BY EventTyped DEF TypeOK, TurnMsgs, Event
  <2> QED BY <1>1, <1>2, <2>1, AppendOtherTurn, AppendProperties
<1>3. ASSUME NEW l, Fine(l) PROVE Fine(Append(l, bye))
  <2>1. bye \in Events /\ bye.msg = "ShutdownComplete"
    BY EventTyped DEF SystemMsgs, Event
  <2> HIDE DEF bye
  <2> QED BY <1>1, <1>3, <2>1, AppendOtherTurn, AppendProperties
<1>4. Fine(ended)
  <2> HIDE DEF e, Fine
  <2>1. /\ Fine(Append(log, e("TurnAborted")))
        /\ Fine(Append(log, e("TurnComplete")))
        /\ Fine(Append(Append(log, e("Error")), e("TurnComplete")))
    BY <1>1, <1>2
  <2> QED BY <2>1 DEF EndEvents, e
<1>5. /\ events' = ended \/ events' = Append(ended, bye)
      /\ UNCHANGED <<user_turns, turn_counter>> /\ turn' = NONE
  BY DEF EndTurn, ContinueAsNew, Exit, Proceed
<1>6. Fine(Append(ended, bye))
  <2> HIDE DEF Fine, ended, bye
  <2> QED BY <1>3, <1>4
<1> QED BY <1>4, <1>5, <1>6, OrderKept

\* A new turn gets the next number, at the end of the queue.
LEMMA UserTurnOrder ==
  ASSUME TypeOK, OrderInv, UserTurn
  PROVE  OrderInv'
<1>1. /\ user_turns' = Append(user_turns, turn_counter)
      /\ turn_counter' = turn_counter + 1
      /\ UNCHANGED <<events, turn>>
  BY DEF UserTurn, Op, runVars
<1>2. /\ user_turns \in Seq(Nat) /\ Len(user_turns) \in Nat
      /\ turn_counter \in Nat /\ Taken \in Nat
      /\ Taken = turn_counter - Len(user_turns)
  BY LenProperties DEF TypeOK, OrderInv, Taken
<1>3. /\ Len(user_turns') = Len(user_turns) + 1
      /\ DOMAIN user_turns' = 1..(Len(user_turns) + 1)
      /\ DOMAIN user_turns = 1..Len(user_turns)
      /\ \A k \in 1..Len(user_turns) : user_turns'[k] = user_turns[k]
      /\ user_turns'[Len(user_turns) + 1] = turn_counter
  BY <1>1, <1>2, AppendProperties, LenProperties
<1>4. Taken' = Taken
  BY <1>1, <1>2, <1>3 DEF Taken
<1>5. \A k \in DOMAIN user_turns : user_turns[k] = Taken + k - 1
  BY DEF OrderInv, TurnsRunOnceInOrder
<1>6. ASSUME NEW k \in DOMAIN user_turns'
      PROVE  user_turns'[k] = Taken + k - 1
  <2>1. CASE k \in 1..Len(user_turns)
    BY <1>3, <1>5, <2>1
  <2>2. CASE k = Len(user_turns) + 1
    BY <1>2, <1>3, <2>2
  <2> QED BY <1>2, <1>3, <1>6, <2>1, <2>2
<1> QED BY <1>1, <1>2, <1>4, <1>6 DEF OrderInv, TurnsRunOnceInOrder

\* The turn taken is the next one, and the queue still holds the rest.
LEMMA TakeTurnOrder ==
  ASSUME TypeOK, OrderInv, TakeTurn
  PROVE  OrderInv'
<1>1. /\ user_turns # <<>> /\ user_turns \in Seq(Nat)
      /\ user_turns' = Tail(user_turns) /\ turn_counter' = turn_counter
      /\ turn' = Head(user_turns)
      /\ events' = Append(events, Event("TurnStarted", Head(user_turns), NONE))
      /\ events \in Seq(Events)
  BY DEF TakeTurn, TypeOK
<1>2. /\ Len(user_turns) \in Nat \ {0} /\ turn_counter \in Nat /\ Taken \in Nat
      /\ Taken = turn_counter - Len(user_turns)
      /\ DOMAIN user_turns = 1..Len(user_turns)
  BY <1>1, LenProperties, EmptySeq DEF TypeOK, OrderInv, Taken
<1>3. /\ Len(user_turns') = Len(user_turns) - 1
      /\ DOMAIN user_turns' = 1..(Len(user_turns) - 1)
      /\ \A k \in 1..(Len(user_turns) - 1) : user_turns'[k] = user_turns[k + 1]
      /\ Head(user_turns) = user_turns[1]
  BY <1>1, <1>2, HeadTailProperties, LenProperties
<1>4. \A k \in DOMAIN user_turns : user_turns[k] = Taken + k - 1
  BY DEF OrderInv, TurnsRunOnceInOrder
<1>5. Head(user_turns) = Taken /\ Taken' = Taken + 1
  BY <1>1, <1>2, <1>3, <1>4 DEF Taken
<1>6. ASSUME NEW k \in DOMAIN user_turns'
      PROVE  user_turns'[k] = Taken' + k - 1
  <2>1. /\ k \in 1..(Len(user_turns) - 1) /\ k + 1 \in DOMAIN user_turns
        /\ user_turns'[k] = user_turns[k + 1]
    BY <1>2, <1>3, <1>6
  <2>2. user_turns[k + 1] = Taken + (k + 1) - 1
    BY <1>4, <2>1
  <2> QED BY <1>2, <1>5, <2>1, <2>2
<1>7. StartedInOrder(events', Taken')
  BY <1>1, <1>2, <1>5, AppendNextTurn DEF OrderInv, TurnsRunOnceInOrder
<1> QED BY <1>1, <1>2, <1>5, <1>6, <1>7 DEF OrderInv, TurnsRunOnceInOrder

\* Every step keeps the order of the turns.
LEMMA NextOrder == TypeOK /\ OrderInv /\ [Next]_vars => OrderInv'
<1> SUFFICES ASSUME TypeOK, OrderInv, [Next]_vars PROVE OrderInv'
  OBVIOUS
<1>1. ASSUME UNCHANGED <<user_turns, turn_counter, turn, events>>
      PROVE  OrderInv'
  BY <1>1 DEF OrderInv, TurnsRunOnceInOrder, Taken
<1>2. /\ StartedInOrder(events, Taken) /\ events \in Seq(Events)
      /\ Taken \in Nat
  BY DEF OrderInv, TurnsRunOnceInOrder, TypeOK
<1>3. ASSUME NEW e \in Events, e.msg # "TurnStarted",
             events' = Append(events, e),
             UNCHANGED <<user_turns, turn_counter, turn>>
      PROVE  OrderInv'
  BY <1>2, <1>3, AppendOtherTurn, OrderKept
<1>4. CASE UNCHANGED vars
  BY <1>1, <1>4 DEF vars, signalVars, runVars
<1>5. CASE Signal
  BY <1>1, <1>5, UserTurnOrder
     DEF Signal, Resolve, Shutdown, Compact, OverrideTurnContext, Interrupt,
         Op, runVars
<1>6. CASE Initialize \/ Park \/ CallModel
  BY <1>1, <1>6 DEF Initialize, Park, CallModel, signalVars
<1>7. CASE HandleCompact \/ LeaveLoop
  <2>1. PICK msg \in {"ContextCompacted", "ShutdownComplete"} :
               events' = Append(events, Event(msg, NONE, NONE))
    BY <1>7 DEF HandleCompact, LeaveLoop, ContinueAsNew, Exit, Proceed
  <2>2. /\ Event(msg, NONE, NONE) \in Events
        /\ Event(msg, NONE, NONE).msg = msg
    BY EventTyped DEF SystemMsgs, Event
  <2>3. UNCHANGED <<user_turns, turn_counter, turn>>
    BY <1>7 DEF HandleCompact, LeaveLoop
  <2> QED BY <1>3, <2>1, <2>2, <2>3
<1>8. CASE ReachMaxIterations
  <2> DEFINE e == Event("AgentMessage", turn, NONE)
             log == Append(events, e)
  <2>1. e \in Events /\ e.msg = "AgentMessage"
    BY EventTyped DEF TurnMsgs, Event, TypeOK
  <2>2. log \in Seq(Events) /\ StartedInOrder(log, Taken)
    <3> HIDE DEF e
    <3> QED BY <1>2, <2>1, AppendOtherTurn, AppendProperties
  <2>3. EndTurn("complete", log, session_tokens)
    BY <1>8 DEF ReachMaxIterations
  <2> HIDE DEF log
  <2> QED BY <2>2, <2>3, EndTurnOrder
<1>9. CASE AbortTurn \/ ModelAborted \/ ModelFails \/ ModelAnswers
  <2>1. \E reason, tokens : EndTurn(reason, events, tokens)
    BY <1>9 DEF AbortTurn, ModelAborted, ModelFails, ModelAnswers
  <2> QED BY <1>2, <2>1, EndTurnOrder
<1>10. CASE WaitInterrupted \/ ToolCancelled \/ ApprovalDenied
            \/ AnswerReceived \/ ElicitationResolved \/ ToolFails
  BY <1>1, <1>10
     DEF WaitInterrupted, ToolCancelled, ApprovalDenied, AnswerReceived,
         ElicitationResolved, ToolFails, HandlerFails, Respond, FollowUp,
         HandlerFrame
<1>11. CASE ApprovalGranted \/ ToolElicits \/ ToolReturns
  <2>1. pc \in {"Wait", "Tool"}
    BY <1>11 DEF ApprovalGranted, Resolved, ToolElicits, ToolReturns
  <2>2. /\ UNCHANGED <<user_turns, turn_counter, turn>>
        /\ \/ events' = events
           \/ \E msg \in CallMsgs : events' = Append(events, Event(msg, turn, call.id))
    BY <1>11 DEF ApprovalGranted, ToolElicits, ToolReturns, Respond, FollowUp, BeginTool,
                 RequestAndWait, Await, HandlerFrame, CallMsgs
  <2>3. \A msg \in CallMsgs : /\ Event(msg, turn, call.id) \in Events
                              /\ Event(msg, turn, call.id).msg # "TurnStarted"
    BY <2>1, CurrentCallTyped, EventTyped DEF CallMsgs, Event
  <2> QED BY <1>1, <1>3, <2>2, <2>3
<1>12. CASE CallTool
  <2> PICK r \in Requests : \/ CallMcp(r[1], r[2])
                            \/ CallAsks(r[1], r[2])
                            \/ CallRuns(r[1], r[2])
                            \/ CallRefused(r[1], r[2])
                            \/ CallMalformed(r[1], r[2])
    BY <1>12 DEF CallTool
  <2> DEFINE c == SampledCall(r[1], r[2])
  <2>1. \A msg \in CallMsgs : /\ Event(msg, turn, c.id) \in Events
                              /\ Event(msg, turn, c.id).msg # "TurnStarted"
    BY SampledCallTyped, EventTyped DEF CallMsgs, Event, TypeOK
  <2>2. CASE CallMcp(r[1], r[2]) \/ CallRefused(r[1], r[2])
             \/ CallMalformed(r[1], r[2])
    BY <1>1, <2>2 DEF CallMcp, CallRefused, CallMalformed, Await, HandlerFails,
                      Respond, FollowUp, HandlerFrame
  <2>3. CASE CallAsks(r[1], r[2]) \/ CallRuns(r[1], r[2])
    <3>1. /\ UNCHANGED <<user_turns, turn_counter, turn>>
          /\ \E msg \in CallMsgs : events' = Append(events, Event(msg, turn, c.id))
      BY <2>3 DEF CallAsks, CallRuns, RequestAndWait, BeginTool, Await,
                  HandlerFrame, CallMsgs
    <3> QED BY <1>3, <2>1, <3>1
  <2> QED BY <2>2, <2>3
<1> QED BY <1>4, <1>5, <1>6, <1>7, <1>8, <1>9, <1>10, <1>11, <1>12,
           TakeTurnOrder
        DEF Next, Loop, Unwind, ModelReturns, Released, ToolFinishes, Closure

\* The order of the turns holds throughout.
LEMMA OrderInvHolds == Spec => []OrderInv
<1>1. Init => OrderInv
  <2> SUFFICES ASSUME Init PROVE OrderInv
    OBVIOUS
  <2>1. Taken = 0 /\ turn = NONE /\ events = <<>>
    BY DEF Init, Taken
  <2>2. \A k \in DOMAIN user_turns : user_turns[k] = Taken + k - 1
    BY <2>1 DEF Init
  <2> QED BY <2>1, <2>2 DEF OrderInv, TurnsRunOnceInOrder, StartedInOrder
<1> QED BY <1>1, NextOrder, TypeCorrect, PTL DEF Spec

\* Every accepted turn is started once, in the order of acceptance, over any
\* number of continue-as-new executions.
THEOREM TurnsAreOrdered == Spec => []TurnsRunOnceInOrder
<1>1. OrderInv => TurnsRunOnceInOrder
  BY DEF OrderInv
<1> QED BY <1>1, OrderInvHolds, PTL

=============================================================================

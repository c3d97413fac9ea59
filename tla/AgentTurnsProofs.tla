-------------------------- MODULE AgentTurnsProofs --------------------------
(***************************************************************************)
(* Theorems about the turns of AgentWorkflow, for every value of its       *)
(* constants: what the log says of a turn, what it says of the tools and   *)
(* what the rollout keeps, and that the workflow implements TurnService.   *)
(*                                                                         *)
(* All of them look at a step through StepKinds: it says nothing, says     *)
(* something about the current turn, starts a turn or ends one.            *)
(***************************************************************************)
EXTENDS AgentWorkflowProofs

USE DEF PendingKinds, Parked, Closed

-----------------------------------------------------------------------------
(* The token of a turn                                                     *)

\* A turn has a cancellation token while it is current, and the token is
\* cancelled exactly if the interrupt flag is set.
CancelInv ==
  /\ current_turn_cancellation = NONE <=> turn = NONE
  /\ turn # NONE => (interrupt_requested <=> Cancelled)

\* Outside a turn there is no token.
LEMMA NoTurnNoToken ==
  ASSUME turn' = NONE, current_turn_cancellation' = NONE
  PROVE  CancelInv'
BY DEF CancelInv

\* Every step keeps turn and token together.
LEMMA NextCancel ==
  ASSUME TypeOK, CancelInv, [Next]_vars
  PROVE  CancelInv'
<1>1. ASSUME UNCHANGED <<turn, current_turn_cancellation, interrupt_requested>>
      PROVE  CancelInv'
  BY <1>1 DEF CancelInv, Cancelled
<1>2. CASE UNCHANGED vars
  BY <1>1, <1>2 DEF vars, signalVars, runVars
<1>3. CASE Interrupt
  BY <1>3, ConstantsAssumption
     DEF Interrupt, Op, runVars, CancelInv, Cancelled, TypeOK
<1>4. CASE Signal /\ ~Interrupt
  BY <1>1, <1>4
     DEF Signal, UserTurn, Resolve, Shutdown, Compact, OverrideTurnContext, Op,
         runVars
<1>5. CASE Initialize \/ Park \/ CallModel
  BY <1>1, <1>5 DEF Initialize, Park, CallModel, signalVars
<1>6. CASE HandleCompact \/ LeaveLoop
  <2>1. turn = NONE
    BY <1>6 DEF HandleCompact, LeaveLoop, AtLoopTop, TypeOK
  <2>2. UNCHANGED <<turn, current_turn_cancellation>>
    BY <1>6 DEF HandleCompact, LeaveLoop
  <2> QED BY <2>1, <2>2 DEF CancelInv
<1>7. CASE TakeTurn
  <2>1. /\ turn' = Head(user_turns) /\ Head(user_turns) # NONE
        /\ current_turn_cancellation' = "live" /\ interrupt_requested' = FALSE
    <3>1. Head(user_turns) \in Nat
      BY <1>7, HeadTailProperties DEF TakeTurn, TypeOK
    <3> QED BY <1>7, <3>1, ConstantsAssumption DEF TakeTurn
  <2> QED BY <2>1, ConstantsAssumption DEF CancelInv, Cancelled
<1>8. CASE \E reason, log, tokens : EndTurn(reason, log, tokens)
  BY <1>8, NoTurnNoToken DEF EndTurn
<1>9. CASE AbortTurn \/ ReachMaxIterations \/ ModelAborted \/ ModelFails
           \/ ModelAnswers
  BY <1>8, <1>9 DEF AbortTurn, ReachMaxIterations, ModelAborted, ModelFails,
                    ModelAnswers
<1>10. CASE WaitInterrupted \/ ToolCancelled \/ Released \/ ToolElicits
            \/ ToolReturns \/ ToolFails
  BY <1>1, <1>10
     DEF WaitInterrupted, ToolCancelled, Released, ApprovalGranted,
         ApprovalDenied, AnswerReceived, ElicitationResolved, ToolElicits,
         ToolReturns, ToolFails, HandlerFails, Respond, FollowUp, BeginTool, RequestAndWait, Await, HandlerFrame
<1>11. CASE CallTool
  BY <1>1, <1>8, <1>11
     DEF CallTool, CallMcp, CallAsks, CallRuns, CallRefused, CallMalformed,
         HandlerFails, Respond, FollowUp, BeginTool, RequestAndWait, Await,
         HandlerFrame
<1> QED BY <1>2, <1>3, <1>4, <1>5, <1>6, <1>7, <1>9, <1>10, <1>11
        DEF Next, Loop, Unwind, ModelReturns, ToolFinishes, Closure

-----------------------------------------------------------------------------
(* The kinds of steps                                                      *)

\* The step logs e, on behalf of the current turn if there is one.
Says(e) ==
  /\ events' = Append(events, e)
  /\ e.msg \in CallMsgs \cup SystemMsgs
  /\ e.turn = turn
  /\ turn' = turn

\* The step ends the current turn.
Finishes(reason, log, tokens) ==
  /\ EndTurn(reason, log, tokens)
  /\ pc \in {"Check", "Model"}
  /\ reason \in {"aborted", "error", "complete"}
  /\ reason = "aborted" <=> Cancelled
  /\ history' = history
  /\ log = events \/ log = Append(events, Event("AgentMessage", turn, NONE))

\* A turn ends in one of five places, aborted exactly if it was cancelled.
LEMMA TurnEnds ==
  ASSUME TypeOK, CancelInv,
         \/ AbortTurn \/ ReachMaxIterations
         \/ ModelAborted \/ ModelFails \/ ModelAnswers
  PROVE  \E reason, log, tokens : Finishes(reason, log, tokens)
<1>1. CASE AbortTurn
  <2>1. Finishes("aborted", events, session_tokens)
    BY <1>1 DEF AbortTurn, Finishes, CancelInv, TypeOK
  <2> QED BY <2>1
<1>2. CASE ReachMaxIterations
  <2>1. Finishes("complete", Append(events, Event("AgentMessage", turn, NONE)),
                 session_tokens)
    BY <1>2 DEF ReachMaxIterations, Finishes, CancelInv, TypeOK
  <2> QED BY <2>1
<1>3. CASE ModelAborted
  <2>1. Finishes("aborted", events, session_tokens)
    BY <1>3 DEF ModelAborted, Finishes
  <2> QED BY <2>1
<1>4. CASE ModelFails
  <2>1. Finishes("error", events, session_tokens)
    BY <1>4 DEF ModelFails, Uncancelled, Cancelled, Finishes
  <2> QED BY <2>1
<1>5. CASE ModelAnswers
  <2>1. Finishes("complete", events, session_tokens + 1)
    BY <1>5 DEF ModelAnswers, Uncancelled, Cancelled, Finishes
  <2> QED BY <2>1
<1> QED BY <1>1, <1>2, <1>3, <1>4, <1>5

\* The four kinds of steps, for all that the log and the turn show of them.
LEMMA StepKinds ==
  ASSUME TypeOK, CancelInv, [Next]_vars
  PROVE  \/ UNCHANGED <<events, turn>>
         \/ \E e \in Events : Says(e)
         \/ TakeTurn
         \/ \E reason, log, tokens : Finishes(reason, log, tokens)
<1>1. CASE UNCHANGED vars
  BY <1>1 DEF vars, runVars
<1>2. CASE Signal
  BY <1>2 DEF Signal, UserTurn, Resolve, Shutdown, Compact,
              OverrideTurnContext, Interrupt, Op, runVars
<1>3. CASE Initialize \/ Park \/ CallModel
  BY <1>3 DEF Initialize, Park, CallModel
<1>4. CASE HandleCompact \/ LeaveLoop
  <2>1. PICK msg \in SystemMsgs : events' = Append(events, Event(msg, NONE, NONE))
    BY <1>4 DEF HandleCompact, LeaveLoop, ContinueAsNew, Exit, Proceed,
                SystemMsgs
  <2>2. turn = NONE /\ turn' = turn
    BY <1>4 DEF HandleCompact, LeaveLoop, AtLoopTop, TypeOK
  <2>3. /\ Event(msg, NONE, NONE) \in Events
        /\ Event(msg, NONE, NONE).msg = msg /\ Event(msg, NONE, NONE).turn = NONE
    BY EventTyped DEF Event
  <2>4. Says(Event(msg, NONE, NONE))
    BY <2>1, <2>2, <2>3 DEF Says
  <2> QED BY <2>3, <2>4
<1>5. ASSUME NEW id \in Nat, NEW msg \in CallMsgs, turn' = turn,
             events' = Append(events, Event(msg, turn, id))
      PROVE  \E e \in Events : Says(e)
  <2>1. /\ Event(msg, turn, id) \in Events
        /\ Event(msg, turn, id).msg = msg /\ Event(msg, turn, id).turn = turn
    BY EventTyped DEF Event, TypeOK
  <2>2. Says(Event(msg, turn, id))
    BY <1>5, <2>1 DEF Says
  <2> QED BY <2>1, <2>2
<1>6. CASE WaitInterrupted \/ ToolCancelled \/ ApprovalDenied
           \/ AnswerReceived \/ ElicitationResolved \/ ToolFails
  BY <1>6 DEF WaitInterrupted, ToolCancelled, ApprovalDenied, AnswerReceived,
              ElicitationResolved, ToolFails, HandlerFails, Respond, FollowUp, HandlerFrame
<1>7. CASE ApprovalGranted \/ ToolElicits \/ ToolReturns
  <2>1. call.id \in Nat
    BY <1>7, CurrentCallTyped
       DEF ApprovalGranted, Resolved, ToolElicits, ToolReturns
  <2>2. /\ turn' = turn
        /\ \/ events' = events
           \/ \E msg \in CallMsgs : events' = Append(events, Event(msg, turn, call.id))
    BY <1>7 DEF ApprovalGranted, ToolElicits, ToolReturns, Respond, FollowUp, BeginTool,
                RequestAndWait, Await, HandlerFrame, CallMsgs
  <2> QED BY <1>5, <2>1, <2>2
<1>8. ASSUME NEW r \in Requests,
             \/ CallMcp(r[1], r[2]) \/ CallRefused(r[1], r[2])
             \/ CallAsks(r[1], r[2]) \/ CallRuns(r[1], r[2])
             \/ CallMalformed(r[1], r[2])
      PROVE  UNCHANGED <<events, turn>> \/ \E e \in Events : Says(e)
  <2> DEFINE c == SampledCall(r[1], r[2])
  <2>1. c.id \in Nat
    BY SampledCallTyped DEF TypeOK
  <2>2. /\ turn' = turn
        /\ \/ events' = events
           \/ \E msg \in CallMsgs : events' = Append(events, Event(msg, turn, c.id))
    BY <1>8 DEF CallMcp, CallRefused, CallAsks, CallRuns, CallMalformed,
                HandlerFails, Respond, FollowUp, BeginTool, RequestAndWait,
                Await, HandlerFrame, CallMsgs
  <2> QED BY <1>5, <2>1, <2>2
<1>9. CASE CallTool
  BY <1>8, <1>9 DEF CallTool
<1> QED BY <1>1, <1>2, <1>3, <1>4, <1>6, <1>7, <1>9, TurnEnds
        DEF Next, Loop, Unwind, ModelReturns, Released, ToolFinishes, Closure

\* The token of the turn holds throughout.
LEMMA CancelInvHolds == Spec => []CancelInv
<1>1. Init => CancelInv
  BY DEF Init, CancelInv
<1> QED BY <1>1, NextCancel, TypeCorrect, PTL DEF Spec

-----------------------------------------------------------------------------
(* The brackets around a turn                                              *)

Opened(log, t) == \E s \in DOMAIN log : log[s] = Event("TurnStarted", t, NONE)
Ended(log, t) == \E k \in DOMAIN log : EndsTurn(log[k]) /\ log[k].turn = t

\* TurnsAreBracketed, of a log while turn cur is current.
Bracketed(log, cur) ==
  \A i \in DOMAIN log : LET t == log[i].turn IN t # NONE =>
    /\ \E s \in 1..i : log[s] = Event("TurnStarted", t, NONE)
    /\ \A k \in DOMAIN log : EndsTurn(log[k]) /\ log[k].turn = t => i <= k
    /\ t = cur <=> ~Ended(log, t)

\* What an entry i of the log is needs another look after an append only if
\* it is the new one, or of a turn whose end is appended.
LEMMA BracketAppend ==
  ASSUME NEW log \in Seq(Events), NEW cur, NEW new, NEW e \in Events,
         Bracketed(log, cur),
         \* e has its start before it, if it is not one
         e.turn # NONE =>
           Opened(log, e.turn) \/ e = Event("TurnStarted", e.turn, NONE),
         \* no turn that has ended is spoken of
         e.turn # NONE => ~Ended(log, e.turn),
         \* the turn of e is current afterwards, unless e ends it
         e.turn # NONE => (e.turn = new <=> ~EndsTurn(e)),
         \A i \in DOMAIN log :
           log[i].turn # NONE /\ log[i].turn # e.turn
             => (log[i].turn = cur <=> log[i].turn = new)
  PROVE  Bracketed(Append(log, e), new)
<1> DEFINE l == Append(log, e)
           m == Len(log) + 1
<1>1. /\ \A i \in DOMAIN l : \/ i \in DOMAIN log /\ l[i] = log[i]
                             \/ i = m /\ l[i] = e
      /\ \A i \in DOMAIN log : i \in DOMAIN l /\ l[i] = log[i] /\ i \in Nat /\ i < m
      /\ m \in DOMAIN l /\ l[m] = e
  BY AppendedEntries
<1>2. /\ Len(log) \in Nat /\ m \in Nat /\ DOMAIN log = 1..Len(log)
  BY LenProperties
<1> HIDE DEF l, m
<1>3. \A t : Ended(l, t) <=> Ended(log, t) \/ (EndsTurn(e) /\ e.turn = t)
  BY <1>1 DEF Ended
<1> SUFFICES ASSUME NEW i \in DOMAIN l, l[i].turn # NONE
             PROVE  /\ \E s \in 1..i : l[s] = Event("TurnStarted", l[i].turn, NONE)
                    /\ \A k \in DOMAIN l :
                         EndsTurn(l[k]) /\ l[k].turn = l[i].turn => i <= k
                    /\ l[i].turn = new <=> ~Ended(l, l[i].turn)
  BY DEF Bracketed, l
<1>4. CASE i \in DOMAIN log
  <2>1. /\ l[i] = log[i] /\ i < m /\ i \in Nat
        /\ \E s \in 1..i : log[s] = Event("TurnStarted", l[i].turn, NONE)
        /\ \A k \in DOMAIN log :
             EndsTurn(log[k]) /\ log[k].turn = l[i].turn => i <= k
        /\ l[i].turn = cur <=> ~Ended(log, l[i].turn)
    BY <1>1, <1>4 DEF Bracketed
  <2>2. \E s \in 1..i : l[s] = Event("TurnStarted", l[i].turn, NONE)
    <3>1. 1..i \subseteq DOMAIN log
      BY <1>2, <1>4
    <3> QED BY <1>1, <2>1, <3>1
  <2>3. \A k \in DOMAIN l : EndsTurn(l[k]) /\ l[k].turn = l[i].turn => i <= k
    BY <1>1, <1>2, <2>1
  <2>4. l[i].turn = new <=> ~Ended(l, l[i].turn)
    <3>1. CASE l[i].turn = e.turn
      BY <1>3, <3>1
    <3>2. CASE l[i].turn # e.turn
      BY <1>3, <1>4, <2>1, <3>2
    <3> QED BY <3>1, <3>2
  <2> QED BY <2>2, <2>3, <2>4
<1>5. CASE i = m
  <2>1. l[i] = e
    BY <1>1, <1>5
  <2>2. \E s \in 1..i : l[s] = Event("TurnStarted", e.turn, NONE)
    <3>1. CASE Opened(log, e.turn)
      <4>1. PICK s \in DOMAIN log : log[s] = Event("TurnStarted", e.turn, NONE)
        BY <3>1 DEF Opened
      <4>2. s \in 1..i /\ l[s] = log[s]
        BY <1>1, <1>2, <1>5
      <4> QED BY <4>1, <4>2
    <3>2. CASE e = Event("TurnStarted", e.turn, NONE)
      <4>1. i \in 1..i
        BY <1>2, <1>5 DEF m
      <4> QED BY <2>1, <3>2, <4>1
    <3> QED BY <2>1, <3>1, <3>2
  <2>3. \A k \in DOMAIN l : EndsTurn(l[k]) /\ l[k].turn = e.turn => i <= k
    <3> TAKE k \in DOMAIN l
    <3>1. CASE k \in DOMAIN log
      BY <1>1, <2>1, <3>1 DEF Ended
    <3>2. CASE k = m
      BY <1>2, <1>5, <3>2
    <3> QED BY <1>1, <3>1, <3>2
  <2> QED BY <1>3, <2>1, <2>2, <2>3
<1> QED BY <1>1, <1>4, <1>5

\* A turn that is current has not ended, and appending keeps what is opened.
LEMMA CurrentIsOpen ==
  ASSUME NEW log, NEW cur, cur # NONE, Bracketed(log, cur)
  PROVE  ~Ended(log, cur)
BY DEF Bracketed, Ended

LEMMA StaysOpened ==
  ASSUME NEW log \in Seq(Events), NEW e \in Events, NEW t, Opened(log, t)
  PROVE  Opened(Append(log, e), t)
BY AppendedEntries DEF Opened

\* Something is said about the current turn, or about none.
LEMMA BracketSaid ==
  ASSUME NEW log \in Seq(Events), NEW cur, NEW e \in Events,
         Bracketed(log, cur), ~EndsTurn(e),
         \/ e.turn = NONE
         \/ e.turn = cur /\ cur # NONE /\ Opened(log, cur)
  PROVE  Bracketed(Append(log, e), cur)
BY BracketAppend, CurrentIsOpen

\* The current turn ends.
LEMMA BracketEnded ==
  ASSUME NEW log \in Seq(Events), NEW cur, NEW e \in Events, cur # NONE,
         Bracketed(log, cur), Opened(log, cur), EndsTurn(e), e.turn = cur
  PROVE  Bracketed(Append(log, e), NONE)
BY BracketAppend, CurrentIsOpen

\* A turn of which nothing has been said starts.
LEMMA BracketStarted ==
  ASSUME NEW log \in Seq(Events), NEW t \in Nat,
         Bracketed(log, NONE), ~Opened(log, t)
  PROVE  Bracketed(Append(log, Event("TurnStarted", t, NONE)), t)
<1> DEFINE e == Event("TurnStarted", t, NONE)
<1>1. /\ e \in Events /\ e.turn = t /\ ~EndsTurn(e) /\ t # NONE
      /\ e = Event("TurnStarted", e.turn, NONE)
  BY EventTyped, ConstantsAssumption DEF Event, TurnMsgs, EndsTurn
<1>2. \A i \in DOMAIN log : log[i].turn # t
  <2>1. \A i \in DOMAIN log : i \in Nat /\ 1..i \subseteq DOMAIN log
    BY LenProperties
  <2> QED BY <1>1, <2>1 DEF Bracketed, Opened
<1>3. ~Ended(log, t)
  BY <1>2 DEF Ended
<1> HIDE DEF e
<1>4. Bracketed(Append(log, e), t)
  BY <1>1, <1>2, <1>3, BracketAppend
<1> QED BY <1>4 DEF e

\* The events of a turn's end are of the current turn, and the last of them
\* ends it.
LEMMA EndMessages ==
  ASSUME TypeOK, turn # NONE,
         NEW msg \in {"AgentMessage", "Error", "TurnAborted", "TurnComplete"}
  PROVE  LET e == Event(msg, turn, NONE) IN
         /\ e \in Events /\ e.msg = msg /\ e.turn = turn
         /\ EndsTurn(e) <=> msg \in {"TurnAborted", "TurnComplete"}
BY EventTyped DEF TypeOK, TurnMsgs, Event, EndsTurn

\* The brackets are kept however a turn ends.
LEMMA FinishBrackets ==
  ASSUME TypeOK, Bracketed(events, turn), Opened(events, turn),
         NEW reason, NEW log, NEW tokens, Finishes(reason, log, tokens)
  PROVE  Bracketed(events', turn')
<1> DEFINE e(msg) == Event(msg, turn, NONE)
           bye == Event("ShutdownComplete", NONE, NONE)
           Open(l) == /\ l \in Seq(Events)
                      /\ Bracketed(l, turn) /\ Opened(l, turn)
           Over(l) == l \in Seq(Events) /\ Bracketed(l, NONE)
<1>1. turn # NONE /\ Open(events)
  BY DEF Finishes, TypeOK
<1>2. ASSUME NEW l, Open(l), NEW msg \in {"AgentMessage", "Error"}
      PROVE  Open(Append(l, e(msg)))
  <2>1. e(msg) \in Events /\ e(msg).turn = turn /\ ~EndsTurn(e(msg))
    BY <1>1, EndMessages
  <2> HIDE DEF e
  <2> QED BY <1>1, <1>2, <2>1, BracketSaid, StaysOpened, AppendProperties
<1>3. ASSUME NEW l, Open(l), NEW msg \in {"TurnAborted", "TurnComplete"}
      PROVE  Over(Append(l, e(msg)))
  <2>1. e(msg) \in Events /\ e(msg).turn = turn /\ EndsTurn(e(msg))
    BY <1>1, EndMessages
  <2> HIDE DEF e
  <2> QED BY <1>1, <1>3, <2>1, BracketEnded, AppendProperties
<1>4. ASSUME NEW l, Over(l) PROVE Over(Append(l, bye))
  <2>1. bye \in Events /\ bye.turn = NONE /\ ~EndsTurn(bye)
    BY EventTyped DEF SystemMsgs, Event, EndsTurn
  <2> HIDE DEF bye
  <2> QED BY <1>4, <2>1, BracketSaid, AppendProperties
<1> HIDE DEF Open, Over
<1>5. Open(log)
  BY <1>1, <1>2 DEF Finishes
<1>6. Over(EndEvents(log, reason))
  <2>1. /\ Over(Append(log, e("TurnAborted")))
        /\ Over(Append(log, e("TurnComplete")))
        /\ Over(Append(Append(log, e("Error")), e("TurnComplete")))
    <3> HIDE DEF e
    <3> QED BY <1>2, <1>3, <1>5
  <2> QED BY <2>1 DEF EndEvents, e
<1>7. /\ turn' = NONE
      /\ \/ events' = EndEvents(log, reason)
         \/ events' = Append(EndEvents(log, reason), bye)
  BY DEF Finishes, EndTurn, ContinueAsNew, Exit, Proceed
<1>8. Over(events')
  <2> HIDE DEF bye
  <2> QED BY <1>4, <1>6, <1>7
<1> QED BY <1>7, <1>8 DEF Over

\* The current turn has been started, and the next one has not.
LEMMA WhatIsOpened ==
  ASSUME TypeOK, OrderInv
  PROVE  /\ turn # NONE => Opened(events, turn)
         /\ ~Opened(events, Taken)
<1>1. Taken \in Nat /\ StartedInOrder(events, Taken)
  BY DEF OrderInv, TurnsRunOnceInOrder
<1>2. ASSUME turn # NONE PROVE Opened(events, turn)
  <2>1. turn = Taken - 1 /\ turn \in Nat
    BY <1>2 DEF OrderInv, TurnsRunOnceInOrder, TypeOK
  <2>2. turn \in 0..(Taken - 1)
    BY <1>1, <2>1
  <2> QED BY <1>1, <2>2 DEF StartedInOrder, Opened
<1>3. ASSUME NEW i \in DOMAIN events,
             events[i] = Event("TurnStarted", Taken, NONE)
      PROVE  FALSE
  <2>1. events[i].turn \in 0..(Taken - 1) /\ events[i].turn = Taken
    BY <1>1, <1>3 DEF StartedInOrder, StartsTurn, Event
  <2> QED BY <1>1, <2>1
<1> QED BY <1>2, <1>3 DEF Opened

\* The turn TakeTurn starts is the next one.
LEMMA TakenIsNext ==
  ASSUME TypeOK, OrderInv, TakeTurn
  PROVE  /\ Head(user_turns) = Taken /\ Taken \in Nat
         /\ Taken' = Taken + 1
<1>1. /\ user_turns # <<>> /\ user_turns \in Seq(Nat)
      /\ user_turns' = Tail(user_turns) /\ turn_counter' = turn_counter
  BY DEF TakeTurn, TypeOK
<1>2. /\ Len(user_turns) \in Nat \ {0} /\ turn_counter \in Nat /\ Taken \in Nat
      /\ DOMAIN user_turns = 1..Len(user_turns)
      /\ Len(user_turns') = Len(user_turns) - 1
  BY <1>1, LenProperties, EmptySeq, HeadTailProperties DEF TypeOK, OrderInv
<1>3. 1 \in DOMAIN user_turns /\ Head(user_turns) = user_turns[1]
  BY <1>1, <1>2
<1>4. user_turns[1] = Taken + 1 - 1
  BY <1>3 DEF OrderInv, TurnsRunOnceInOrder
<1>5. Taken' = Taken + 1
  BY <1>1, <1>2 DEF Taken
<1> QED BY <1>2, <1>3, <1>4, <1>5

\* Every step keeps the brackets.
LEMMA NextBrackets ==
  ASSUME TypeOK, CancelInv, OrderInv, Bracketed(events, turn), [Next]_vars
  PROVE  Bracketed(events, turn)'
<1>0. events \in Seq(Events)
  BY DEF TypeOK
<1>1. CASE UNCHANGED <<events, turn>>
  BY <1>1
<1>2. ASSUME NEW e \in Events, Says(e)
      PROVE  Bracketed(events, turn)'
  <2>1. ~EndsTurn(e)
    BY <1>2 DEF Says, EndsTurn, CallMsgs, SystemMsgs
  <2>2. Bracketed(Append(events, e), turn)
    BY <1>0, <1>2, <2>1, WhatIsOpened, BracketSaid DEF Says
  <2> QED BY <1>2, <2>2 DEF Says
<1>3. CASE TakeTurn
  <2>1. turn = NONE
    BY <1>3 DEF TakeTurn, AtLoopTop, TypeOK
  <2>2. /\ events' = Append(events, Event("TurnStarted", Taken, NONE))
        /\ turn' = Taken /\ Taken \in Nat
    BY <1>3, TakenIsNext DEF TakeTurn
  <2>3. Bracketed(Append(events, Event("TurnStarted", Taken, NONE)), Taken)
    BY <1>0, <2>1, <2>2, WhatIsOpened, BracketStarted
  <2> QED BY <2>2, <2>3
<1>4. ASSUME NEW reason, NEW log, NEW tokens, Finishes(reason, log, tokens)
      PROVE  Bracketed(events, turn)'
  <2>1. Opened(events, turn)
    BY <1>4, WhatIsOpened DEF Finishes, TypeOK
  <2> QED BY <1>4, <2>1, FinishBrackets
<1> QED BY <1>1, <1>2, <1>3, <1>4, StepKinds

\* The brackets hold throughout.
LEMMA BracketsHold == Spec => []Bracketed(events, turn)
<1>1. Init => Bracketed(events, turn)
  BY DEF Init, Bracketed
<1> QED BY <1>1, NextBrackets, TypeCorrect, CancelInvHolds, OrderInvHolds,
           PTL DEF Spec

\* An event of a turn comes after the turn's start and not after its end; a
\* turn has one end, and lacks it exactly while it is the current one.
THEOREM EventsAreAttributable == Spec => []TurnsAreBracketed
<1>1. Bracketed(events, turn) => TurnsAreBracketed
  BY DEF Bracketed, TurnsAreBracketed, Ended
<1> QED BY <1>1, BracketsHold, PTL

-----------------------------------------------------------------------------
(* The service                                                             *)

\* The outcomes of TurnService, of a log.
Outcomes(log) ==
  {<<log[i].turn, log[i].msg>> : i \in {j \in DOMAIN log : EndsTurn(log[j])}}

\* Only an event that ends a turn is an outcome.
LEMMA OutcomeAppend ==
  ASSUME NEW log \in Seq(Events), NEW e \in Events
  PROVE  Outcomes(Append(log, e)) =
           Outcomes(log) \cup (IF EndsTurn(e) THEN {<<e.turn, e.msg>>} ELSE {})
<1> DEFINE l == Append(log, e)
           m == Len(log) + 1
<1>1. /\ \A i \in DOMAIN l : \/ i \in DOMAIN log /\ l[i] = log[i]
                             \/ i = m /\ l[i] = e
      /\ \A i \in DOMAIN log : i \in DOMAIN l /\ l[i] = log[i]
      /\ m \in DOMAIN l /\ l[m] = e
  BY AppendedEntries
<1> HIDE DEF l, m
<1>2. ASSUME NEW x \in Outcomes(l)
      PROVE  x \in Outcomes(log) \cup (IF EndsTurn(e) THEN {<<e.turn, e.msg>>} ELSE {})
  BY <1>1 DEF Outcomes
<1>3. Outcomes(log) \subseteq Outcomes(l)
  BY <1>1 DEF Outcomes
<1>4. EndsTurn(e) => <<e.turn, e.msg>> \in Outcomes(l)
  BY <1>1 DEF Outcomes
<1>5. Outcomes(l) = Outcomes(log) \cup (IF EndsTurn(e) THEN {<<e.turn, e.msg>>} ELSE {})
  BY <1>2, <1>3, <1>4
<1> QED BY <1>5 DEF l

\* However a turn ends, it gets one outcome.
LEMMA FinishOutcome ==
  ASSUME TypeOK, NEW reason, NEW log, NEW tokens, Finishes(reason, log, tokens)
  PROVE  Outcomes(events') = Outcomes(events) \cup
           {<<turn, IF Cancelled THEN "TurnAborted" ELSE "TurnComplete">>}
<1> DEFINE e(msg) == Event(msg, turn, NONE)
           bye == Event("ShutdownComplete", NONE, NONE)
           Same(l) == l \in Seq(Events) /\ Outcomes(l) = Outcomes(events)
           With(l, msg) == /\ l \in Seq(Events)
                           /\ Outcomes(l) = Outcomes(events) \cup {<<turn, msg>>}
<1>1. turn # NONE /\ Same(events)
  BY DEF Finishes, TypeOK
<1>2. ASSUME NEW l, Same(l), NEW msg \in {"AgentMessage", "Error"}
      PROVE  Same(Append(l, e(msg)))
  <2>1. e(msg) \in Events /\ ~EndsTurn(e(msg))
    BY <1>1, EndMessages
  <2> HIDE DEF e
  <2> QED BY <1>2, <2>1, OutcomeAppend, AppendProperties
<1>3. ASSUME NEW l, Same(l), NEW msg \in {"TurnAborted", "TurnComplete"}
      PROVE  With(Append(l, e(msg)), msg)
  <2>1. e(msg) \in Events /\ e(msg).turn = turn /\ e(msg).msg = msg
        /\ EndsTurn(e(msg))
    BY <1>1, EndMessages
  <2> HIDE DEF e
  <2> QED BY <1>3, <2>1, OutcomeAppend, AppendProperties
<1>4. ASSUME NEW l, NEW msg, With(l, msg) PROVE With(Append(l, bye), msg)
  <2>1. bye \in Events /\ ~EndsTurn(bye)
    BY EventTyped DEF SystemMsgs, Event, EndsTurn
  <2> HIDE DEF bye
  <2> QED BY <1>4, <2>1, OutcomeAppend, AppendProperties
<1> HIDE DEF Same, With
<1> DEFINE outcome == IF Cancelled THEN "TurnAborted" ELSE "TurnComplete"
<1>5. Same(log)
  BY <1>1, <1>2 DEF Finishes
<1>6. With(EndEvents(log, reason), outcome)
  <2>1. /\ With(Append(log, e("TurnAborted")), "TurnAborted")
        /\ With(Append(log, e("TurnComplete")), "TurnComplete")
        /\ With(Append(Append(log, e("Error")), e("TurnComplete")), "TurnComplete")
    <3> HIDE DEF e
    <3> QED BY <1>2, <1>3, <1>5
  <2>2. /\ reason \in {"aborted", "error", "complete"}
        /\ reason = "aborted" <=> Cancelled
    BY DEF Finishes
  <2> HIDE DEF With
  <2> QED BY <2>1, <2>2 DEF EndEvents, e
<1>7. \/ events' = EndEvents(log, reason)
      \/ events' = Append(EndEvents(log, reason), bye)
  BY DEF Finishes, EndTurn, ContinueAsNew, Exit, Proceed
<1>8. With(events', outcome)
  <2> HIDE DEF bye, outcome
  <2> QED BY <1>4, <1>6, <1>7
<1> QED BY <1>8 DEF With

\* A step that shows nothing of itself to the service.
LEMMA ServiceStutters ==
  ASSUME UNCHANGED <<user_turns, turn_counter, turn, current_turn_cancellation>>,
         Outcomes(events') = Outcomes(events), Closed' = Closed
  PROVE  UNCHANGED Service!serviceVars
BY DEF Service!serviceVars, Outcomes

\* What is said about the current turn is no outcome.
LEMMA SaidIsNoOutcome ==
  ASSUME TypeOK, NEW e \in Events, Says(e)
  PROVE  Outcomes(events') = Outcomes(events)
<1>1. ~EndsTurn(e)
  BY DEF Says, EndsTurn, CallMsgs, SystemMsgs
<1> QED BY <1>1, OutcomeAppend DEF Says, TypeOK

\* Operations: UserTurn submits, Interrupt cancels, the others are internal.
LEMMA SignalServes ==
  ASSUME TypeOK, CancelInv, Signal
  PROVE  [Service!ServiceNext]_(Service!serviceVars)
<1>1. Parked /\ Closed = FALSE /\ Closed' = FALSE
      /\ UNCHANGED <<events, turn, pc>>
  BY DEF Signal, UserTurn, Resolve, Shutdown, Compact, OverrideTurnContext,
         Interrupt, Op, runVars
<1>2. CASE UserTurn
  <2>1. Service!Submit
    BY <1>1, <1>2 DEF UserTurn, Service!Submit, Outcomes
  <2> QED BY <2>1 DEF Service!ServiceNext
<1>3. CASE Interrupt
  <2>1. CASE turn = NONE
    <3>1. UNCHANGED <<user_turns, turn_counter, current_turn_cancellation>>
      BY <1>3, <2>1 DEF Interrupt, CancelInv
    <3> QED BY <1>1, <3>1, ServiceStutters
  <2>2. CASE turn # NONE
    <3>1. current_turn_cancellation' = "cancelled"
      BY <1>3, <2>2 DEF Interrupt, CancelInv
    <3>2. Service!Cancel
      BY <1>1, <1>3, <2>2, <3>1 DEF Interrupt, Service!Cancel, Outcomes
    <3> QED BY <3>2 DEF Service!ServiceNext
  <2> QED BY <2>1, <2>2
<1>4. CASE ~UserTurn /\ ~Interrupt
  <2>1. UNCHANGED <<user_turns, turn_counter, current_turn_cancellation>>
    BY <1>4 DEF Signal, Resolve, Shutdown, Compact, OverrideTurnContext
  <2> QED BY <1>1, <2>1, ServiceStutters
<1> QED BY <1>2, <1>3, <1>4

\* The turn loop begins turns and stops between them.
LEMMA LoopServes ==
  ASSUME TypeOK, CancelInv,
         \/ Initialize \/ Park \/ CallModel
         \/ HandleCompact \/ LeaveLoop \/ TakeTurn
  PROVE  [Service!ServiceNext]_(Service!serviceVars)
<1>1. ASSUME turn = NONE, Closed' = TRUE, Outcomes(events') = Outcomes(events),
             UNCHANGED <<user_turns, turn_counter, turn, current_turn_cancellation>>
      PROVE  Service!ServiceNext
  <2>1. Service!Stop
    BY <1>1 DEF Service!Stop, Outcomes
  <2> QED BY <2>1 DEF Service!ServiceNext
<1>2. CASE Initialize \/ Park \/ CallModel
  <2>1. UNCHANGED <<user_turns, turn_counter, turn, current_turn_cancellation,
                    events>>
    BY <1>2 DEF Initialize, Park, CallModel, signalVars
  <2>2. Closed = FALSE /\ (Closed' = FALSE \/ (Closed' = TRUE /\ turn = NONE))
    BY <1>2 DEF Initialize, Park, CallModel, TypeOK
  <2> QED BY <1>1, <2>1, <2>2, ServiceStutters
<1>3. CASE HandleCompact \/ LeaveLoop
  <2>1. PICK msg \in SystemMsgs : events' = Append(events, Event(msg, NONE, NONE))
    BY <1>3 DEF HandleCompact, LeaveLoop, ContinueAsNew, Exit, Proceed,
                SystemMsgs
  <2>2. /\ Event(msg, NONE, NONE) \in Events
        /\ ~EndsTurn(Event(msg, NONE, NONE))
    BY EventTyped DEF Event, EndsTurn, SystemMsgs
  <2>3. Outcomes(events') = Outcomes(events)
    BY <2>1, <2>2, OutcomeAppend DEF TypeOK
  <2>4. UNCHANGED <<user_turns, turn_counter, turn, current_turn_cancellation>>
    BY <1>3 DEF HandleCompact, LeaveLoop
  <2>5. turn = NONE /\ Closed = FALSE /\ (Closed' = FALSE \/ Closed' = TRUE)
    BY <1>3 DEF HandleCompact, LeaveLoop, AtLoopTop, TypeOK
  <2> QED BY <1>1, <2>3, <2>4, <2>5, ServiceStutters
<1>4. CASE TakeTurn
  <2>1. turn = NONE /\ current_turn_cancellation = NONE
    BY <1>4 DEF TakeTurn, AtLoopTop, TypeOK, CancelInv
  <2>2. /\ Head(user_turns) \in Nat
        /\ events' = Append(events, Event("TurnStarted", Head(user_turns), NONE))
    BY <1>4, HeadTailProperties DEF TakeTurn, TypeOK
  <2>3. /\ Event("TurnStarted", Head(user_turns), NONE) \in Events
        /\ ~EndsTurn(Event("TurnStarted", Head(user_turns), NONE))
    BY <2>2, EventTyped DEF Event, EndsTurn, TurnMsgs
  <2>4. Outcomes(events') = Outcomes(events)
    BY <2>2, <2>3, OutcomeAppend DEF TypeOK
  <2>5. /\ (current_turn_cancellation = "cancelled") = FALSE
        /\ (current_turn_cancellation' = "cancelled") = FALSE
    BY <1>4, <2>1, ConstantsAssumption DEF TakeTurn
  <2>6. Closed = FALSE /\ Closed' = FALSE
    BY <1>4 DEF TakeTurn, AtLoopTop
  <2>7. Service!Begin
    BY <1>4, <2>1, <2>4, <2>5, <2>6 DEF TakeTurn, Service!Begin, Outcomes
  <2> QED BY <2>7 DEF Service!ServiceNext
<1> QED BY <1>2, <1>3, <1>4

\* A turn that ends is finished with the outcome it was promised.
LEMMA FinishServes ==
  ASSUME TypeOK, CancelInv,
         NEW reason, NEW log, NEW tokens, Finishes(reason, log, tokens)
  PROVE  Service!ServiceNext
<1>1. /\ turn # NONE /\ turn' = NONE /\ current_turn_cancellation' = NONE
      /\ UNCHANGED <<user_turns, turn_counter>>
  BY DEF Finishes, EndTurn, TypeOK
<1>2. (current_turn_cancellation' = "cancelled") = FALSE
  BY <1>1, ConstantsAssumption
<1>3. Closed' \in BOOLEAN
  OBVIOUS
<1>4. Service!Finish
  BY <1>1, <1>2, <1>3, FinishOutcome
     DEF Service!Finish, Service!Outcome, Outcomes, Cancelled
<1> QED BY <1>4 DEF Service!ServiceNext

\* Inside a turn the service sees nothing.
LEMMA HandlerServes ==
  ASSUME TypeOK, CancelInv, [Next]_vars,
         \/ WaitInterrupted \/ ToolCancelled \/ Released
         \/ ToolReturns \/ ToolElicits \/ ToolFails
         \/ \E r \in Requests : \/ CallMcp(r[1], r[2]) \/ CallAsks(r[1], r[2])
                                \/ CallRuns(r[1], r[2]) \/ CallRefused(r[1], r[2])
                                \/ CallMalformed(r[1], r[2])
  PROVE  UNCHANGED Service!serviceVars
<1>1. /\ UNCHANGED <<user_turns, turn_counter, turn, current_turn_cancellation>>
      /\ pc \in {"Model", "Wait", "Tool"} /\ pc' \in {"Check", "Wait", "Tool"}
  BY DEF WaitInterrupted, ToolCancelled, Released, Resolved, ApprovalGranted,
         ApprovalDenied, AnswerReceived, ElicitationResolved, ToolReturns,
         ToolElicits, ToolFails, Sampled, CallMcp, CallAsks, CallRuns,
         CallRefused, CallMalformed, HandlerFails, Respond, FollowUp, BeginTool, RequestAndWait, Await, HandlerFrame
<1>2. Closed' = Closed
  BY <1>1
<1>3. events' = events \/ \E e \in Events : Says(e)
  <2>1. turn # NONE /\ turn' # NONE
    BY <1>1 DEF TypeOK
  <2>2. ~TakeTurn
    BY <1>1 DEF TakeTurn, AtLoopTop
  <2>3. \A reason, log, tokens : ~Finishes(reason, log, tokens)
    BY <2>1 DEF Finishes, EndTurn
  <2> QED BY <2>2, <2>3, StepKinds
<1> QED BY <1>1, <1>2, <1>3, SaidIsNoOutcome, ServiceStutters

\* The steps of the workflow are steps of the service.
LEMMA NextServes ==
  ASSUME TypeOK, CancelInv, [Next]_vars
  PROVE  [Service!ServiceNext]_(Service!serviceVars)
<1>1. CASE UNCHANGED vars
  BY <1>1, ServiceStutters DEF vars, signalVars, runVars
<1>2. CASE CallTool
  BY <1>2, HandlerServes, FinishServes, TurnEnds DEF CallTool
<1> QED BY <1>1, <1>2, SignalServes, LoopServes, HandlerServes, FinishServes,
           TurnEnds
        DEF Next, Loop, Unwind, ModelReturns, ToolFinishes, Closure

\* The workflow implements the service: turns are numbered and started in the
\* order in which they were accepted, one at a time, each has one outcome, and
\* it is aborted exactly if it was interrupted, through continue-as-new too.
THEOREM WorkflowIsATurnService == Spec => ImplementsTurnService
<1>1. Init => Service!ServiceInit
  BY ConstantsAssumption DEF Init, Service!ServiceInit
<1>2. TypeOK /\ CancelInv /\ [Next]_vars
        => [Service!ServiceNext]_(Service!serviceVars)
  BY NextServes
<1> QED BY <1>1, <1>2, TypeCorrect, CancelInvHolds, PTL
        DEF Spec, ImplementsTurnService, Service!ServiceSpec

-----------------------------------------------------------------------------
(* Tools that began                                                        *)

\* The log itself explains what became of the tool that began with event b.
Settled(log, b) ==
  \/ \E j \in DOMAIN log : log[j].msg = "End" /\ log[j].call = b.call
  \/ \E j \in DOMAIN log : log[j].turn = b.turn /\ log[j].msg = "TurnAborted"

\* The calls the model has a response to.
Told(h) == {h[i][2] : i \in {j \in DOMAIN h : h[j][1] # "user"}}

\* Begun event b is accounted for in the current turn.
InTurn(b) == b.turn = turn /\ turn # NONE

\* The inductive invariant: what the model was told of and the log does not
\* explain belongs to the current turn, which is interrupted; and the tool
\* that runs was begun in the current turn.
BegunInv ==
  \A i \in DOMAIN events : events[i].msg = "Begin" =>
    /\ \/ Settled(events, events[i])
       \/ events[i].call \notin Told(history)
       \/ InTurn(events[i]) /\ interrupt_requested
    /\ pc = "Tool" /\ call.id = events[i].call => InTurn(events[i])

AllSettled(log, told) ==
  \A i \in DOMAIN log :
    log[i].msg = "Begin" => Settled(log, log[i]) \/ log[i].call \notin told

\* Everything that began is settled, or belongs to turn t.
SettledBut(log, told, t) ==
  \A i \in DOMAIN log : log[i].msg = "Begin" =>
    Settled(log, log[i]) \/ log[i].call \notin told \/ log[i].turn = t

\* What is settled stays settled, and only a Begin opens something new.
LEMMA SettledAppend ==
  ASSUME NEW log \in Seq(Events), NEW e \in Events, NEW told
  PROVE  /\ \A b : Settled(log, b) => Settled(Append(log, e), b)
         /\ e.msg # "Begin" =>
              /\ AllSettled(log, told) => AllSettled(Append(log, e), told)
              /\ \A t : SettledBut(log, told, t)
                          => SettledBut(Append(log, e), told, t)
         /\ e.msg = "TurnAborted" /\ SettledBut(log, told, e.turn)
              => AllSettled(Append(log, e), told)
<1> DEFINE l == Append(log, e)
           m == Len(log) + 1
<1>1. /\ \A i \in DOMAIN l : \/ i \in DOMAIN log /\ l[i] = log[i]
                             \/ i = m /\ l[i] = e
      /\ \A i \in DOMAIN log : i \in DOMAIN l /\ l[i] = log[i]
      /\ m \in DOMAIN l /\ l[m] = e
  BY AppendedEntries
<1> HIDE DEF l, m
<1>2. \A b : Settled(log, b) => Settled(l, b)
  BY <1>1 DEF Settled
<1>3. e.msg # "Begin" =>
        /\ AllSettled(log, told) => AllSettled(l, told)
        /\ \A t : SettledBut(log, told, t) => SettledBut(l, told, t)
  BY <1>1, <1>2 DEF AllSettled, SettledBut
<1>4. ASSUME e.msg = "TurnAborted", SettledBut(log, told, e.turn)
      PROVE  AllSettled(l, told)
  <2>1. \A b : b.turn = e.turn => Settled(l, b)
    BY <1>1, <1>4 DEF Settled
  <2>2. SettledBut(l, told, e.turn)
    BY <1>3, <1>4
  <2> QED BY <2>1, <2>2 DEF AllSettled, SettledBut
<1> QED BY <1>2, <1>3, <1>4 DEF l

\* A response adds its call to those the model was told of.
LEMMA ToldAppend ==
  ASSUME NEW h \in Seq({"user", "refused", "denied", "output"} \X Nat),
         NEW outcome \in {"user", "refused", "denied", "output"}, NEW id \in Nat
  PROVE  /\ Told(Append(h, <<outcome, id>>)) \subseteq Told(h) \cup {id}
         /\ outcome = "user" => Told(Append(h, <<outcome, id>>)) = Told(h)
<1> DEFINE x == <<outcome, id>>
           l == Append(h, x)
           m == Len(h) + 1
<1>1. x \in {"user", "refused", "denied", "output"} \X Nat
      /\ x[1] = outcome /\ x[2] = id
  OBVIOUS
<1> HIDE DEF x
<1>2. /\ \A i \in DOMAIN l : \/ i \in DOMAIN h /\ l[i] = h[i]
                             \/ i = m /\ l[i] = x
      /\ \A i \in DOMAIN h : i \in DOMAIN l /\ l[i] = h[i]
  <2>1. /\ l \in Seq({"user", "refused", "denied", "output"} \X Nat)
        /\ Len(l) = Len(h) + 1
        /\ \A i \in 1..Len(h) : l[i] = h[i]
        /\ l[Len(h) + 1] = x
    BY <1>1, AppendProperties
  <2>2. Len(h) \in Nat /\ DOMAIN h = 1..Len(h) /\ DOMAIN l = 1..Len(l)
    BY <2>1, LenProperties
  <2> HIDE DEF l
  <2> QED BY <2>1, <2>2
<1> HIDE DEF l, m
<1>3. Told(l) \subseteq Told(h) \cup {id}
  BY <1>1, <1>2 DEF Told
<1>4. Told(h) \subseteq Told(l)
  BY <1>2 DEF Told
<1>5. outcome = "user" => Told(l) \subseteq Told(h)
  BY <1>1, <1>2 DEF Told
<1> QED BY <1>3, <1>4, <1>5 DEF l, x

LEMMA ResponseTold ==
  ASSUME TypeOK, NEW id \in Nat, NEW outcome \in {"refused", "denied", "output"},
         history' = Append(history, <<outcome, id>>)
  PROVE  Told(history') \subseteq Told(history) \cup {id}
<1>1. history \in Seq({"user", "refused", "denied", "output"} \X Nat)
  BY DEF TypeOK
<1> QED BY <1>1, ToldAppend

LEMMA MessageTold ==
  ASSUME TypeOK, TakeTurn
  PROVE  Told(history') = Told(history)
<1>1. history \in Seq({"user", "refused", "denied", "output"} \X Nat)
  BY DEF TypeOK
<1>2. Head(user_turns) \in Nat
  BY HeadTailProperties DEF TakeTurn, TypeOK
<1>3. history' = Append(history, <<"user", Head(user_turns)>>)
  BY DEF TakeTurn
<1> QED BY <1>1, <1>2, <1>3, ToldAppend

\* A step inside a turn keeps the invariant if it begins nothing, accounts for
\* the tool the model is told of and starts no tool that has begun.
LEMMA BegunKept ==
  ASSUME TypeOK, BegunInv, turn' = turn,
         interrupt_requested => interrupt_requested',
         \/ events' = events
         \/ \E e \in Events : e.msg # "Begin" /\ events' = Append(events, e),
         \A i \in DOMAIN events : events[i].msg = "Begin" =>
           /\ events[i].call \in Told(history')
                => \/ events[i].call \in Told(history)
                   \/ Settled(events', events[i])
                   \/ InTurn(events[i]) /\ interrupt_requested'
           /\ pc' = "Tool" /\ call'.id = events[i].call => InTurn(events[i])
  PROVE  BegunInv'
<1> DEFINE Ok(b) == /\ \/ Settled(events', b)
                       \/ b.call \notin Told(history')
                       \/ b.turn = turn' /\ turn' # NONE /\ interrupt_requested'
                    /\ pc' = "Tool" /\ call'.id = b.call
                         => b.turn = turn' /\ turn' # NONE
<1>1. events \in Seq(Events)
  BY DEF TypeOK
<1>2. \A b : Settled(events, b) => Settled(events', b)
  BY <1>1, SettledAppend
<1>3. \A i \in DOMAIN events : events[i].msg = "Begin" => Ok(events[i])
  BY <1>2 DEF BegunInv, InTurn
<1>4. \A i \in DOMAIN events' : events'[i].msg = "Begin" =>
        \E j \in DOMAIN events : events[j] = events'[i]
  BY <1>1, AppendedEntries
<1>5. \A i \in DOMAIN events' : events'[i].msg = "Begin" => Ok(events'[i])
  <2> HIDE DEF Ok
  <2> QED BY <1>3, <1>4
<1> QED BY <1>5 DEF BegunInv, InTurn

\* Between turns everything is settled.
LEMMA SettledBetweenTurns ==
  ASSUME BegunInv, turn = NONE
  PROVE  AllSettled(events, Told(history))
BY DEF BegunInv, AllSettled, InTurn

\* A tool begins while no other is running, and the model was not told of it.
LEMMA ToolBegins ==
  ASSUME TypeOK, BegunInv, pc \in {"Model", "Wait"},
         NEW c \in Calls, Unbegun(events, c.id), c.id \notin Told(history),
         BeginTool(c)
  PROVE  BegunInv'
<1> DEFINE e == Event("Begin", turn, c.id)
<1>1. /\ turn' = turn /\ turn # NONE /\ pc' = "Tool" /\ call' = c
      /\ interrupt_requested' = interrupt_requested /\ history' = history
      /\ events' = Append(events, e) /\ events \in Seq(Events)
  BY DEF BeginTool, Await, HandlerFrame, TypeOK
<1>2. e \in Events /\ e.turn = turn /\ e.call = c.id
  BY EventTyped DEF TypeOK, Calls, CallMsgs, Event
<1> HIDE DEF e
<1>3. \A b : Settled(events, b) => Settled(events', b)
  BY <1>1, <1>2, SettledAppend
<1>4. \A i \in DOMAIN events' :
        \/ i \in DOMAIN events /\ events'[i] = events[i]
        \/ events'[i] = e
  BY <1>1, <1>2, AppendedEntries
<1> QED BY <1>1, <1>2, <1>3, <1>4 DEF BegunInv, Unbegun, InTurn

\* A turn ends: an aborted one says so, and one that is not interrupted has
\* nothing open.
LEMMA FinishSettles ==
  ASSUME TypeOK, CancelInv, BegunInv,
         NEW reason, NEW log, NEW tokens, Finishes(reason, log, tokens)
  PROVE  BegunInv'
<1> DEFINE e(msg) == Event(msg, turn, NONE)
           bye == Event("ShutdownComplete", NONE, NONE)
           told == Told(history)
           But(l) == l \in Seq(Events) /\ SettledBut(l, told, turn)
           All(l) == l \in Seq(Events) /\ AllSettled(l, told)
<1>1. turn # NONE /\ But(events)
  BY DEF Finishes, TypeOK, BegunInv, SettledBut, InTurn
<1>2. reason # "aborted" => All(events)
  BY DEF Finishes, TypeOK, CancelInv, BegunInv, AllSettled
<1> HIDE DEF told
<1>3. ASSUME NEW l, NEW msg \in {"AgentMessage", "Error", "TurnAborted", "TurnComplete"}
      PROVE  /\ But(l) => But(Append(l, e(msg)))
             /\ All(l) => All(Append(l, e(msg)))
             /\ But(l) /\ msg = "TurnAborted" => All(Append(l, e(msg)))
  <2>1. e(msg) \in Events /\ e(msg).msg = msg /\ e(msg).turn = turn
    BY <1>1, EndMessages
  <2> HIDE DEF e
  <2> QED BY <2>1, SettledAppend, AppendProperties
<1>4. ASSUME NEW l, All(l) PROVE All(Append(l, bye))
  <2>1. bye \in Events /\ bye.msg # "Begin"
    BY EventTyped DEF SystemMsgs, Event
  <2> HIDE DEF bye
  <2> QED BY <1>4, <2>1, SettledAppend, AppendProperties
<1> HIDE DEF But, All
<1>5. But(log) /\ (reason # "aborted" => All(log))
  BY <1>1, <1>2, <1>3 DEF Finishes
<1>6. All(EndEvents(log, reason))
  <2>1. /\ All(Append(log, e("TurnAborted")))
        /\ reason # "aborted" =>
             /\ All(Append(Append(log, e("Error")), e("TurnComplete")))
             /\ All(Append(log, e("TurnComplete")))
    <3> HIDE DEF e
    <3> QED BY <1>3, <1>5
  <2>2. reason \in {"aborted", "error", "complete"}
    BY DEF Finishes
  <2> QED BY <2>1, <2>2 DEF EndEvents, e
<1>7. \/ events' = EndEvents(log, reason)
      \/ events' = Append(EndEvents(log, reason), bye)
  BY DEF Finishes, EndTurn, ContinueAsNew, Exit, Proceed
<1>8. All(events')
  <2> HIDE DEF bye
  <2> QED BY <1>4, <1>6, <1>7
<1>9. Told(history') = told /\ pc' # "Tool"
  BY DEF told, Finishes, EndTurn, ContinueAsNew, Exit
<1> QED BY <1>8, <1>9 DEF All, AllSettled, BegunInv

\* The tool that runs returns, fails, asks the user or is cancelled.
LEMMA ToolSettles ==
  ASSUME TypeOK, CancelInv, ApprovalInv, BegunInv,
         ToolReturns \/ ToolElicits \/ ToolCancelled \/ ToolFails
  PROVE  BegunInv'
<1>1. /\ pc = "Tool" /\ call.id \in Nat /\ turn \in Nat /\ turn' = turn
      /\ interrupt_requested' = interrupt_requested /\ events \in Seq(Events)
      /\ pc' # "Tool"
  BY CurrentCallTyped
     DEF ToolReturns, ToolElicits, ToolCancelled, ToolFails, HandlerFails,
         Respond, FollowUp, RequestAndWait, Await, HandlerFrame, TypeOK
<1>2. \/ history' = history
      \/ \E outcome \in {"denied", "output"} :
           history' = Append(history, <<outcome, call.id>>)
  BY DEF ToolReturns, ToolElicits, ToolCancelled, ToolFails, HandlerFails,
         Respond, RequestAndWait, Await
<1>3. Told(history') \subseteq Told(history) \cup {call.id}
  BY <1>1, <1>2, ResponseTold
<1>4. ASSUME NEW i \in DOMAIN events, events[i].msg = "Begin",
             events[i].call = call.id
      PROVE  InTurn(events[i])
  BY <1>1, <1>4 DEF BegunInv
<1>5. CASE ToolCancelled
  <2>1. interrupt_requested /\ events' = events
    BY <1>1, <1>5 DEF ToolCancelled, CancelInv, TypeOK
  <2> QED BY <1>1, <1>3, <1>4, <2>1, BegunKept
<1>6. CASE call.kind = "mcp"
  <2>1. \A i \in DOMAIN events : events[i].msg = "Begin" => events[i].call # call.id
    BY <1>1, <1>6 DEF ApprovalInv, Unbegun
  <2>2. /\ Event("Request", turn, call.id) \in Events
        /\ Event("Request", turn, call.id).msg # "Begin"
    BY <1>1, EventTyped DEF Event, CallMsgs
  <2>3. \/ events' = events
        \/ events' = Append(events, Event("Request", turn, call.id))
    BY <1>6 DEF ToolReturns, ToolElicits, ToolCancelled, ToolFails,
                RequestAndWait
  <2> QED BY <1>1, <1>3, <2>1, <2>2, <2>3, BegunKept
<1>7. CASE ToolReturns /\ call.kind # "mcp"
  <2> DEFINE e == Event("End", turn, call.id)
  <2>1. e \in Events /\ e.msg = "End" /\ e.call = call.id
    BY <1>1, EventTyped DEF Event, CallMsgs
  <2>2. events' = Append(events, e)
    BY <1>7 DEF ToolReturns
  <2> HIDE DEF e
  <2>3. \A b : b.call = call.id => Settled(events', b)
    BY <1>1, <2>1, <2>2, AppendedEntries DEF Settled
  <2> QED BY <1>1, <1>3, <2>1, <2>2, <2>3, BegunKept
<1>8. CASE ToolFails
  <2>1. history' = history /\ events' = events
    BY <1>8 DEF ToolFails, HandlerFails
  <2> QED BY <1>1, <2>1, BegunKept
<1> QED BY <1>5, <1>6, <1>7, <1>8 DEF ToolElicits

\* The model has been told of no call that is still to be made.
ToldInv == \A n \in Told(history) : n < total_iterations

\* A waiting handler's call has not begun, and neither has a new one; what it
\* makes of the call keeps account of the tools that began.
LEMMA HandlerSettles ==
  ASSUME TypeOK, ApprovalInv, BegunInv, ToldInv, NEW c \in Calls,
         pc \in {"Model", "Wait"}, c.id = total_iterations,
         Unbegun(events, c.id), UNCHANGED <<turn, interrupt_requested>>,
         \/ /\ events' = events
            /\ \/ UNCHANGED history
               \/ \E outcome \in {"refused", "denied", "output"} :
                    Respond(c, outcome)
            /\ pc' = "Tool" => call' = c
         \/ RequestAndWait(c)
         \/ BeginTool(c)
  PROVE  BegunInv'
<1>1. c.id \in Nat /\ turn \in Nat /\ events \in Seq(Events)
  BY DEF Calls, TypeOK
<1>2. CASE BeginTool(c)
  <2>1. c.id \notin Told(history)
    BY <1>1 DEF ToldInv
  <2> QED BY <1>2, <2>1, ToolBegins
<1>3. CASE RequestAndWait(c)
  <2>1. /\ Event("Request", turn, c.id) \in Events
        /\ Event("Request", turn, c.id).msg # "Begin"
    BY <1>1, EventTyped DEF Event, CallMsgs
  <2>2. /\ events' = Append(events, Event("Request", turn, c.id))
        /\ history' = history /\ pc' = "Wait"
    BY <1>3 DEF RequestAndWait, Await
  <2> QED BY <2>1, <2>2, BegunKept
<1>4. CASE /\ events' = events
           /\ \/ UNCHANGED history
              \/ \E outcome \in {"refused", "denied", "output"} :
                   Respond(c, outcome)
           /\ pc' = "Tool" => call' = c
  <2>1. Told(history') \subseteq Told(history) \cup {c.id}
    BY <1>1, <1>4, ResponseTold DEF Respond
  <2> QED BY <1>4, <2>1, BegunKept DEF Unbegun
<1> QED BY <1>2, <1>3, <1>4

\* Every step keeps account of the tools that began.
LEMMA NextBegun ==
  ASSUME TypeOK, CancelInv, ApprovalInv, ToldInv, BegunInv, [Next]_vars
  PROVE  BegunInv'
<1>0. events \in Seq(Events)
  BY DEF TypeOK
<1>1. ASSUME pc' # "Tool", UNCHANGED <<events, turn, interrupt_requested, history>>
      PROVE  BegunInv'
  BY <1>1, BegunKept
<1>2. ASSUME UNCHANGED <<events, turn, pc, call, history>>,
             interrupt_requested => interrupt_requested'
      PROVE  BegunInv'
  BY <1>2, BegunKept DEF BegunInv
<1>3. ASSUME turn = NONE, NEW e \in Events, e.msg # "Begin", pc' # "Tool",
             events' = Append(events, e), Told(history') = Told(history)
      PROVE  BegunInv'
  <2>1. AllSettled(events', Told(history))
    BY <1>0, <1>3, SettledBetweenTurns, SettledAppend
  <2> QED BY <1>3, <2>1 DEF AllSettled, BegunInv
<1>4. CASE UNCHANGED vars
  BY <1>2, <1>4 DEF vars, signalVars, runVars
<1>5. CASE Signal
  BY <1>2, <1>5 DEF Signal, UserTurn, Resolve, Shutdown, Compact,
                    OverrideTurnContext, Interrupt, Op, runVars
<1>6. CASE Initialize \/ Park \/ CallModel
  BY <1>1, <1>6 DEF Initialize, Park, CallModel, signalVars
<1>7. CASE HandleCompact \/ LeaveLoop \/ TakeTurn
  <2>1. PICK msg \in SystemMsgs \cup TurnMsgs, t \in Nat \cup {NONE} :
               events' = Append(events, Event(msg, t, NONE))
    BY <1>7, HeadTailProperties
       DEF TakeTurn, HandleCompact, LeaveLoop, ContinueAsNew, Exit, Proceed,
           SystemMsgs, TurnMsgs, TypeOK
  <2>2. /\ Event(msg, t, NONE) \in Events
        /\ Event(msg, t, NONE).msg # "Begin"
    BY EventTyped DEF Event, SystemMsgs, TurnMsgs
  <2>3. turn = NONE /\ pc' # "Tool"
    BY <1>7 DEF TakeTurn, HandleCompact, LeaveLoop, ContinueAsNew, Exit,
                AtLoopTop, TypeOK
  <2>4. Told(history') = Told(history)
    BY <1>7, MessageTold DEF HandleCompact, LeaveLoop
  <2> QED BY <1>3, <2>1, <2>2, <2>3, <2>4
<1>8. CASE WaitInterrupted \/ Released
  <2>1. /\ pc = "Wait" /\ call \in Calls /\ call.id = total_iterations
        /\ Unbegun(events, call.id)
    BY <1>8, CurrentCallTyped
       DEF WaitInterrupted, Released, Resolved, ApprovalGranted,
           ApprovalDenied, AnswerReceived, ElicitationResolved, ApprovalInv,
           TypeOK
  <2>2. UNCHANGED <<turn, interrupt_requested>>
    BY <1>8 DEF WaitInterrupted, Released, ApprovalGranted, ApprovalDenied,
       AnswerReceived, ElicitationResolved, BeginTool, Await, Respond,
       FollowUp, HandlerFrame
  <2>3. \/ BeginTool(call)
        \/ /\ events' = events /\ pc' # "Tool"
           /\ \E outcome \in {"refused", "denied", "output"} :
                Respond(call, outcome)
    BY <1>8 DEF WaitInterrupted, Released, ApprovalGranted, ApprovalDenied,
       AnswerReceived, ElicitationResolved, Respond, FollowUp
  <2> QED BY <2>1, <2>2, <2>3, HandlerSettles
<1>9. ASSUME NEW r \in Requests,
             \/ CallMcp(r[1], r[2]) \/ CallRefused(r[1], r[2])
             \/ CallAsks(r[1], r[2]) \/ CallRuns(r[1], r[2])
             \/ CallMalformed(r[1], r[2])
      PROVE  BegunInv'
  <2> DEFINE c == SampledCall(r[1], r[2])
  <2>1. c \in Calls /\ c.id = total_iterations /\ pc = "Model"
    BY <1>9, SampledCallTyped
       DEF TypeOK, CallMcp, CallRefused, CallAsks, CallRuns, CallMalformed,
           Sampled
  <2>2. Unbegun(events, c.id)
    BY <2>1, FreshCall DEF Unbegun
  <2>3. UNCHANGED <<turn, interrupt_requested>>
    BY <1>9 DEF CallMcp, CallRefused, CallAsks, CallRuns, CallMalformed,
       HandlerFails, Respond, FollowUp, BeginTool, RequestAndWait, Await,
       HandlerFrame
  <2>4. \/ BeginTool(c)
        \/ RequestAndWait(c)
        \/ /\ events' = events /\ (pc' = "Tool" => call' = c)
           /\ \/ UNCHANGED history
              \/ \E outcome \in {"refused", "denied", "output"} :
                   Respond(c, outcome)
    BY <1>9 DEF CallMcp, CallRefused, CallAsks, CallRuns, CallMalformed,
       HandlerFails, Respond, FollowUp, Await
  <2> HIDE DEF c
  <2> QED BY <2>1, <2>2, <2>3, <2>4, HandlerSettles
<1>10. CASE CallTool
  BY <1>9, <1>10 DEF CallTool
<1> QED BY <1>4, <1>5, <1>6, <1>7, <1>8, <1>10, ToolSettles, TurnEnds,
           FinishSettles
        DEF Next, Loop, Unwind, ModelReturns, ToolFinishes, Closure

\* The model is told of a call when its sampling request is over.
LEMMA NextTold ==
  ASSUME TypeOK, ApprovalInv, ToldInv, [Next]_vars
  PROVE  ToldInv'
<1>1. ASSUME Told(history') = Told(history),
             total_iterations' \in {total_iterations, total_iterations + 1}
      PROVE  ToldInv'
  <2>1. \A n \in Told(history) : n \in Nat
    BY LenProperties, ElementOfSeq DEF Told, TypeOK
  <2> QED BY <1>1, <2>1 DEF ToldInv, TypeOK
<1>2. ASSUME NEW c \in Calls, c.id = total_iterations,
             NEW outcome \in {"refused", "denied", "output"},
             Respond(c, outcome)
      PROVE  ToldInv'
  <2>1. /\ Told(history') \subseteq Told(history) \cup {total_iterations}
        /\ total_iterations' = total_iterations + 1
    BY <1>2, ToldAppend DEF Respond, FollowUp, TypeOK
  <2>2. \A n \in Told(history) : n \in Nat
    BY LenProperties, ElementOfSeq DEF Told, TypeOK
  <2> QED BY <2>1, <2>2 DEF ToldInv, TypeOK
<1>3. CASE UNCHANGED vars
  BY <1>1, <1>3 DEF vars, runVars
<1>4. CASE Signal
  BY <1>1, <1>4 DEF Signal, UserTurn, Resolve, Shutdown, Compact,
                    OverrideTurnContext, Interrupt, Op, runVars
<1>5. CASE Initialize \/ Park \/ CallModel \/ HandleCompact \/ LeaveLoop
  BY <1>1, <1>5 DEF Initialize, Park, CallModel, HandleCompact, LeaveLoop
<1>6. CASE TakeTurn
  <2>1. Told(history') = Told(history) /\ total_iterations' = total_iterations
    BY <1>6, MessageTold DEF TakeTurn
  <2> QED BY <1>1, <2>1
<1>7. CASE AbortTurn \/ ReachMaxIterations \/ ModelAborted \/ ModelFails
           \/ ModelAnswers \/ ToolFails
  BY <1>1, <1>7 DEF AbortTurn, ReachMaxIterations, ModelAborted, ModelFails,
                    ModelAnswers, ToolFails, HandlerFails, FollowUp
<1>8. CASE WaitInterrupted \/ Released \/ ToolReturns \/ ToolElicits
           \/ ToolCancelled
  <2>1. call \in Calls /\ call.id = total_iterations
    BY <1>8, CurrentCallTyped, ConstantsAssumption
       DEF WaitInterrupted, Released, Resolved, ApprovalGranted,
           ApprovalDenied, AnswerReceived, ElicitationResolved, ToolReturns,
           ToolElicits, ToolCancelled, ApprovalInv, TypeOK
  <2>2. \/ UNCHANGED <<history, total_iterations>>
        \/ \E outcome \in {"refused", "denied", "output"} :
             Respond(call, outcome)
    BY <1>8 DEF WaitInterrupted, Released, ApprovalGranted, ApprovalDenied,
       AnswerReceived, ElicitationResolved, ToolReturns, ToolElicits,
       ToolCancelled, BeginTool, RequestAndWait, Await
  <2> QED BY <1>1, <1>2, <2>1, <2>2
<1>9. CASE CallTool
  <2> PICK r \in Requests : \/ CallMcp(r[1], r[2])
                            \/ CallAsks(r[1], r[2])
                            \/ CallRuns(r[1], r[2])
                            \/ CallRefused(r[1], r[2])
                            \/ CallMalformed(r[1], r[2])
    BY <1>9 DEF CallTool
  <2> DEFINE c == SampledCall(r[1], r[2])
  <2>1. c \in Calls /\ c.id = total_iterations
    BY SampledCallTyped DEF TypeOK
  <2>2. \/ history' = history /\ total_iterations' = total_iterations
        \/ history' = history /\ total_iterations' = total_iterations + 1
        \/ Respond(c, "refused")
    BY DEF CallMcp, CallRefused, CallAsks, CallRuns, CallMalformed,
       HandlerFails, FollowUp, BeginTool, RequestAndWait, Await
  <2> HIDE DEF c
  <2> QED BY <1>1, <1>2, <2>1, <2>2
<1> QED BY <1>3, <1>4, <1>5, <1>6, <1>7, <1>8, <1>9
        DEF Next, Loop, Unwind, ModelReturns, ToolFinishes, Closure

\* What the model was told of a command, the client was told as well: a begun
\* command to which the model has a response has its end, unless its turn was
\* interrupted.
THEOREM UnfinishedToolsAreExplained == Spec => []UnfinishedToolsExplained
<1>1. Init => BegunInv /\ ToldInv
  BY DEF Init, BegunInv, ToldInv, Told
<1>2. BegunInv => UnfinishedToolsExplained
  BY DEF BegunInv, UnfinishedToolsExplained, Settled, Answered, Told, InTurn
<1> QED BY <1>1, <1>2, NextBegun, NextTold, TypeCorrect, CancelInvHolds,
           ApprovalInvHolds, PTL DEF Spec

-----------------------------------------------------------------------------
(* The rollout                                                             *)

Entries == {"user", "refused", "denied", "output"} \X Nat

EndedCalls(log) == {log[i].call : i \in {j \in DOMAIN log : log[j].msg = "End"}}
Outputs(h) == {h[i][2] : i \in {j \in DOMAIN h : h[j][1] = "output"}}

\* The rollout h holds the messages of the first n turns, in order.
UsersInOrder(h, n) ==
  /\ \A t \in 0..(n - 1) : \E i \in DOMAIN h : h[i] = <<"user", t>>
  /\ \A i \in DOMAIN h : h[i][1] = "user" =>
       /\ h[i][2] < n
       /\ \A j \in 1..(i - 1) : h[j][1] = "user" => h[j][2] < h[i][2]

\* RolloutMatchesEvents, and that no turn is in the rollout before it is taken.
RolloutInv ==
  /\ UsersInOrder(history, Taken)
  /\ EndedCalls(events) \subseteq Outputs(history)

\* Only an End ends a call.
LEMMA EndedAppend ==
  ASSUME NEW log \in Seq(Events), NEW e \in Events
  PROVE  /\ e.msg # "End" => EndedCalls(Append(log, e)) = EndedCalls(log)
         /\ EndedCalls(Append(log, e)) \subseteq EndedCalls(log) \cup {e.call}
<1> DEFINE l == Append(log, e)
           m == Len(log) + 1
<1>1. /\ \A i \in DOMAIN l : \/ i \in DOMAIN log /\ l[i] = log[i]
                             \/ i = m /\ l[i] = e
      /\ \A i \in DOMAIN log : i \in DOMAIN l /\ l[i] = log[i]
  BY AppendedEntries
<1> HIDE DEF l, m
<1>2. EndedCalls(log) \subseteq EndedCalls(l)
  BY <1>1 DEF EndedCalls
<1>3. EndedCalls(l) \subseteq EndedCalls(log) \cup {e.call}
  BY <1>1 DEF EndedCalls
<1>4. e.msg # "End" => EndedCalls(l) \subseteq EndedCalls(log)
  BY <1>1 DEF EndedCalls
<1> QED BY <1>2, <1>3, <1>4 DEF l

\* Where the entries of the rollout are once one has been appended.
LEMMA HistoryAppend ==
  ASSUME NEW h \in Seq(Entries), NEW x \in Entries
  PROVE  LET new == Append(h, x) IN
         /\ \A i \in DOMAIN new : \/ i \in DOMAIN h /\ new[i] = h[i] /\ i <= Len(h)
                                  \/ i = Len(h) + 1 /\ new[i] = x
         /\ \A i \in DOMAIN h : i \in DOMAIN new /\ new[i] = h[i]
         /\ Len(h) + 1 \in DOMAIN new /\ new[Len(h) + 1] = x
         /\ Len(h) \in Nat /\ DOMAIN h = 1..Len(h)
BY AppendProperties, LenProperties

\* A response leaves the messages of the turns where they are, and an output
\* is one from then on.
LEMMA RolloutResponse ==
  ASSUME NEW h \in Seq(Entries), NEW x \in Entries, x[1] # "user",
         NEW n \in Nat, UsersInOrder(h, n)
  PROVE  /\ UsersInOrder(Append(h, x), n)
         /\ Outputs(h) \subseteq Outputs(Append(h, x))
         /\ x[1] = "output" => x[2] \in Outputs(Append(h, x))
<1> DEFINE new == Append(h, x)
           m == Len(h) + 1
<1>1. /\ \A i \in DOMAIN new : \/ i \in DOMAIN h /\ new[i] = h[i]
                               \/ i = m /\ new[i] = x
      /\ \A i \in DOMAIN h : i \in DOMAIN new /\ new[i] = h[i]
      /\ m \in DOMAIN new /\ new[m] = x
  BY HistoryAppend
<1>2. \A i \in DOMAIN h : 1..(i - 1) \subseteq DOMAIN h
  BY LenProperties
<1> HIDE DEF new, m
<1>3. \A t \in 0..(n - 1) : \E i \in DOMAIN new : new[i] = <<"user", t>>
  BY <1>1 DEF UsersInOrder
<1>4. \A i \in DOMAIN new : new[i][1] = "user" =>
        /\ new[i][2] < n
        /\ \A j \in 1..(i - 1) : new[j][1] = "user" => new[j][2] < new[i][2]
  BY <1>1, <1>2 DEF UsersInOrder
<1>5. Outputs(h) \subseteq Outputs(new)
  BY <1>1 DEF Outputs
<1>6. x[1] = "output" => x[2] \in Outputs(new)
  BY <1>1 DEF Outputs
<1>7. UsersInOrder(new, n)
  BY <1>3, <1>4 DEF UsersInOrder
<1> QED BY <1>5, <1>6, <1>7 DEF new

\* The message of the next turn follows those of the turns before.
LEMMA RolloutTurn ==
  ASSUME NEW h \in Seq(Entries), NEW n \in Nat, UsersInOrder(h, n)
  PROVE  /\ UsersInOrder(Append(h, <<"user", n>>), n + 1)
         /\ Outputs(h) \subseteq Outputs(Append(h, <<"user", n>>))
<1> DEFINE x == <<"user", n>>
           new == Append(h, x)
           m == Len(h) + 1
<1>0. x \in Entries /\ x[1] = "user" /\ x[2] = n
  BY DEF Entries
<1> HIDE DEF x
<1>1. /\ \A i \in DOMAIN new : \/ i \in DOMAIN h /\ new[i] = h[i]
                               \/ i = m /\ new[i] = x
      /\ \A i \in DOMAIN h : i \in DOMAIN new /\ new[i] = h[i]
      /\ m \in DOMAIN new /\ new[m] = x
  BY <1>0, HistoryAppend
<1>2. /\ \A i \in DOMAIN h : 1..(i - 1) \subseteq DOMAIN h
      /\ 1..(m - 1) \subseteq DOMAIN h
  BY LenProperties
<1>3. \A i \in DOMAIN h : h[i][2] \in Nat
  BY LenProperties, ElementOfSeq DEF Entries
<1> HIDE DEF new, m
<1>4. ASSUME NEW t \in 0..(n + 1 - 1)
      PROVE  \E i \in DOMAIN new : new[i] = <<"user", t>>
  <2>1. CASE t = n
    BY <1>1, <2>1 DEF x
  <2>2. CASE t # n
    <3>1. t \in 0..(n - 1)
      BY <2>2
    <3> QED BY <1>1, <3>1 DEF UsersInOrder
  <2> QED BY <2>1, <2>2
<1>5. \A i \in DOMAIN h : h[i][1] = "user" => h[i][2] < n /\ h[i][2] < n + 1
  BY <1>3 DEF UsersInOrder
<1>6. ASSUME NEW i \in DOMAIN new, new[i][1] = "user"
      PROVE  /\ new[i][2] < n + 1
             /\ \A j \in 1..(i - 1) : new[j][1] = "user" => new[j][2] < new[i][2]
  <2>1. CASE i \in DOMAIN h
    BY <1>1, <1>2, <1>5, <1>6, <2>1 DEF UsersInOrder
  <2>2. CASE i = m
    BY <1>0, <1>1, <1>2, <1>5, <2>2
  <2> QED BY <1>1, <2>1, <2>2
<1>7. UsersInOrder(new, n + 1)
  BY <1>4, <1>6 DEF UsersInOrder
<1>8. Outputs(h) \subseteq Outputs(new)
  BY <1>1 DEF Outputs
<1> QED BY <1>7, <1>8 DEF new, x

\* No turn is taken but by TakeTurn.
LEMMA TakenKept ==
  ASSUME TypeOK, [Next]_vars, ~TakeTurn
  PROVE  Taken' = Taken
<1>1. CASE UNCHANGED <<user_turns, turn_counter>>
  BY <1>1 DEF Taken
<1>2. CASE UserTurn
  <2>1. /\ user_turns \in Seq(Nat) /\ Len(user_turns) \in Nat
        /\ turn_counter \in Nat
    BY LenProperties DEF TypeOK
  <2>2. /\ Len(user_turns') = Len(user_turns) + 1
        /\ turn_counter' = turn_counter + 1
    BY <1>2, <2>1, AppendProperties DEF UserTurn
  <2> QED BY <2>1, <2>2 DEF Taken
<1>3. CASE UNCHANGED vars
  BY <1>1, <1>3 DEF vars, signalVars
<1>4. CASE Signal /\ ~UserTurn
  BY <1>1, <1>4 DEF Signal, Resolve, Shutdown, Compact, OverrideTurnContext,
                    Interrupt
<1>5. CASE \E reason, log, tokens : EndTurn(reason, log, tokens)
  BY <1>1, <1>5 DEF EndTurn
<1>6. CASE Initialize \/ Park \/ HandleCompact \/ LeaveLoop \/ CallModel
           \/ AbortTurn \/ ReachMaxIterations
  BY <1>1, <1>5, <1>6
     DEF Initialize, Park, HandleCompact, LeaveLoop, CallModel, AbortTurn,
         ReachMaxIterations, signalVars
<1>7. CASE Unwind \/ ToolFinishes \/ Released \/ ModelReturns
  BY <1>1, <1>5, <1>7
     DEF Unwind, ModelAborted, WaitInterrupted, ToolCancelled, ToolFinishes,
         ToolFails, ToolReturns, ToolElicits, HandlerFails, Released, ApprovalGranted,
         ApprovalDenied, AnswerReceived, ElicitationResolved, ModelReturns,
         ModelFails, ModelAnswers, CallTool, CallMcp, CallAsks, CallRuns,
         CallRefused, CallMalformed, Respond, FollowUp, BeginTool, RequestAndWait, Await,
         HandlerFrame
<1> QED BY <1>2, <1>3, <1>4, <1>6, <1>7 DEF Next, Loop, Closure

\* The end of a turn ends no call.
LEMMA FinishEndsNoCall ==
  ASSUME TypeOK, NEW reason, NEW log, NEW tokens, Finishes(reason, log, tokens)
  PROVE  EndedCalls(events') = EndedCalls(events)
<1> DEFINE e(msg) == Event(msg, turn, NONE)
           bye == Event("ShutdownComplete", NONE, NONE)
           Same(l) == l \in Seq(Events) /\ EndedCalls(l) = EndedCalls(events)
<1>1. turn # NONE /\ Same(events)
  BY DEF Finishes, TypeOK
<1>2. ASSUME NEW l, Same(l),
             NEW msg \in {"AgentMessage", "Error", "TurnAborted", "TurnComplete"}
      PROVE  Same(Append(l, e(msg)))
  <2>1. e(msg) \in Events /\ e(msg).msg = msg
    BY <1>1, EndMessages
  <2> HIDE DEF e
  <2> QED BY <1>2, <2>1, EndedAppend, AppendProperties
<1>3. ASSUME NEW l, Same(l) PROVE Same(Append(l, bye))
  <2>1. bye \in Events /\ bye.msg # "End"
    BY EventTyped DEF SystemMsgs, Event
  <2> HIDE DEF bye
  <2> QED BY <1>3, <2>1, EndedAppend, AppendProperties
<1> HIDE DEF Same
<1>4. Same(log)
  BY <1>1, <1>2 DEF Finishes
<1>5. Same(EndEvents(log, reason))
  <2>1. /\ Same(Append(log, e("TurnAborted")))
        /\ Same(Append(log, e("TurnComplete")))
        /\ Same(Append(Append(log, e("Error")), e("TurnComplete")))
    <3> HIDE DEF e
    <3> QED BY <1>2, <1>4
  <2> QED BY <2>1 DEF EndEvents, e
<1>6. \/ events' = EndEvents(log, reason)
      \/ events' = Append(EndEvents(log, reason), bye)
  BY DEF Finishes, EndTurn, ContinueAsNew, Exit, Proceed
<1>7. Same(events')
  <2> HIDE DEF bye
  <2> QED BY <1>3, <1>5, <1>6
<1> QED BY <1>7 DEF Same

\* What a step may do to the rollout if it starts no turn: nothing, while no
\* call ends; or record one response, while at most the call it is for ends.
RolloutStep ==
  \/ history' = history /\ EndedCalls(events') = EndedCalls(events)
  \/ \E outcome \in {"refused", "denied", "output"}, id \in Nat :
       /\ history' = Append(history, <<outcome, id>>)
       /\ \/ EndedCalls(events') = EndedCalls(events)
          \/ /\ outcome = "output"
             /\ EndedCalls(events') \subseteq EndedCalls(events) \cup {id}

\* Steps of the handler.
LEMMA HandlerRollout ==
  ASSUME TypeOK,
         \/ WaitInterrupted \/ ToolCancelled \/ Released
         \/ ToolReturns \/ ToolElicits \/ ToolFails
         \/ \E r \in Requests : \/ CallMcp(r[1], r[2]) \/ CallAsks(r[1], r[2])
                                \/ CallRuns(r[1], r[2]) \/ CallRefused(r[1], r[2])
                                \/ CallMalformed(r[1], r[2])
  PROVE  RolloutStep
<1>0. events \in Seq(Events)
  BY DEF TypeOK
<1>1. ASSUME NEW c \in Calls, BeginTool(c) \/ RequestAndWait(c), turn # NONE
      PROVE  RolloutStep
  <2>1. /\ history' = history
        /\ \E msg \in {"Begin", "Request"} :
             events' = Append(events, Event(msg, turn, c.id))
    BY <1>1 DEF BeginTool, RequestAndWait, Await
  <2>2. \A msg \in {"Begin", "Request"} :
          /\ Event(msg, turn, c.id) \in Events
          /\ Event(msg, turn, c.id).msg # "End"
    BY <1>1, EventTyped DEF Event, CallMsgs, Calls, TypeOK
  <2> QED BY <1>0, <2>1, <2>2, EndedAppend DEF RolloutStep
<1>2. ASSUME NEW c \in Calls, NEW outcome \in {"refused", "denied", "output"},
             Respond(c, outcome), events' = events
      PROVE  RolloutStep
  BY <1>2 DEF Respond, FollowUp, RolloutStep, Calls
<1>3. CASE WaitInterrupted \/ ToolCancelled \/ ApprovalDenied
           \/ AnswerReceived \/ ElicitationResolved
  BY <1>2, <1>3, CurrentCallTyped
     DEF WaitInterrupted, ToolCancelled, ApprovalDenied, AnswerReceived,
         ElicitationResolved, Resolved
<1>7. CASE ToolFails
  BY <1>7 DEF ToolFails, HandlerFails, RolloutStep
<1>4. CASE ApprovalGranted \/ ToolElicits
  BY <1>1, <1>4, CurrentCallTyped, ConstantsAssumption
     DEF ApprovalGranted, ToolElicits, Resolved
<1>5. CASE ToolReturns
  <2>1. call \in Calls /\ call.id \in Nat /\ turn \in Nat
    BY <1>5, CurrentCallTyped DEF ToolReturns
  <2>2. history' = Append(history, <<"output", call.id>>)
    BY <1>5 DEF ToolReturns, Respond, FollowUp
  <2> DEFINE e == Event("End", turn, call.id)
  <2>3. e \in Events /\ e.call = call.id
    BY <2>1, EventTyped DEF Event, CallMsgs
  <2>4. events' = events \/ events' = Append(events, e)
    BY <1>5 DEF ToolReturns
  <2> HIDE DEF e
  <2>5. EndedCalls(events') \subseteq EndedCalls(events) \cup {call.id}
    BY <1>0, <2>3, <2>4, EndedAppend
  <2> QED BY <2>1, <2>2, <2>5 DEF RolloutStep
<1>6. ASSUME NEW r \in Requests,
             \/ CallMcp(r[1], r[2]) \/ CallAsks(r[1], r[2])
             \/ CallRuns(r[1], r[2]) \/ CallRefused(r[1], r[2])
             \/ CallMalformed(r[1], r[2])
      PROVE  RolloutStep
  <2> DEFINE c == SampledCall(r[1], r[2])
  <2>1. c \in Calls /\ turn # NONE
    BY <1>6, SampledCallTyped
       DEF TypeOK, CallMcp, CallRefused, CallAsks, CallRuns, CallMalformed,
           Sampled
  <2>2. CASE CallMcp(r[1], r[2]) \/ CallMalformed(r[1], r[2])
    BY <2>2 DEF CallMcp, CallMalformed, HandlerFails, Await, RolloutStep
  <2>3. CASE CallRefused(r[1], r[2])
    BY <1>2, <2>1, <2>3 DEF CallRefused
  <2>4. CASE CallAsks(r[1], r[2]) \/ CallRuns(r[1], r[2])
    BY <1>1, <2>1, <2>4 DEF CallAsks, CallRuns
  <2> QED BY <1>6, <2>2, <2>3, <2>4
<1> QED BY <1>3, <1>4, <1>5, <1>6, <1>7 DEF Released

\* Every step but the start of a turn.
LEMMA RolloutSteps ==
  ASSUME TypeOK, CancelInv, [Next]_vars, ~TakeTurn
  PROVE  RolloutStep
<1>1. ASSUME UNCHANGED <<events, history>>
      PROVE  RolloutStep
  BY <1>1 DEF RolloutStep
<1>2. CASE UNCHANGED vars
  BY <1>1, <1>2 DEF vars, runVars
<1>3. CASE Signal
  BY <1>1, <1>3 DEF Signal, UserTurn, Resolve, Shutdown, Compact,
                    OverrideTurnContext, Interrupt, Op, runVars
<1>4. CASE Initialize \/ Park \/ CallModel
  BY <1>1, <1>4 DEF Initialize, Park, CallModel
<1>5. CASE HandleCompact \/ LeaveLoop
  <2>1. PICK msg \in SystemMsgs : events' = Append(events, Event(msg, NONE, NONE))
    BY <1>5 DEF HandleCompact, LeaveLoop, ContinueAsNew, Exit, Proceed,
                SystemMsgs
  <2>2. /\ Event(msg, NONE, NONE) \in Events
        /\ Event(msg, NONE, NONE).msg # "End"
    BY EventTyped DEF Event, SystemMsgs
  <2>3. history' = history /\ events \in Seq(Events)
    BY <1>5 DEF HandleCompact, LeaveLoop, TypeOK
  <2> QED BY <2>1, <2>2, <2>3, EndedAppend DEF RolloutStep
<1>6. CASE \/ AbortTurn \/ ReachMaxIterations
           \/ ModelAborted \/ ModelFails \/ ModelAnswers
  <2>1. history' = history
    BY <1>6 DEF AbortTurn, ReachMaxIterations, ModelAborted, ModelFails,
                ModelAnswers
  <2>2. EndedCalls(events') = EndedCalls(events)
    BY <1>6, TurnEnds, FinishEndsNoCall
  <2> QED BY <2>1, <2>2 DEF RolloutStep
<1>7. CASE CallTool
  BY <1>7, HandlerRollout DEF CallTool
<1> QED BY <1>2, <1>3, <1>4, <1>5, <1>6, <1>7, HandlerRollout
        DEF Next, Loop, Unwind, ModelReturns, ToolFinishes, Closure

\* Every step keeps the rollout in agreement with the log.
LEMMA NextRollout ==
  ASSUME TypeOK, CancelInv, OrderInv, RolloutInv, [Next]_vars
  PROVE  RolloutInv'
<1>0. history \in Seq(Entries) /\ events \in Seq(Events) /\ Taken \in Nat
  BY DEF TypeOK, Entries, OrderInv
<1>1. CASE TakeTurn
  <2>1. /\ Head(user_turns) = Taken /\ Taken' = Taken + 1
        /\ history' = Append(history, <<"user", Taken>>)
        /\ events' = Append(events, Event("TurnStarted", Taken, NONE))
    BY <1>1, TakenIsNext DEF TakeTurn
  <2>2. /\ Event("TurnStarted", Taken, NONE) \in Events
        /\ Event("TurnStarted", Taken, NONE).msg # "End"
    BY <1>0, EventTyped DEF Event, TurnMsgs
  <2>3. EndedCalls(events') = EndedCalls(events)
    BY <1>0, <2>1, <2>2, EndedAppend
  <2>4. /\ UsersInOrder(history', Taken + 1)
        /\ Outputs(history) \subseteq Outputs(history')
    BY <1>0, <2>1, RolloutTurn DEF RolloutInv
  <2> QED BY <2>1, <2>3, <2>4 DEF RolloutInv
<1>2. CASE ~TakeTurn
  <2>1. Taken' = Taken /\ RolloutStep
    BY <1>2, TakenKept, RolloutSteps
  <2>2. CASE history' = history /\ EndedCalls(events') = EndedCalls(events)
    BY <2>1, <2>2 DEF RolloutInv
  <2>3. ASSUME NEW outcome \in {"refused", "denied", "output"}, NEW id \in Nat,
               history' = Append(history, <<outcome, id>>),
               \/ EndedCalls(events') = EndedCalls(events)
               \/ /\ outcome = "output"
                  /\ EndedCalls(events') \subseteq EndedCalls(events) \cup {id}
        PROVE  RolloutInv'
    <3> DEFINE x == <<outcome, id>>
    <3>1. x \in Entries /\ x[1] = outcome /\ x[1] # "user" /\ x[2] = id
      BY DEF Entries
    <3> HIDE DEF x
    <3>2. history' = Append(history, x)
      BY <2>3 DEF x
    <3>3. /\ UsersInOrder(history', Taken)
          /\ Outputs(history) \subseteq Outputs(history')
          /\ outcome = "output" => id \in Outputs(history')
      BY <1>0, <3>1, <3>2, RolloutResponse DEF RolloutInv
    <3> QED BY <2>1, <2>3, <3>3 DEF RolloutInv
  <2> QED BY <2>1, <2>2, <2>3 DEF RolloutStep
<1> QED BY <1>1, <1>2

\* What the client saw the model knows as well, after any number of
\* continue-as-new executions: each started turn's message, in order, and the
\* output of each tool that ended.
THEOREM RolloutAgreesWithEvents == Spec => []RolloutMatchesEvents
<1>1. Init => RolloutInv
  <2> SUFFICES ASSUME Init PROVE RolloutInv
    OBVIOUS
  <2>1. Taken = 0
    BY DEF Init, Taken
  <2> QED BY <2>1 DEF Init, RolloutInv, UsersInOrder, EndedCalls
<1>2. RolloutInv /\ TypeOK => RolloutMatchesEvents
  <2> SUFFICES ASSUME RolloutInv, TypeOK PROVE RolloutMatchesEvents
    OBVIOUS
  <2>1. ASSUME NEW i \in DOMAIN events, events[i].msg = "End"
        PROVE  \E j \in DOMAIN history : history[j] = <<"output", events[i].call>>
    <3>1. events[i].call \in Outputs(history)
      BY <2>1 DEF RolloutInv, EndedCalls
    <3>2. PICK j \in DOMAIN history : /\ history[j][1] = "output"
                                      /\ history[j][2] = events[i].call
      BY <3>1 DEF Outputs
    <3>3. history[j] \in Entries
      BY LenProperties, ElementOfSeq DEF TypeOK, Entries
    <3>4. history[j] = <<"output", events[i].call>>
      BY <3>2, <3>3 DEF Entries
    <3> QED BY <3>4
  <2> QED BY <2>1 DEF RolloutInv, UsersInOrder, RolloutMatchesEvents
<1> QED BY <1>1, <1>2, NextRollout, TypeCorrect, CancelInvHolds, OrderInvHolds,
           PTL DEF Spec

=============================================================================

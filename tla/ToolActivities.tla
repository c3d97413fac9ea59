---------------------------- MODULE ToolActivities ----------------------------
(***************************************************************************)
(* The activities an agent's calls run as: tool_exec, mcp_tool_call,       *)
(* discover_mcp_tools and model_call of src/src/activities.rs with the     *)
(* connections of src/src/mcp.rs, between the handlers that schedule them  *)
(* (tools.rs, streamer.rs, startup.rs) and one worker that runs them.      *)
(*                                                                         *)
(* The Temporal server gives up on an attempt that misses its heartbeats   *)
(* and hands the call out again; it drops a report of an attempt it has    *)
(* given up on or of a call that was cancelled.  Neither stops the         *)
(* execution itself, which goes on on the worker until it is over or the   *)
(* worker dies.  An execution is therefore known by its call and by the    *)
(* number of attempts that were given up on before it began.               *)
(***************************************************************************)
EXTENDS Integers, Sequences, ApprovalPolicy

CONSTANTS
  NONE,          \* Option::None
  Agents,        \* agents whose activities the worker runs
  Inheriting,    \* those that got mcp_tools from their session at the start
  Servers,       \* MCP servers enabled in the config
  Required,      \* those with required = true
  Requests,      \* <<kind, argument>> pairs the models ask for
  Policies,      \* approval policies the agents' handlers may hold
  ConfigPolicy,  \* approval_policy of config_toml
  RulesPrompt,   \* commands a .rules file on the worker wants approved
  RulesForbid,   \* commands a .rules file on the worker forbids
  MaxCalls,      \* bound: activities of all agents together
  MaxFaults      \* bound: attempts given up on although they live, tran-
                 \* sient failures of the model, and worker restarts

\* discover and model are the activities no tool call asks for; malformed is an
\* MCP call whose arguments are no JSON.
ExecKinds == {"shell", "exec_command", "file", "patch"}
McpKinds == {"mcp", "mcp_malformed"}
Kinds == ExecKinds \cup McpKinds \cup {"discover", "model"}
Answers == {"done", "failed", "notfound", "dropped"}

\* An execution is known by its call and by the attempt it carries out.
Keys == (1..MaxCalls) \X Nat

\* A discovery at work: the servers to connect, and those it has connected.
Connections == [todo : SUBSET Servers, found : SUBSET Servers]

ASSUME ConstantsAssumption ==
  /\ Inheriting \subseteq Agents
  /\ Servers # {}
  /\ Required \subseteq Servers
  /\ Requests \subseteq (ExecKinds \cup McpKinds \cup {"model"}) \X (STRING \cup Servers)
  /\ MaxCalls \in Nat
  /\ MaxFaults \in Nat
  /\ NONE \notin Answers
  /\ NONE \notin Keys
  /\ NONE \notin Connections

VARIABLES
  \* workflows and server
  calls,       \* every activity asked for, in order; see Call
  current,     \* the call an agent's workflow waits for
  known,       \* mcp_tool_names: servers whose tools an agent offers
  \* worker
  executions,  \* attempts that run; see Execution
  holder,      \* the execution that holds the mcp_manager mutex
  connecting,  \* initialize: servers still to connect, tools found so far
  clients,     \* HarnessMcpManager.clients
  captured,    \* captured_elicitation
  serving,     \* MCP calls the servers work on
  cwd_exists,
  \* environment
  faults,      \* number of faults so far
  restarted    \* one of them was a restart of the worker

vars == <<calls, current, known, executions, holder, connecting, clients,
          captured, serving, cwd_exists, faults, restarted>>
mcpVars == <<holder, connecting, clients, captured, serving>>
envVars == <<cwd_exists, faults, restarted>>

-----------------------------------------------------------------------------
(* Data                                                                    *)

\* status: asking for approval, queued at the server or started by the worker,
\* answered with an elicitation the user must decide on first, or closed.
\* decision is what the handler's gate said, granted what the user did.
Call(a, kind, arg, decision) ==
  [agent |-> a, kind |-> kind, arg |-> arg, decision |-> decision,
   status |-> CASE decision = "Prompt" -> "asking"
                [] decision = "Forbidden" -> "closed"
                [] OTHER -> "queued",
   granted |-> FALSE, attempt |-> 0, effects |-> 0,
   answer |-> IF decision = "Forbidden" THEN "dropped" ELSE NONE]

Key(x) == <<x.call, x.attempt>>
Owner(x) == calls[x.call]
Nothing == [code |-> NONE, elicitation |-> NONE, found |-> {}]
Result(code) == [Nothing EXCEPT !.code = code]

Idle(a) == current[a] = NONE
Open(i) == i \in DOMAIN calls /\ calls[i].status \in {"queued", "started"}

\* The attempt the server waits for.
IsCurrent(x) == Owner(x).status = "started" /\ Owner(x).attempt = x.attempt
Lives(i) == \E x \in executions : x.call = i /\ IsCurrent(x)

\* The gate of handle_tool_call; exec_command is classified like shell.
WorkflowDecision(kind, arg, p) ==
  IF kind = "exec_command" THEN ShellDecision(arg, p) ELSE Decision(kind, arg, p)

\* already_approved: a patch that reaches the activity counts as approved.
AlreadyApproved(c) == c.kind = "patch" \/ c.decision = "Prompt"

\* An agent of a session, or one that was continued as new, starts with the
\* tools that were discovered before, those of all required servers among them.
Init ==
  /\ calls = <<>>
  /\ current = [a \in Agents |-> NONE]
  /\ clients \in SUBSET Servers
  /\ Inheriting # {} => Required \subseteq clients
  /\ known \in [Agents -> {NONE, clients}]
  /\ \A a \in Agents : a \in Inheriting <=> known[a] # NONE
  /\ executions = {}
  /\ holder = NONE
  /\ connecting = NONE
  /\ captured = NONE
  /\ serving = {}
  /\ cwd_exists = TRUE
  /\ faults = 0
  /\ restarted = FALSE

-----------------------------------------------------------------------------
(* The workflows                                                           *)

Schedule(a, c) ==
  /\ Idle(a)
  /\ Len(calls) < MaxCalls
  /\ calls' = Append(calls, c)
  /\ current' = [current EXCEPT ![a] = IF c.status = "closed" THEN NONE
                                       ELSE Len(calls) + 1]
  /\ UNCHANGED <<known, executions, mcpVars, envVars>>

\* discover_mcp!
DiscoverMcp(a) ==
  /\ known[a] = NONE
  /\ Schedule(a, Call(a, "discover", NONE, "Allow"))

\* handle_tool_call up to its first await, under the policy p of its turn; a
\* name that is not in mcp_tool_names is not routed to MCP.
HandleToolCall(a, kind, arg, p) ==
  /\ known[a] # NONE
  /\ kind \in McpKinds => arg \in known[a]
  /\ Schedule(a, Call(a, kind, arg, WorkflowDecision(kind, arg, p)))

Close(i, answer) == [calls EXCEPT ![i].status = "closed", ![i].answer = answer]

\* The user's answer to an approval request.
Decide(a, approved) ==
  /\ ~Idle(a)
  /\ LET i == current[a] IN
     /\ calls[i].status = "asking"
     /\ calls' = IF approved
                 THEN [calls EXCEPT ![i].status = "queued", ![i].granted = TRUE]
                 ELSE Close(i, "dropped")
  /\ current' = IF approved THEN current ELSE [current EXCEPT ![a] = NONE]
  /\ UNCHANGED <<known, executions, mcpVars, envVars>>

\* An Interrupt: the handler answers at once, and cancel() only asks the
\* server, which the worker never hears of since it sends no heartbeat.
Interrupt(a) ==
  /\ ~Idle(a)
  /\ calls[current[a]].kind # "discover"
  /\ calls' = Close(current[a], "dropped")
  /\ current' = [current EXCEPT ![a] = NONE]
  /\ UNCHANGED <<known, executions, mcpVars, envVars>>

\* Any decision on an elicitation releases the output the call already has.
ResolveElicitation(a) ==
  /\ ~Idle(a)
  /\ calls[current[a]].status = "eliciting"
  /\ calls' = [calls EXCEPT ![current[a]].status = "closed"]
  /\ current' = [current EXCEPT ![a] = NONE]
  /\ UNCHANGED <<known, executions, mcpVars, envVars>>

\* Mutant: the agent still waits for the activity.
GiveUpDiscovery_StillAwaited(i) ==
  /\ Open(i)
  /\ calls[i].kind = "discover"
  /\ calls' = Close(i, "failed")
  /\ known' = [known EXCEPT ![calls[i].agent] = {}]
  /\ UNCHANGED <<current, executions, mcpVars, envVars>>

\* schedule_to_close of discover_mcp_tools: the agent goes on without tools.
GiveUpDiscovery(i) ==
  /\ Open(i)
  /\ calls[i].kind = "discover"
  /\ calls' = Close(i, "failed")
  /\ current' = [current EXCEPT ![calls[i].agent] = NONE]
  /\ known' = [known EXCEPT ![calls[i].agent] = {}]
  /\ UNCHANGED <<executions, mcpVars, envVars>>

-----------------------------------------------------------------------------
(* The server                                                              *)

Poll(i) ==
  /\ Open(i) /\ calls[i].status = "queued"
  /\ calls' = [calls EXCEPT ![i].status = "started"]
  /\ executions' = executions \cup
       {[call |-> i, attempt |-> calls[i].attempt, stage |-> "begin",
         result |-> Nothing]}
  /\ UNCHANGED <<current, known, mcpVars, envVars>>

\* The heartbeat or start-to-close timeout of an attempt: the worker died, or
\* the tool takes longer than the 30 seconds in which no heartbeat is sent.
\* discover_mcp_tools has no timeout but the one above.
LoseAttempt(i) ==
  /\ Open(i) /\ calls[i].status = "started"
  /\ calls[i].kind # "discover"
  /\ IF Lives(i) THEN faults < MaxFaults /\ faults' = faults + 1
     ELSE UNCHANGED faults
  /\ calls' = [calls EXCEPT ![i].status = "queued",
                            ![i].attempt = calls[i].attempt + 1]
  /\ UNCHANGED <<current, known, executions, mcpVars, cwd_exists, restarted>>

\* An execution is over; its report counts if the server still waits for it.
Report(x) ==
  /\ x.stage = "report"
  /\ executions' = executions \ {x}
  /\ IF ~IsCurrent(x) THEN UNCHANGED <<calls, current, known>>
     ELSE LET i == x.call  a == Owner(x).agent IN
       /\ calls' = [calls EXCEPT
            ![i].status = IF x.result.elicitation = NONE THEN "closed"
                          ELSE "eliciting",
            ![i].answer = x.result.code]
       /\ current' = IF x.result.elicitation = NONE
                     THEN [current EXCEPT ![a] = NONE] ELSE current
       /\ known' = IF Owner(x).kind = "discover"
                   THEN [known EXCEPT ![a] = x.result.found] ELSE known
  /\ UNCHANGED <<mcpVars, envVars>>

\* An attempt ends with a retryable error: the server hands the call out
\* again, for ever, unless it has given up on the attempt.
Retry(x) ==
  /\ executions' = executions \ {x}
  /\ calls' = IF IsCurrent(x) THEN [calls EXCEPT ![x.call].status = "queued"]
              ELSE calls
  /\ UNCHANGED <<current, known>>

Goes(x, stage, result) ==
  executions' = (executions \ {x})
                  \cup {[x EXCEPT !.stage = stage, !.result = result]}

-----------------------------------------------------------------------------
(* tool_exec                                                               *)

\* check_shell_exec_policy: the .rules files, then the classification of the
\* workflow under the config's own policy.
CheckShellExecPolicy(command) ==
  CASE command \in RulesForbid -> "Forbidden"
    [] command \in RulesPrompt \ RulesForbid ->
         IF ConfigPolicy = "never" THEN "Forbidden" ELSE "Prompt"
    [] OTHER -> ShellDecision(command, ConfigPolicy)

\* check_patch_safety: a patch that writes outside the workspace is the
\* user's business, and refused when the user is never to be asked.
CheckPatchSafety(patch) ==
  CASE ConfigPolicy = "untrusted" -> "Prompt"
    [] patch = "outside" /\ ConfigPolicy = "never" -> "Forbidden"
    [] patch = "outside" /\ ConfigPolicy # "never" -> "Prompt"
    [] OTHER -> "Allow"

\* Mutant: the gate never asks back.
ActivityGate_NeverAsks(c) ==
  IF ~AlreadyApproved(c) /\ c.kind = "shell" /\ c.arg \in RulesForbid
  THEN "Forbidden" ELSE "Allow"

\* The second gate of dispatch_tool; its list of shell tools lacks
\* exec_command.
ActivityGate(c) ==
  CASE AlreadyApproved(c) -> "Allow"
    [] ~AlreadyApproved(c) /\ c.kind = "shell" -> CheckShellExecPolicy(c.arg)
    [] ~AlreadyApproved(c) /\ c.kind = "patch" -> CheckPatchSafety(c.arg)
    [] OTHER -> "Allow"

\* dispatch_tool refuses with an error, which the server takes for a failure
\* to try again: no cwd, or APPROVAL_REQUIRED.
Withheld(c) == c.kind \in ExecKinds /\ (~cwd_exists \/ ActivityGate(c) = "Prompt")

DispatchWithheld(x) ==
  /\ x.stage = "begin"
  /\ Withheld(Owner(x))
  /\ Retry(x)
  /\ UNCHANGED <<mcpVars, envVars>>

\* The tool does what it was called for; a command may remove the directory.
TakesEffect(i) ==
  /\ calls' = [calls EXCEPT ![i].effects = @ + 1]
  /\ cwd_exists' \in {cwd_exists} \cup
       (IF calls[i].arg = "dangerous" THEN {FALSE} ELSE {})

Dispatches(x) ==
  /\ x.stage = "begin"
  /\ Owner(x).kind \in ExecKinds
  /\ ~Withheld(Owner(x))
  /\ ActivityGate(Owner(x)) = "Allow"

DispatchForbidden(x) ==
  /\ x.stage = "begin"
  /\ Owner(x).kind \in ExecKinds
  /\ ~Withheld(Owner(x))
  /\ ActivityGate(Owner(x)) = "Forbidden"
  /\ Goes(x, "report", Result("failed"))
  /\ UNCHANGED <<calls, current, known, mcpVars, envVars>>

\* Mutant: a tool that failed is an error of the activity, hence tried again.
DispatchTool_RetryFailure(x) ==
  /\ Dispatches(x)
  /\ \/ TakesEffect(x.call) /\ Goes(x, "report", Result("done"))
     \/ /\ executions' = executions \ {x}
        /\ calls' = [calls EXCEPT ![x.call].effects = @ + 1,
             ![x.call].status = IF IsCurrent(x) THEN "queued" ELSE @]
        /\ UNCHANGED cwd_exists
  /\ UNCHANGED <<current, known, mcpVars, faults, restarted>>

\* The router runs the tool, or fails to; either way the activity succeeds.
DispatchTool(x) ==
  /\ Dispatches(x)
  /\ \/ TakesEffect(x.call) /\ Goes(x, "report", Result("done"))
     \/ TakesEffect(x.call) /\ Goes(x, "report", Result("failed"))
     \/ Goes(x, "report", Result("failed")) /\ UNCHANGED <<calls, cwd_exists>>
  /\ UNCHANGED <<current, known, mcpVars, faults, restarted>>

-----------------------------------------------------------------------------
(* model_call                                                              *)

\* codex_err_to_activity_error: transient errors are the server's to retry,
\* others fail the activity.  It sends a heartbeat with every stream event.
ModelCall(x) ==
  /\ x.stage = "begin"
  /\ Owner(x).kind = "model"
  /\ \/ /\ \E code \in {"done", "failed"} : Goes(x, "report", Result(code))
        /\ UNCHANGED <<calls, current, known, faults>>
     \/ /\ faults < MaxFaults
        /\ faults' = faults + 1
        /\ Retry(x)
  /\ UNCHANGED <<mcpVars, cwd_exists, restarted>>

-----------------------------------------------------------------------------
(* mcp_tool_call                                                           *)

\* Arguments that are no JSON are answered before the manager is asked for.
McpBadArguments(x) ==
  /\ x.stage = "begin"
  /\ Owner(x).kind = "mcp_malformed"
  /\ Goes(x, "report", Result("failed"))
  /\ UNCHANGED <<calls, current, known, mcpVars, envVars>>

\* Mutant: what was captured before the call is not cleared.
McpLock_KeepsCaptured(x) ==
  /\ x.stage = "begin"
  /\ Owner(x).kind = "mcp"
  /\ holder = NONE
  /\ holder' = Key(x)
  /\ serving' = IF Owner(x).arg \in clients THEN serving \cup {Key(x)} ELSE serving
  /\ Goes(x, "locked", Nothing)
  /\ UNCHANGED <<calls, current, known, connecting, clients, captured, envVars>>

\* Mutant: the manager is shared by the calls.
McpLock_Shared(x) ==
  /\ x.stage = "begin"
  /\ Owner(x).kind = "mcp"
  /\ holder' = Key(x)
  /\ captured' = NONE
  /\ serving' = IF Owner(x).arg \in clients THEN serving \cup {Key(x)} ELSE serving
  /\ Goes(x, "locked", Nothing)
  /\ UNCHANGED <<calls, current, known, connecting, clients, envVars>>

\* The manager's mutex is held for the whole call; what was captured before
\* is cleared, and the request goes to the server, if it is connected.
McpLock(x) ==
  /\ x.stage = "begin"
  /\ Owner(x).kind = "mcp"
  /\ holder = NONE
  /\ holder' = Key(x)
  /\ captured' = NONE
  /\ serving' = IF Owner(x).arg \in clients THEN serving \cup {Key(x)} ELSE serving
  /\ Goes(x, "locked", Nothing)
  /\ UNCHANGED <<calls, current, known, connecting, clients, envVars>>

\* capturing_elicitation: the callback of a server runs whenever a request of
\* it comes in, for a call it works on (also one that was given up) or for none,
\* as while it is being connected, and overwrites what was captured.  The code
\* records neither origin, the call the request is about, nor during, the call
\* that holds the manager when it comes in.
Elicit(s) ==
  /\ s \in clients \/ (connecting # NONE /\ s \in connecting.todo)
  /\ \E origin \in {k \in serving : calls[k[1]].arg = s} \cup {NONE} :
       captured' = [origin |-> origin, during |-> holder]
  /\ UNCHANGED <<calls, current, known, executions, holder, connecting,
                 clients, serving, envVars>>

ServerDone(k) ==
  /\ k \in serving
  /\ serving' = serving \ {k}
  /\ TakesEffect(k[1])
  /\ UNCHANGED <<current, known, executions, holder, connecting, clients,
                 captured, faults, restarted>>


\* call_tool returns: the tool's result, the client's own timeout while the
\* server goes on, or no such server; then the captured elicitation is taken.
McpReturn(x) ==
  /\ x.stage = "locked" /\ holder = Key(x)
  /\ Owner(x).kind = "mcp"
  /\ \E code \in IF Owner(x).arg \notin clients THEN {"notfound"}
                 ELSE IF Key(x) \in serving THEN {"failed"}
                 ELSE {"done", "failed"} :
       Goes(x, "report", [Result(code) EXCEPT !.elicitation = captured])
  /\ captured' = NONE
  /\ holder' = NONE
  /\ UNCHANGED <<calls, current, known, connecting, clients, serving, envVars>>

-----------------------------------------------------------------------------
(* discover_mcp_tools                                                      *)

DiscoverLock(x) ==
  /\ x.stage = "begin"
  /\ Owner(x).kind = "discover"
  /\ holder = NONE
  /\ holder' = Key(x)
  /\ connecting' = [todo |-> Servers, found |-> {}]
  /\ Goes(x, "locked", Nothing)
  /\ UNCHANGED <<calls, current, known, clients, captured, serving, envVars>>

Discovers(x) == x.stage = "locked" /\ holder = Key(x) /\ Owner(x).kind = "discover"

\* Mutant: a server that cannot be connected again loses its old client.
ServerFails_Forgotten(x, s) ==
  /\ Discovers(x) /\ s \in connecting.todo
  /\ s \notin Required
  /\ connecting' = [connecting EXCEPT !.todo = @ \ {s}]
  /\ clients' = clients \ {s}
  /\ UNCHANGED <<calls, current, known, executions, holder, captured, serving,
                 envVars>>

\* initialize skips a server that fails; a client it had before stays.
ServerFails(x, s) ==
  /\ Discovers(x) /\ s \in connecting.todo
  /\ s \notin Required
  /\ connecting' = [connecting EXCEPT !.todo = @ \ {s}]
  /\ UNCHANGED <<calls, current, known, executions, holder, clients, captured,
                 serving, envVars>>

\* A required server fails the attempt, half-way through the map.
RequiredServerFails(x, s) ==
  /\ Discovers(x) /\ s \in connecting.todo
  /\ s \in Required
  /\ Retry(x)
  /\ holder' = NONE
  /\ connecting' = NONE
  /\ UNCHANGED <<clients, captured, serving, envVars>>

\* connect_server, then the client is inserted over an older one.
ConnectServer(x, s) ==
  /\ Discovers(x) /\ s \in connecting.todo
  /\ connecting' = [todo |-> connecting.todo \ {s},
                    found |-> connecting.found \cup {s}]
  /\ clients' = clients \cup {s}
  /\ UNCHANGED <<calls, current, known, executions, holder, captured, serving,
                 envVars>>

Discovered(x) ==
  /\ Discovers(x) /\ connecting.todo = {}
  /\ Goes(x, "report", [Result("done") EXCEPT !.found = connecting.found])
  /\ holder' = NONE
  /\ connecting' = NONE
  /\ UNCHANGED <<calls, current, known, clients, captured, serving, envVars>>

-----------------------------------------------------------------------------

\* The worker dies and is started again: its executions, its connections and
\* what they captured are gone.
Crash ==
  /\ faults < MaxFaults
  /\ faults' = faults + 1
  /\ restarted' = TRUE
  /\ executions' = {}
  /\ holder' = NONE
  /\ connecting' = NONE
  /\ clients' = {}
  /\ captured' = NONE
  /\ serving' = {}
  /\ UNCHANGED <<calls, current, known, cwd_exists>>

WorkflowNext ==
  \E a \in Agents :
    \/ DiscoverMcp(a)
    \/ \E r \in Requests, p \in Policies : HandleToolCall(a, r[1], r[2], p)
    \/ \E approved \in BOOLEAN : Decide(a, approved)
    \/ Interrupt(a)
    \/ ResolveElicitation(a)

ServerNext == \E i \in 1..MaxCalls : Poll(i) \/ LoseAttempt(i) \/ GiveUpDiscovery(i)

Work(x) ==
  \/ DispatchWithheld(x) \/ DispatchForbidden(x) \/ DispatchTool(x)
  \/ ModelCall(x)
  \/ McpBadArguments(x) \/ McpLock(x) \/ McpReturn(x)
  \/ DiscoverLock(x) \/ Discovered(x)
  \/ \E s \in Servers :
       ServerFails(x, s) \/ RequiredServerFails(x, s) \/ ConnectServer(x, s)
  \/ Report(x)

Next ==
  \/ WorkflowNext
  \/ ServerNext
  \/ \E x \in executions : Work(x)
  \/ \E s \in Servers : Elicit(s)
  \/ \E k \in serving : ServerDone(k)
  \/ Crash

\* The worker goes on with every execution of a call, and the server hands
\* out what is queued and notices a lost attempt.
Fairness ==
  \A i \in 1..MaxCalls :
    /\ WF_vars(Poll(i))
    /\ WF_vars(~Lives(i) /\ LoseAttempt(i))
    /\ WF_vars(GiveUpDiscovery(i))
    /\ WF_vars(\E x \in executions : x.call = i /\ Work(x))

Spec == Init /\ [][Next]_vars /\ Fairness

-----------------------------------------------------------------------------
(* Properties                                                              *)

Calls == [agent : Agents, kind : Kinds, arg : STRING \cup Servers \cup {NONE},
          decision : {"Allow", "Prompt", "Forbidden"},
          status : {"asking", "queued", "started", "eliciting", "closed"},
          granted : BOOLEAN, attempt : Nat, effects : Nat,
          answer : Answers \cup {NONE}]
Captures == [origin : Keys \cup {NONE}, during : Keys \cup {NONE}]
Executions ==
  [call : 1..MaxCalls, attempt : Nat, stage : {"begin", "locked", "report"},
   result : [code : Answers \cup {NONE}, elicitation : Captures \cup {NONE},
             found : SUBSET Servers]]

\* Every variable has its type; an agent waits for at most its own call, and
\* the manager's mutex is held exactly by the execution that is at it.
TypeOK ==
  /\ calls \in Seq(Calls) /\ Len(calls) <= MaxCalls
  /\ current \in [Agents -> (1..MaxCalls) \cup {NONE}]
  /\ \A a \in Agents : current[a] # NONE =>
       /\ current[a] \in DOMAIN calls
       /\ calls[current[a]].agent = a
       /\ calls[current[a]].status # "closed"
  /\ known \in [Agents -> (SUBSET Servers) \cup {NONE}]
  /\ executions \in SUBSET Executions
  /\ holder \in Keys \cup {NONE}
  /\ \A x \in executions :
       x.call \in DOMAIN calls /\ (x.stage = "locked" <=> holder = Key(x))
  /\ connecting \in Connections \cup {NONE}
  /\ clients \in SUBSET Servers
  /\ captured \in Captures \cup {NONE}
  /\ serving \in SUBSET Keys
  /\ cwd_exists \in BOOLEAN
  /\ faults \in Nat /\ restarted \in BOOLEAN

\* What may have an effect: what the user approved, what no gate looks at,
\* and what the gates of workflow and activity both let pass.
Cleared(c) ==
  \/ c.granted
  \/ c.kind \in {"file", "mcp"}
  \/ c.kind \in {"exec_command", "patch"} /\ c.decision = "Allow"
  \/ c.kind = "shell" /\ c.decision = "Allow" /\ CheckShellExecPolicy(c.arg) = "Allow"

\* A tool takes effect only when cleared, whatever was retried, cancelled or
\* lost; and a command the activity wants approved is never answered at all:
\* only an interrupt ends its call.
OnlyClearedRuns ==
  \A i \in DOMAIN calls : LET c == calls[i] IN
    /\ c.effects > 0 => Cleared(c)
    /\ c.kind = "shell" /\ c.decision = "Allow"
       /\ CheckShellExecPolicy(c.arg) = "Prompt" => c.answer \in {NONE, "dropped"}

\* A call is not carried out more often than the server gave up on it, plus
\* once; and a tool reported to have run did run.
EffectsMatchAttempts ==
  \A i \in DOMAIN calls : LET c == calls[i] IN
    /\ c.effects <= c.attempt + 1
    /\ c.kind \in ExecKinds \cup {"mcp"} /\ c.answer = "done" => c.effects > 0

\* activities.rs:393: "an elicitation was captured during this call".  What a
\* call surfaces came in while that very attempt held the manager, though servers
\* ask at any time; whose request it is the code cannot tell.
ElicitationsArriveDuringTheirCall ==
  \A x \in executions :
    x.result.elicitation # NONE => x.result.elicitation.during = Key(x)

\* mcp.rs:26: "Captured elicitation from the most recent tool call (if any)".
\* That a call surfaces what another call gave rise to cannot be excluded, but
\* only if call_tool is over for that other call: its server answers too late.
ForeignElicitationsAreLate ==
  \A x \in executions : x.result.elicitation # NONE =>
    LET origin == x.result.elicitation.origin IN
    \A y \in executions \ {x} : Key(y) = origin => y.stage = "report"

\* The tools an agent offers to its model belong to connected servers, as
\* long as the worker that discovered them lives.
DiscoveredToolsAreServed ==
  ~restarted => \A a \in Agents : known[a] # NONE => known[a] \subseteq clients


\* README.md:5: "tool calls ... survive process failures": a tool that was
\* discovered can be called.
DiscoveredToolsSurvive ==
  \A i \in DOMAIN calls : calls[i].answer # "notfound"

=============================================================================

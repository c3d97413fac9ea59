----------------------------- MODULE CodexHarness -----------------------------
(***************************************************************************)
(* The registry of sessions and the programs that use it: the CodexHarness *)
(* workflow (src/src/harness.rs) with its check_credentials activity, and  *)
(* the TUI and the CLI client (src/src/bin/) that start it, ask it for     *)
(* credentials, register their sessions with it and list those of others.  *)
(*                                                                         *)
(* Signals wait at the Temporal server for the workflow's next task, which *)
(* applies all of them before run goes on; the server refuses a task that  *)
(* completes while further signals wait, so continue-as-new leaves none    *)
(* behind.  A query waits for the signals that arrived before it.          *)
(***************************************************************************)
EXTENDS CrewConfig

CONSTANTS
  Launchers,       \* processes a user starts; also the ids of their sessions
  Modes,           \* what they are started as
  Config,          \* [model, approval_policy, web_search_mode] of config.toml
  Invocations,     \* [env, crew, given]: the same from environment variables,
                   \* and what follows start-crew: a name, and key -> value;
                   \* crew is NONE for the other modes
  MaxSignals,      \* bound: signals the harness gets
  MaxRuns,         \* bound: executions of the harness beyond the first
  MaxReplacements  \* bound: restarts of the worker with another environment

ASSUME HarnessAssumption ==
  /\ Modes \subseteq {"tui", "resume", "client", "crew", "list"}
  /\ NONE \notin Launchers \cup BOOLEAN
  /\ MaxSignals \in Nat
  /\ MaxRuns \in Nat
  /\ MaxReplacements \in Nat
  /\ \A choice \in Invocations :
       \A k \in DOMAIN choice.given : choice.given[k] \in Text

VARIABLES
  \* the workflow
  sessions,     \* CodexHarness.sessions
  credentials,  \* CodexHarness.credentials_available
  pc,           \* where run is; "absent" before the first start
  inbox,        \* signals that wait for a task
  run,          \* number of the execution
  \* the worker
  has_key,      \* its environment holds an API key
  replaced,     \* number of its restarts with another environment
  \* the launchers, and the SessionWorkflows they have started
  launcher,     \* see Launcher
  started,      \* launcher -> input its session was started with
  \* history
  taken,        \* every signal the server has taken
  checks        \* results of the check

registryVars == <<sessions, credentials, pc, inbox, run, checks>>
workerVars == <<has_key, replaced>>
vars == <<registryVars, workerVars, launcher, started, taken>>

-----------------------------------------------------------------------------
(* Data                                                                    *)

Entry(l) == [session_id |-> l, model |-> launcher[l].input.model,
             status |-> "Running"]

Registration(entry) == [kind |-> "register", session_id |-> entry.session_id,
                        entry |-> entry]
StatusUpdate(id, status) == [kind |-> "update", session_id |-> id,
                             status |-> status]
Removal(id) == [kind |-> "remove", session_id |-> id]

Tui == {"tui", "resume"}
Cli == {"client", "crew"}

\* How far a launcher is, what it has put together, and its handle on a
\* session: started is the handle's flag, not the state of the server.
Launcher(mode, key) ==
  [mode |-> mode, step |-> "begin", key |-> key, input |-> NONE,
   choice |-> NONE, token |-> FALSE, asked |-> NONE,
   session |-> NONE, started |-> FALSE]

Init ==
  /\ sessions = <<>> /\ credentials = NONE /\ pc = "absent"
  /\ inbox = <<>> /\ run = 0 /\ taken = <<>> /\ checks = <<>>
  /\ has_key \in BOOLEAN /\ replaced = 0
  /\ launcher \in [Launchers -> {Launcher(m, FALSE) : m \in Modes}
                                \cup {Launcher(m, TRUE) : m \in Modes \cap Tui}]
  /\ started = [l \in Launchers |-> NONE]

-----------------------------------------------------------------------------
(* The workflow                                                            *)

\* Mutant: a registration is always added.
RegisterSession_Appends(list, entry) == Append(list, entry)

RegisterSession(list, entry) ==
  IF \E i \in DOMAIN list : list[i].session_id = entry.session_id
  THEN [i \in DOMAIN list |->
          IF list[i].session_id = entry.session_id THEN entry ELSE list[i]]
  ELSE Append(list, entry)

UpdateSessionStatus(list, id, status) ==
  [i \in DOMAIN list |->
     IF list[i].session_id = id THEN [list[i] EXCEPT !.status = status]
     ELSE list[i]]

\* retain.
RemoveSession(list, id) ==
  LET kept[k \in 0..Len(list)] ==
        IF k = 0 THEN <<>>
        ELSE IF list[k].session_id # id THEN Append(kept[k - 1], list[k])
        ELSE kept[k - 1]
  IN kept[Len(list)]

Handle(list, signal) ==
  CASE signal.kind = "register" -> RegisterSession(list, signal.entry)
    [] signal.kind = "update" ->
         UpdateSessionStatus(list, signal.session_id, signal.status)
    [] signal.kind = "remove" -> RemoveSession(list, signal.session_id)

\* Signals are handled in the order of their arrival.
HandleAll(list, signals) ==
  LET after[k \in 0..Len(signals)] ==
        IF k = 0 THEN list ELSE Handle(after[k - 1], signals[k])
  IN after[Len(signals)]

\* Every task of the workflow begins with the signals that wait.
HandleSignals ==
  /\ sessions' = HandleAll(sessions, inbox)
  /\ inbox' = <<>>

\* The first task of an execution.
BeginRun ==
  /\ pc = "new"
  /\ HandleSignals
  /\ pc' = IF credentials = NONE THEN "checking" ELSE "waiting"
  /\ UNCHANGED <<credentials, run, checks, workerVars, launcher, started, taken>>

TakeSignals ==
  /\ pc \in {"checking", "waiting"}
  /\ inbox # <<>>
  /\ HandleSignals
  /\ UNCHANGED <<credentials, pc, run, checks, workerVars, launcher, started,
                 taken>>

\* check_credentials looks at the worker's environment; it counts as FALSE
\* when no worker runs it within 10 seconds.
CheckCredentials ==
  /\ pc = "checking"
  /\ \E result \in {has_key, FALSE} :
       /\ credentials' = result
       /\ checks' = Append(checks, result)
  /\ HandleSignals
  /\ pc' = "waiting"
  /\ UNCHANGED <<run, workerVars, launcher, started, taken>>

\* Mutant: the new execution starts without the signals that still wait.
ContinueAsNew_BeforeSignals ==
  /\ pc = "waiting"
  /\ run < MaxRuns
  /\ run' = run + 1
  /\ inbox' = <<>>
  /\ pc' = "new"
  /\ UNCHANGED <<sessions, credentials, checks, workerVars, launcher, started,
                 taken>>

ContinueAsNew ==
  /\ pc = "waiting"
  /\ run < MaxRuns
  /\ run' = run + 1
  /\ HandleSignals
  /\ pc' = "new"
  /\ UNCHANGED <<credentials, checks, workerVars, launcher, started, taken>>

ReplaceWorker ==
  /\ replaced < MaxReplacements
  /\ replaced' = replaced + 1
  /\ has_key' = ~has_key
  /\ UNCHANGED <<registryVars, launcher, started, taken>>

-----------------------------------------------------------------------------
(* Calls to the server                                                     *)

\* The server takes a signal for a workflow that runs.
Deliver(signal) ==
  /\ pc # "absent"
  /\ Len(taken) < MaxSignals
  /\ inbox' = Append(inbox, signal)
  /\ taken' = Append(taken, signal)

\* start_workflow with UseExisting.
StartHarness == pc' = IF pc = "absent" THEN "new" ELSE pc

\* Queries are answered by an execution that has had its first task.
Answerable == pc \in {"checking", "waiting"} /\ inbox = <<>>

\* Mutant: not known yet counts as available.
CredentialsAvailable_UnlessFalse ==
  IF credentials = FALSE THEN "no" ELSE "yes"

\* unwrap_or(false): not known yet counts as not available.
CredentialsAvailable == IF credentials = TRUE THEN "yes" ELSE "no"

\* The part of the history that tasks have handled.
Handled == 1..(Len(taken) - Len(inbox))

\* The sessions a listing has ever shown.
EverListed == {taken[k].session_id : k \in {j \in Handled :
                                             taken[j].kind = "register"}}

-----------------------------------------------------------------------------
(* The launchers                                                           *)

At(l, mode, step) == launcher[l].mode \in mode /\ launcher[l].step = step

\* The fields of record change.
Becomes(l, record) ==
  launcher' = [launcher EXCEPT ![l] =
    [field \in DOMAIN @ |->
       IF field \in DOMAIN record THEN record[field] ELSE @[field]]]

\* Load config.toml, apply the environment and, for start-crew, the crew: NONE
\* if that does not exist or lacks an input.
InputOf(choice) ==
  LET base == ApplyEnv(BaseInput(Config.model, Config.approval_policy,
                                 Config.web_search_mode), choice.env)
      crew == LoadCrew(choice.crew)
  IN CASE choice.crew = NONE -> base
       [] choice.crew # NONE /\ crew = NONE -> NONE
       [] OTHER -> ApplyCrew(crew, choice.given, base)

\* Without an input the program ends.
Configure(l) ==
  /\ At(l, Modes \ {"list"}, "begin")
  /\ \E choice \in Invocations :
       /\ launcher[l].mode = "crew" <=> choice.crew # NONE
       /\ LET input == InputOf(choice)
          IN Becomes(l, [step |-> IF input = NONE THEN "exited" ELSE "configured",
                         input |-> input, choice |-> choice])
  /\ UNCHANGED <<registryVars, workerVars, started, taken>>

\* Mutant: the client registers its session before it starts it.
CliStarts_Later(l) ==
  /\ At(l, Cli, "configured")
  /\ \E ok \in BOOLEAN :
       Becomes(l, [step |-> IF ok THEN "started" ELSE "exited"])
  /\ UNCHANGED <<registryVars, workerVars, started, taken>>

\* The CLI client starts its session.  A start that is reported as failed,
\* although it may have reached the server, ends the program.
CliStarts(l) ==
  /\ At(l, Cli, "configured")
  /\ \E reached, ok \in BOOLEAN :
       /\ ok => reached
       /\ started' = IF reached THEN [started EXCEPT ![l] = launcher[l].input]
                     ELSE started
       /\ Becomes(l, [step |-> IF ok THEN "started" ELSE "exited"])
  /\ UNCHANGED <<registryVars, workerVars, taken>>

\* ensure_harness.  If it fails, the client leaves its session unregistered,
\* and the TUI and list end with the error; list prints the registry after it.
EnsureHarness(l) ==
  /\ \/ At(l, Tui, "configured")
     \/ At(l, Cli, "started")
     \/ At(l, {"list"}, "begin")
  /\ \E reached, ok \in BOOLEAN :
       /\ ok => reached
       /\ IF reached THEN StartHarness ELSE pc' = pc
       /\ Becomes(l, [step |-> CASE ~ok -> "exited"
                                [] launcher[l].mode = "list" -> "done"
                                [] OTHER -> "ensured"])
  /\ UNCHANGED <<sessions, credentials, inbox, run, checks, workerVars, started,
                 taken>>

\* unwrap_or(true): without an answer the worker is taken to have a key.
NeedsToken(answer) == answer = "no"

\* The TUI asks for the worker's credentials and puts its own key, if it has
\* one, into the input if they are needed.
QueryCredentials(l) ==
  /\ At(l, Tui, "ensured")
  /\ \E answer \in {"failed"} \cup
                   (IF Answerable THEN {CredentialsAvailable} ELSE {}) :
       Becomes(l, [step |-> "queried", asked |-> answer,
                   token |-> NeedsToken(answer) /\ launcher[l].key])
  /\ UNCHANGED <<registryVars, workerVars, started, taken>>

Registering(l) == At(l, {"tui"}, "queried") \/ At(l, Cli, "ensured")

Registered(l) ==
  IF launcher[l].mode = "tui" THEN Becomes(l, [step |-> "open", session |-> l])
  ELSE Becomes(l, [step |-> "done"])

\* register_with_harness; its reply may be lost, which changes nothing.
RegisterWithHarness(l) ==
  /\ Registering(l)
  /\ Deliver(Registration(Entry(l)))
  /\ Registered(l)
  /\ UNCHANGED <<sessions, credentials, pc, run, checks, workerVars, started>>

RegistrationFails(l) ==
  /\ Registering(l)
  /\ Registered(l)
  /\ UNCHANGED <<registryVars, workerVars, started, taken>>

\* --resume: the events of the session seed the screen; without them the
\* program ends.
Resume(l) ==
  /\ At(l, {"resume"}, "queried")
  /\ \E id \in Launchers \ {l} :
       Becomes(l, [step |-> IF started[id] # NONE THEN "open" ELSE "exited",
                   session |-> id, started |-> TRUE])
  /\ UNCHANGED <<registryVars, workerVars, started, taken>>

\* A submitted turn starts the handle's session, or signals it if the handle
\* takes it to be started (ClientSession has the calls that fail).
Submit(l) ==
  /\ launcher[l].step = "open"
  /\ ~launcher[l].started
  /\ started' = [started EXCEPT ![launcher[l].session] = launcher[l].input]
  /\ Becomes(l, [started |-> TRUE])
  /\ UNCHANGED <<registryVars, workerVars, taken>>

\* The TUI shows the listing, the user picks from it some time later, and
\* switch_to moves the handle before it fetches the events of the session:
\* the handle stays there if that fails.
SwitchTo(l) ==
  /\ launcher[l].step = "open"
  /\ \E id \in EverListed \ {launcher[l].session} :
       Becomes(l, [session |-> id, started |-> TRUE])
  /\ UNCHANGED <<registryVars, workerVars, started, taken>>

\* The signals of the registry that no program of the repository sends: any
\* client of the server may, and may register a session once more.
AnySignal ==
  /\ \E i \in DOMAIN taken : LET l == taken[i].session_id IN
       \/ Deliver(Registration(Entry(l)))
       \/ Deliver(Removal(l))
       \/ Deliver(StatusUpdate(l, "Completed"))
  /\ UNCHANGED <<sessions, credentials, pc, run, checks, workerVars, launcher,
                 started>>

-----------------------------------------------------------------------------
(* The specification                                                       *)

Workflow == BeginRun \/ TakeSignals \/ CheckCredentials \/ ContinueAsNew

Launch(l) ==
  \/ Configure(l) \/ CliStarts(l) \/ EnsureHarness(l) \/ QueryCredentials(l)
  \/ RegisterWithHarness(l) \/ RegistrationFails(l) \/ Resume(l)
  \/ Submit(l) \/ SwitchTo(l)

Next == Workflow \/ ReplaceWorker \/ AnySignal \/ \E l \in Launchers : Launch(l)

\* No fairness: a launcher may be killed, and the worker be down, at any step.
Spec == Init /\ [][Next]_vars

-----------------------------------------------------------------------------
(* Properties                                                              *)

\* Every variable has its type, and the registry holds one entry per session.
TypeOK ==
  /\ \A i, j \in DOMAIN sessions :
       /\ sessions[i].session_id \in Launchers
       /\ sessions[i].status \in {"Running", "Completed", "Failed"}
       /\ sessions[i].session_id = sessions[j].session_id => i = j
  /\ credentials \in {NONE, TRUE, FALSE}
  /\ pc \in {"absent", "new", "checking", "waiting"}
  /\ pc = "checking" => credentials = NONE
  /\ pc = "waiting" => credentials # NONE
  /\ pc = "absent" => inbox = <<>> /\ sessions = <<>>
  /\ run \in 0..MaxRuns
  /\ has_key \in BOOLEAN
  /\ \A l \in Launchers :
       launcher[l].step \in {"begin", "configured", "started", "ensured",
                             "queried", "open", "done", "exited"}

Kind(k) == taken[k].kind
Same(j, k) == taken[j].session_id = taken[k].session_id

\* The k-th signal of the history puts an entry into the list that is still
\* there: a registration with none before it that it would replace.
Enters(k) ==
  /\ Kind(k) = "register"
  /\ \A m \in Handled : m > k /\ Same(m, k) => Kind(m) # "remove"
  /\ \A j \in 1..(k - 1) : Same(j, k) /\ Kind(j) = "register" =>
       \E m \in j..k : Same(m, k) /\ Kind(m) = "remove"

LastOf(ks) == CHOOSE k \in ks : \A j \in ks : j <= k

\* The entry that k put there, as later registrations and updates leave it.
Current(k) ==
  LET register == LastOf({m \in Handled : Same(m, k) /\ Kind(m) = "register"})
      updates == {m \in Handled : m > register /\ Same(m, k)
                                  /\ Kind(m) = "update"}
  IN IF updates = {} THEN taken[register].entry
     ELSE [taken[register].entry EXCEPT !.status = taken[LastOf(updates)].status]

\* The registry is a function of all the signals it ever got, whatever was
\* applied in which task and execution: a session that was registered and not
\* removed since is listed, in the order of first registration, as its last
\* registration and update describe it.
RegistryIsHistory ==
  \E entered \in [DOMAIN sessions -> Handled] :
    /\ \A i, j \in DOMAIN sessions : i < j => entered[i] < entered[j]
    /\ {entered[i] : i \in DOMAIN sessions} = {k \in Handled : Enters(k)}
    /\ \A i \in DOMAIN sessions : sessions[i] = Current(entered[i])

\* A listed session was started with the model that is listed; one that was
\* never started is a TUI's, which registers before the first turn.  Only such
\* a session can a handle take to be started although it is not.
ListedAsStarted ==
  /\ \A i \in DOMAIN sessions : LET l == sessions[i].session_id IN
       IF started[l] = NONE THEN launcher[l].mode = "tui"
       ELSE sessions[i].model = started[l].model
  /\ \A l \in Launchers : LET id == launcher[l].session IN
       launcher[l].step = "open" /\ launcher[l].started /\ started[id] = NONE
       => launcher[id].mode = "tui"

\* The check is made once for all executions, and a session goes without its
\* user's key only if the query failed or that check has found a key.  A check
\* that is under way or timed out never keeps a key back.
TokenFollowsCheck ==
  /\ Len(checks) <= 1
  /\ \A l \in Launchers :
       launcher[l].asked # NONE /\ launcher[l].key /\ ~launcher[l].token
       => launcher[l].asked = "failed" \/ checks = <<TRUE>>

\* A session that is started from a crew has every required input; the crew's
\* policy and models win over environment and config; its placeholders are
\* replaced, as if at once unless a value holds a placeholder itself; and all
\* its members, next to those of the default crew, can be spawned.
CrewIsApplied ==
  \A l \in Launchers : started[l] # NONE /\ launcher[l].mode = "crew" =>
    LET input == started[l]
        choice == launcher[l].choice
        crew == LoadCrew(choice.crew)
        values == Values(crew, choice.given)
        Is(text, template) ==
          template # NONE /\ Independent(values)
          => text = Simultaneous(template, values)
    IN /\ Missing(crew, choice.given) = {}
       /\ input.approval_policy =
            IF crew.approval_policy # NONE THEN crew.approval_policy
            ELSE IF choice.env.approval_policy \in {"never", "untrusted", "on-failure"}
            THEN choice.env.approval_policy ELSE Config.approval_policy
       /\ crew.mode = "autonomous" => Is(input.user_message, crew.initial_prompt)
       /\ \A a \in DOMAIN crew.agents :
            IF a = crew.main_agent
            THEN /\ crew.agents[a].model \in {NONE, input.model}
                 /\ Is(input.instructions, crew.agents[a].instructions)
            ELSE /\ input.crew_agents[a].model = crew.agents[a].model
                 /\ Is(input.crew_agents[a].instructions,
                       crew.agents[a].instructions)
       /\ Members(DefaultCrew) \subseteq DOMAIN input.crew_agents
=============================================================================

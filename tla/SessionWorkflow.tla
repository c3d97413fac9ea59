-------------------------- MODULE SessionWorkflow --------------------------
(***************************************************************************)
(* The SessionWorkflow of src/src/session_workflow.rs: the parent that     *)
(* starts the agents of a session, one at a time, and keeps their list.    *)
(* As in AgentWorkflow, pc is the place of the run coroutine and signals   *)
(* are applied only at its awaits.  A spawn request is the pair of its     *)
(* number, in the order of arrival, and the role it asks for.              *)
(*                                                                         *)
(* The children themselves are known here only as the set of agent         *)
(* workflows that are running on the server.                               *)
(***************************************************************************)
EXTENDS Integers, Sequences, FiniteSets

CONSTANTS
  NONE,
  Roles,       \* roles a spawn request may name
  Direct,      \* roles that need no resolve_role_config activity
  MaxAgents,   \* agent_max_threads of the config, or DEFAULT_MAX_AGENTS
  MaxSpawns,   \* bound: spawn requests over the session's life
  MaxRuns      \* bound: continue-as-new executions

MainRole == "default"

Requests == (Nat \ {0}) \X Roles
Spawns == [request : Nat \ {0}, role : Roles, number : Nat]

ASSUME SessionAssumption ==
  /\ MaxAgents \in Nat \ {0}
  /\ MaxSpawns \in Nat
  /\ MaxRuns \in Nat
  /\ MainRole \in Direct
  /\ NONE \notin Spawns

VARIABLES
  agents,              \* the AgentRecords, oldest first
  spawn_queue,
  agent_counter,
  shutdown_requested,
  pc,
  batch,               \* requests taken off the queue and not yet looked at
  spawning,            \* the request at work, with the number it was given
  run,                 \* continue-as-new steps so far
  live,                \* ids of the agent workflows that run on the server
  \* history variables
  accepted,            \* spawn requests received so far
  before,              \* those received before this execution
  rejected             \* numbers of the requests ignored or skipped

signalVars == <<spawn_queue, shutdown_requested, accepted>>
runVars == <<agents, agent_counter, pc, batch, spawning, run, before, rejected>>
vars == <<signalVars, runVars, live>>

Main == <<"main", 0>>
AgentId(role, number) == <<role, number>>

\* request and execution are history: which request the record answers (0 for
\* the main agent), and the execution that made it.
Record(id, role, request) ==
  [agent_id |-> id, role |-> role, status |-> "Running",
   request |-> request, execution |-> run]

Parked == pc \in {"Load", "StartMain", "Idle", "Resolve", "Start"}
Closed == pc \in {"Done", "Failed"}
Listed == {agents[i].agent_id : i \in DOMAIN agents}

\* new, without continued state
Init ==
  /\ agents = <<>>
  /\ spawn_queue = <<>>
  /\ agent_counter = 0
  /\ shutdown_requested = FALSE
  /\ pc = "Load"
  /\ batch = <<>>
  /\ spawning = NONE
  /\ run = 0
  /\ live = {}
  /\ accepted = 0
  /\ before = 0
  /\ rejected = {}

-----------------------------------------------------------------------------
(* Signals                                                                 *)

SpawnAgent(role) ==
  /\ Parked
  /\ accepted < MaxSpawns
  /\ accepted' = accepted + 1
  /\ spawn_queue' = Append(spawn_queue, <<accepted + 1, role>>)
  /\ UNCHANGED <<shutdown_requested, runVars, live>>

Shutdown ==
  /\ Parked
  /\ shutdown_requested' = TRUE
  /\ UNCHANGED <<spawn_queue, accepted, runVars, live>>

-----------------------------------------------------------------------------
(* run, phases 1 and 2                                                     *)

\* load_startup_context: the config or the project context may fail to load.
Load ==
  /\ pc = "Load"
  /\ pc' \in {"StartMain", "Failed"}
  /\ UNCHANGED <<signalVars, agents, agent_counter, batch, spawning, run,
                 before, rejected, live>>

\* The server starts a child unless one of its id is running.
StartMain ==
  /\ pc = "StartMain"
  /\ Main \notin live
  /\ live' = live \cup {Main}
  /\ agents' = Append(agents, Record(Main, MainRole, 0))
  /\ agent_counter' = 1
  /\ pc' = "Loop"
  /\ UNCHANGED <<signalVars, batch, spawning, run, before, rejected>>

StartMainFails ==
  /\ pc = "StartMain"
  /\ Main \in live
  /\ pc' = "Failed"
  /\ UNCHANGED <<signalVars, agents, agent_counter, batch, spawning, run,
                 before, rejected, live>>

-----------------------------------------------------------------------------
(* run, phase 3: the control loop                                          *)

AtLoopTop == pc \in {"Loop", "Idle"}

Park ==
  /\ pc = "Loop"
  /\ spawn_queue = <<>> /\ ~shutdown_requested
  /\ pc' = "Idle"
  /\ UNCHANGED <<signalVars, agents, agent_counter, batch, spawning, run,
                 before, rejected, live>>

\* The session returns; requests still in the queue are left there.
LeaveLoop ==
  /\ AtLoopTop
  /\ shutdown_requested
  /\ pc' = "Done"
  /\ UNCHANGED <<signalVars, agents, agent_counter, batch, spawning, run,
                 before, rejected, live>>

\* Mutant: a request does not wake the parked loop.
TakeBatch_NotWoken ==
  /\ pc = "Loop"
  /\ ~shutdown_requested
  /\ spawn_queue # <<>>
  /\ batch' = spawn_queue
  /\ spawn_queue' = <<>>
  /\ pc' = "Next"
  /\ UNCHANGED <<agents, agent_counter, shutdown_requested, spawning, run,
                 accepted, before, rejected, live>>

TakeBatch ==
  /\ AtLoopTop
  /\ ~shutdown_requested
  /\ spawn_queue # <<>>
  /\ batch' = spawn_queue
  /\ spawn_queue' = <<>>
  /\ pc' = "Next"
  /\ UNCHANGED <<agents, agent_counter, shutdown_requested, spawning, run,
                 accepted, before, rejected, live>>

Full == Len(agents) >= MaxAgents

Ignore ==
  /\ pc = "Next" /\ batch # <<>>
  /\ Full
  /\ rejected' = rejected \cup {Head(batch)[1]}
  /\ batch' = Tail(batch)
  /\ UNCHANGED <<signalVars, agents, agent_counter, pc, spawning, run, before,
                 live>>

\* Mutant: the counter is not increased.
Spawn_NotCounted ==
  /\ pc = "Next" /\ batch # <<>>
  /\ ~Full
  /\ LET role == Head(batch)[2] IN
     /\ spawning' = [request |-> Head(batch)[1], role |-> role,
                     number |-> agent_counter]
     /\ pc' = IF role \in Direct THEN "Start" ELSE "Resolve"
  /\ batch' = Tail(batch)
  /\ UNCHANGED <<signalVars, agents, agent_counter, run, before, rejected, live>>

\* Mutant: the number is taken before the counter is increased.
Spawn_NumberedBefore ==
  /\ pc = "Next" /\ batch # <<>>
  /\ ~Full
  /\ agent_counter' = agent_counter + 1
  /\ LET role == Head(batch)[2] IN
     /\ spawning' = [request |-> Head(batch)[1], role |-> role,
                     number |-> agent_counter]
     /\ pc' = IF role \in Direct THEN "Start" ELSE "Resolve"
  /\ batch' = Tail(batch)
  /\ UNCHANGED <<signalVars, agents, run, before, rejected, live>>

Spawn ==
  /\ pc = "Next" /\ batch # <<>>
  /\ ~Full
  /\ agent_counter' = agent_counter + 1
  /\ LET role == Head(batch)[2] IN
     /\ spawning' = [request |-> Head(batch)[1], role |-> role,
                     number |-> agent_counter + 1]
     /\ pc' = IF role \in Direct THEN "Start" ELSE "Resolve"
  /\ batch' = Tail(batch)
  /\ UNCHANGED <<signalVars, agents, run, before, rejected, live>>

ResolveRole ==
  /\ pc = "Resolve"
  /\ pc' = "Start"
  /\ UNCHANGED <<signalVars, agents, agent_counter, batch, spawning, run,
                 before, rejected, live>>

\* The request is given up, and the loop goes on with the next.
Skip ==
  /\ pc' = "Next"
  /\ rejected' = rejected \cup {spawning.request}
  /\ spawning' = NONE
  /\ UNCHANGED <<signalVars, agents, agent_counter, batch, run, before, live>>

ResolveRoleFails == pc = "Resolve" /\ Skip

NewId == AgentId(spawning.role, spawning.number)

StartChild ==
  /\ pc = "Start"
  /\ NewId \notin live
  /\ live' = live \cup {NewId}
  /\ agents' = Append(agents, Record(NewId, spawning.role, spawning.request))
  /\ spawning' = NONE
  /\ pc' = "Next"
  /\ UNCHANGED <<signalVars, agent_counter, batch, run, before, rejected>>

StartChildFails == pc = "Start" /\ NewId \in live /\ Skip

\* Mutant: the queue is emptied after the batch instead of before it.
EndBatch_ClearsQueue ==
  /\ pc = "Next" /\ batch = <<>>
  /\ pc' = "Loop"
  /\ spawn_queue' = <<>>
  /\ UNCHANGED <<shutdown_requested, accepted, agents, agent_counter, batch,
                 spawning, run, before, rejected, live>>

EndBatch ==
  /\ pc = "Next" /\ batch = <<>>
  /\ pc' = "Loop"
  /\ UNCHANGED <<signalVars, agents, agent_counter, batch, spawning, run,
                 before, rejected, live>>

\* The server suggests continue-as-new after a batch; new then restores the
\* agents and the loaded context, but neither the queue nor the flag.
ContinueAsNew ==
  /\ pc = "Next" /\ batch = <<>>
  /\ run < MaxRuns
  /\ run' = run + 1
  /\ agent_counter' = Len(agents)
  /\ spawn_queue' = <<>>
  /\ shutdown_requested' = FALSE
  /\ before' = accepted
  /\ pc' = "StartMain"
  /\ UNCHANGED <<accepted, agents, batch, spawning, rejected, live>>

-----------------------------------------------------------------------------
(* The children                                                            *)

\* An agent returns or fails, or the server terminates it because its parent
\* execution has closed (ParentClosePolicy::Terminate).
ChildEnds(id) ==
  /\ id \in live
  /\ live' = live \ {id}
  /\ UNCHANGED <<signalVars, runVars>>

-----------------------------------------------------------------------------
(* The specification                                                       *)

Signal == Shutdown \/ \E role \in Roles : SpawnAgent(role)
Start == Load \/ StartMain \/ StartMainFails
Control == Park \/ LeaveLoop \/ TakeBatch \/ Ignore \/ Spawn \/ EndBatch
           \/ ContinueAsNew
Await == ResolveRole \/ ResolveRoleFails \/ StartChild \/ StartChildFails
Children == \E id \in live : ChildEnds(id)
Closure == Closed /\ UNCHANGED vars

Next == Signal \/ Start \/ Control \/ Await \/ Children \/ Closure

Spec == Init /\ [][Next]_vars

\* Every await of the run coroutine ends: the activities have a
\* schedule-to-close timeout, and the server answers the start of a child.
FairSpec == Spec /\ WF_vars(Start \/ Control \/ Await)

-----------------------------------------------------------------------------
(* Properties                                                              *)

Ids == (Roles \cup {"main"}) \X Nat
AgentRecords == [agent_id : Ids, role : Roles \cup {MainRole},
                 status : {"Running"}, request : Nat, execution : Nat]

\* Every variable has its type; a spawn is at work exactly while the loop
\* awaits its role or its child, and has the number the counter stands at.
TypeOK ==
  /\ agents \in Seq(AgentRecords)
  /\ spawn_queue \in Seq(Requests)
  /\ agent_counter \in Nat
  /\ shutdown_requested \in BOOLEAN
  /\ pc \in {"Load", "StartMain", "Loop", "Idle", "Next", "Resolve", "Start",
             "Done", "Failed"}
  /\ batch \in Seq(Requests)
  /\ batch # <<>> => pc \in {"Next", "Resolve", "Start"}
  /\ spawning \in {NONE} \cup Spawns
  /\ spawning # NONE <=> pc \in {"Resolve", "Start"}
  /\ spawning # NONE => spawning.number = agent_counter
  /\ run \in Nat
  /\ live \in SUBSET Ids
  /\ accepted \in Nat
  /\ before \in 0..accepted
  /\ rejected \in SUBSET Nat

Queued(seq) == {seq[i][1] : i \in DOMAIN seq}
Started == {agents[i].request : i \in DOMAIN agents}
AtWork == IF spawning = NONE THEN {} ELSE {spawning.request}

\* A request this execution has received is in exactly one place: in the
\* queue, in the batch, at work, started or rejected.  In particular one that
\* arrives while a batch is being worked on is not lost.  And every agent that
\* runs on the server is one list_agents shows, also after continue-as-new.
NothingIsLost ==
  /\ \A n \in (before + 1)..accepted :
       Cardinality({p \in {"queue", "batch", "work", "started", "rejected"} :
         CASE p = "queue"   -> n \in Queued(spawn_queue)
           [] p = "batch"   -> n \in Queued(batch)
           [] p = "work"    -> n \in AtWork
           [] p = "started" -> n \in Started
           [] OTHER         -> n \in rejected}) = 1
  /\ live \subseteq Listed

\* Roles are resolved and children started asynchronously, and the number of
\* agents is read two awaits before it is used.  Still agents start in the
\* order in which they were asked for, each for one request; an execution
\* exceeds the limit by no more than the main agent every execution starts;
\* no two agents of one execution have the same id; and before the first
\* continue-as-new the server refuses no spawn for its id.
StartedAsAsked ==
  /\ \A i, j \in DOMAIN agents : i < j =>
       /\ agents[i].request # 0 /\ agents[j].request # 0
          => agents[i].request < agents[j].request
       /\ agents[i].execution = agents[j].execution
          => agents[i].agent_id # agents[j].agent_id
  /\ Len(agents) <= MaxAgents + run
  /\ pc = "Start" /\ run = 0 => NewId \notin live

\* Every request is started or rejected in the end, unless the session is
\* shut down, continues as new or fails first.
RequestsAreServed ==
  \A n \in 1..MaxSpawns :
    accepted >= n ~> \/ n \in Started \cup rejected
                     \/ n <= before
                     \/ Closed

\* types.rs:722: agent_id is a "Unique agent identifier".
AgentIdsAreUnique ==
  \A i, j \in DOMAIN agents : i # j => agents[i].agent_id # agents[j].agent_id

=============================================================================

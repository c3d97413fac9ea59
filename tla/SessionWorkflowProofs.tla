---------------------- MODULE SessionWorkflowProofs ----------------------
(***************************************************************************)
(* Theorems about SessionWorkflow, for every value of its constants: its   *)
(* types, that no request and no agent is lost, and that agents start as   *)
(* they were asked for.  The inductive invariant has four parts beyond     *)
(* TypeOK: where the requests are, in which order the agents stand, how    *)
(* far the limit can be overrun, and what the numbers in the ids are.      *)
(***************************************************************************)
EXTENDS SessionWorkflow, SequenceTheorems, FiniteSetTheorems, TLAPS

-----------------------------------------------------------------------------
(* The inductive invariant                                                 *)

\* The requests that S (started), W (at work), B (the batch), Q (the queue)
\* and R (rejected) hold, when n have arrived and b of them in earlier
\* executions: none is missing since b, and they leave in order.
Places(S, W, B, Q, R, b, n) ==
  /\ S \subseteq 0..n
  /\ W \cup B \cup Q \cup R \subseteq 1..n
  /\ \A x \in S \cup R, y \in W \cup B \cup Q : x < y
  /\ \A x \in W, y \in B \cup Q : x < y
  /\ \A x \in B, y \in Q : x < y
  /\ S \cap R = {}
  /\ \A m \in (b + 1)..n : m \in S \cup W \cup B \cup Q \cup R

Ascending(seq) ==
  \A i, j \in DOMAIN seq : i < j => seq[i][1] < seq[j][1]

InPlace ==
  /\ Places(Started, AtWork, Queued(batch), Queued(spawn_queue), rejected,
            before, accepted)
  /\ Ascending(batch)
  /\ Ascending(spawn_queue)

InOrder ==
  \A i, j \in DOMAIN agents :
    i < j /\ agents[i].request # 0 /\ agents[j].request # 0
      => agents[i].request < agents[j].request

\* Only Spawn looks at the limit, and nothing is appended between its look
\* and its child; the main agent is appended once in each execution.
WithinLimit ==
  /\ pc = "Load" => run = 0 /\ agents = <<>>
  /\ pc \in {"Load", "StartMain"} => Len(agents) < MaxAgents + run
  /\ pc \in {"Resolve", "Start"} => Len(agents) < MaxAgents
  /\ Len(agents) <= MaxAgents + run

\* The counter has given out every number an agent of this execution has, in
\* the order of the agents, and the one at work last.
Numbered ==
  /\ \A i \in DOMAIN agents :
       /\ agents[i].execution <= run
       /\ agents[i].execution = run =>
            /\ pc \notin {"Load", "StartMain"}
            /\ agents[i].agent_id[2] <= agent_counter
            /\ spawning # NONE => agents[i].agent_id[2] < spawning.number
  /\ spawning # NONE => spawning.number = agent_counter
  /\ \A i, j \in DOMAIN agents :
       i < j /\ agents[i].execution = agents[j].execution
         => agents[i].agent_id[2] < agents[j].agent_id[2]
  /\ live \subseteq Listed

SessionInv == TypeOK /\ InPlace /\ InOrder /\ WithinLimit /\ Numbered

-----------------------------------------------------------------------------
(* Queues of requests                                                      *)

\* A request is a positive number and a role.
LEMMA RequestTyped ==
  ASSUME NEW e \in Requests
  PROVE  e[1] \in Nat /\ e[1] # 0 /\ e[2] \in Roles
BY DEF Requests

\* The empty queue holds nothing, in order.
LEMMA EmptyQueue == Queued(<<>>) = {} /\ Ascending(<<>>)
BY DEF Queued, Ascending

\* What push_back of a later request does to a queue.
LEMMA PushRequest ==
  ASSUME NEW s \in Seq(Requests), NEW e \in Requests,
         Ascending(s), \A x \in Queued(s) : x < e[1]
  PROVE  /\ Queued(Append(s, e)) = Queued(s) \cup {e[1]}
         /\ Ascending(Append(s, e))
<1> DEFINE t == Append(s, e)
<1>1. /\ t \in Seq(Requests) /\ Len(t) = Len(s) + 1
      /\ \A i \in 1..Len(s) : t[i] = s[i]
      /\ t[Len(s) + 1] = e
  BY AppendProperties
<1>2. /\ Len(s) \in Nat /\ DOMAIN s = 1..Len(s) /\ DOMAIN t = 1..Len(t)
  BY <1>1, LenProperties
<1> HIDE DEF t
<1>3. DOMAIN t = DOMAIN s \cup {Len(s) + 1} /\ Len(s) + 1 \notin DOMAIN s
  BY <1>1, <1>2
<1>4. \A i \in DOMAIN s : t[i] = s[i] /\ s[i][1] \in Queued(s)
  BY <1>1, <1>2 DEF Queued
<1>5. Queued(t) = Queued(s) \cup {e[1]}
  BY <1>1, <1>3, <1>4 DEF Queued
<1>6. Ascending(t)
  <2> SUFFICES ASSUME NEW i \in DOMAIN t, NEW j \in DOMAIN t, i < j
               PROVE  t[i][1] < t[j][1]
    BY DEF Ascending
  <2>1. i \in DOMAIN s
    BY <1>2, <1>1
  <2>2. CASE j \in DOMAIN s
    BY <2>1, <2>2, <1>4 DEF Ascending
  <2>3. CASE j = Len(s) + 1
    BY <2>1, <2>3, <1>1, <1>4
  <2> QED BY <2>2, <2>3, <1>3
<1> QED BY <1>5, <1>6 DEF t

\* What taking the first request off a batch leaves.
LEMMA PopRequest ==
  ASSUME NEW s \in Seq(Requests), s # <<>>, Ascending(s)
  PROVE  /\ Head(s) \in Requests
         /\ Tail(s) \in Seq(Requests)
         /\ Head(s)[1] \in Queued(s)
         /\ Queued(Tail(s)) = Queued(s) \ {Head(s)[1]}
         /\ \A x \in Queued(Tail(s)) : Head(s)[1] < x
         /\ Ascending(Tail(s))
<1> DEFINE t == Tail(s)
<1>1. /\ Head(s) \in Requests /\ t \in Seq(Requests)
      /\ Len(t) = Len(s) - 1 /\ \A i \in 1..Len(t) : t[i] = s[i + 1]
  BY HeadTailProperties
<1>2. /\ Len(s) \in Nat \ {0} /\ DOMAIN s = 1..Len(s) /\ DOMAIN t = 1..Len(t)
      /\ Len(t) \in Nat /\ Head(s) = s[1] /\ 1 \in DOMAIN s
  <2>1. Len(s) \in Nat \ {0}
    BY EmptySeq
  <2>2. DOMAIN s = 1..Len(s) /\ DOMAIN t = 1..Len(t) /\ Len(t) \in Nat
    BY <1>1, LenProperties
  <2>3. Head(s) = s[1]
    OBVIOUS
  <2> QED BY <2>1, <2>2, <2>3
<1> HIDE DEF t
<1>3. \A i \in DOMAIN t : i + 1 \in DOMAIN s /\ t[i] = s[i + 1] /\ 1 < i + 1
  BY <1>1, <1>2
<1>4. \A i \in DOMAIN s : i = 1 \/ (i - 1 \in DOMAIN t /\ s[i] = t[i - 1])
  BY <1>1, <1>2
<1>5. \A i \in DOMAIN s : s[i][1] \in Nat
  BY <1>2, ElementOfSeq, RequestTyped
<1>6. \A i \in DOMAIN t : s[1][1] < t[i][1]
  BY <1>2, <1>3 DEF Ascending
<1>7. \A x \in Queued(t) : s[1][1] < x /\ x \in Queued(s)
  BY <1>3, <1>6 DEF Queued
<1>8. Queued(s) \subseteq Queued(t) \cup {s[1][1]}
  BY <1>4 DEF Queued
<1>9. s[1][1] \in Queued(s) /\ s[1][1] \in Nat
  BY <1>2, <1>5 DEF Queued
<1>10. Queued(t) = Queued(s) \ {s[1][1]}
  BY <1>7, <1>8, <1>9
<1>11. Ascending(t)
  <2> SUFFICES ASSUME NEW i \in DOMAIN t, NEW j \in DOMAIN t, i < j
               PROVE  t[i][1] < t[j][1]
    BY DEF Ascending
  <2>1. i + 1 \in DOMAIN s /\ j + 1 \in DOMAIN s /\ i + 1 < j + 1
    BY <1>2, <1>3
  <2>2. s[i + 1][1] < s[j + 1][1]
    BY <2>1 DEF Ascending
  <2> QED BY <2>2, <1>3
<1> QED BY <1>1, <1>2, <1>7, <1>9, <1>10, <1>11 DEF t

-----------------------------------------------------------------------------
(* Moving requests between the places                                      *)

\* A request that arrives joins the queue behind all others.
LEMMA Arrives ==
  ASSUME NEW S, NEW W, NEW B, NEW Q, NEW R, NEW b \in Nat, NEW n \in Nat,
         Places(S, W, B, Q, R, b, n)
  PROVE  Places(S, W, B, Q \cup {n + 1}, R, b, n + 1)
<1>1. /\ 0..n \subseteq 0..(n + 1)
      /\ 1..n \subseteq 1..(n + 1)
      /\ n + 1 \in 1..(n + 1)
      /\ \A x \in 0..n : x < n + 1
      /\ 1..n \subseteq 0..n
      /\ (b + 1)..(n + 1) \subseteq ((b + 1)..n) \cup {n + 1}
  OBVIOUS
<1>2. S \cup W \cup B \cup R \subseteq 0..n
  BY <1>1 DEF Places
<1> QED BY <1>1, <1>2 DEF Places

\* A batch is the whole queue.
LEMMA BatchTaken ==
  ASSUME NEW S, NEW Q, NEW R, NEW b \in Nat, NEW n \in Nat,
         Places(S, {}, {}, Q, R, b, n)
  PROVE  Places(S, {}, Q, {}, R, b, n)
BY DEF Places

\* The first request h of the batch is rejected.
LEMMA HeadRejected ==
  ASSUME NEW S, NEW B, NEW Q, NEW R, NEW b \in Nat, NEW n \in Nat,
         Places(S, {}, B, Q, R, b, n),
         NEW h \in B, \A x \in B \ {h} : h < x
  PROVE  Places(S, {}, B \ {h}, Q, R \cup {h}, b, n)
<1>1. h \in Nat /\ h \notin S
  <2>1. S \subseteq Int /\ h \in 1..n /\ \A x \in S : x < h
    BY DEF Places
  <2> QED BY <2>1
<1> QED BY <1>1 DEF Places

\* The first request h of the batch comes to work.
LEMMA HeadToWork ==
  ASSUME NEW S, NEW B, NEW Q, NEW R, NEW b \in Nat, NEW n \in Nat,
         Places(S, {}, B, Q, R, b, n),
         NEW h \in B, \A x \in B \ {h} : h < x
  PROVE  Places(S, {h}, B \ {h}, Q, R, b, n)
BY DEF Places

\* The request at work is rejected.
LEMMA WorkRejected ==
  ASSUME NEW S, NEW B, NEW Q, NEW R, NEW b \in Nat, NEW n \in Nat, NEW h,
         Places(S, {h}, B, Q, R, b, n)
  PROVE  Places(S, {}, B, Q, R \cup {h}, b, n)
<1>1. h \in Nat /\ h \notin S
  <2>1. S \subseteq Int /\ h \in 1..n /\ \A x \in S : x < h
    BY DEF Places
  <2> QED BY <2>1
<1> QED BY <1>1 DEF Places

\* The request at work is started.
LEMMA WorkStarted ==
  ASSUME NEW S, NEW B, NEW Q, NEW R, NEW b \in Nat, NEW n \in Nat, NEW h,
         Places(S, {h}, B, Q, R, b, n)
  PROVE  Places(S \cup {h}, {}, B, Q, R, b, n)
<1>1. h \in 0..n /\ h \notin R
  <2>1. R \subseteq Int /\ h \in 1..n /\ \A x \in R : x < h
    BY DEF Places
  <2> QED BY <2>1
<1> QED BY <1>1 DEF Places

\* The main agent answers no request: its number is 0.
LEMMA MainStarted ==
  ASSUME NEW S, NEW W, NEW B, NEW Q, NEW R, NEW b \in Nat, NEW n \in Nat,
         Places(S, W, B, Q, R, b, n)
  PROVE  Places(S \cup {0}, W, B, Q, R, b, n)
<1>1. 0 \in 0..n /\ \A x \in 1..n : 0 < x /\ x # 0
  OBVIOUS
<1> QED BY <1>1 DEF Places

\* continue-as-new drops the queue, and answers only for what comes after.
LEMMA QueueDropped ==
  ASSUME NEW S, NEW Q, NEW R, NEW b \in Nat, NEW n \in Nat,
         Places(S, {}, {}, Q, R, b, n)
  PROVE  Places(S, {}, {}, {}, R, n, n)
<1>1. (n + 1)..n = {}
  OBVIOUS
<1> QED BY <1>1 DEF Places

-----------------------------------------------------------------------------
(* The list of agents                                                      *)

\* What appending the record r of a new agent does to the list.
LEMMA AgentsGrow ==
  ASSUME agents \in Seq(AgentRecords), NEW r \in AgentRecords,
         agents' = Append(agents, r)
  PROVE  /\ agents' \in Seq(AgentRecords)
         /\ Len(agents) \in Nat
         /\ Len(agents') = Len(agents) + 1
         /\ DOMAIN agents = 1..Len(agents)
         /\ DOMAIN agents' = DOMAIN agents \cup {Len(agents) + 1}
         /\ \A i \in DOMAIN agents : agents'[i] = agents[i]
         /\ agents'[Len(agents) + 1] = r
         /\ Started' = Started \cup {r.request}
         /\ Listed' = Listed \cup {r.agent_id}
<1>1. /\ agents' \in Seq(AgentRecords)
      /\ Len(agents') = Len(agents) + 1
      /\ \A i \in 1..Len(agents) : agents'[i] = agents[i]
      /\ agents'[Len(agents) + 1] = r
  BY AppendProperties
<1>2. /\ Len(agents) \in Nat /\ DOMAIN agents = 1..Len(agents)
      /\ DOMAIN agents' = 1..Len(agents')
  BY <1>1, LenProperties
<1>3. DOMAIN agents' = DOMAIN agents \cup {Len(agents) + 1}
  BY <1>1, <1>2
<1>4. Started' = Started \cup {r.request}
  BY <1>1, <1>2, <1>3 DEF Started
<1>5. Listed' = Listed \cup {r.agent_id}
  BY <1>1, <1>2, <1>3 DEF Listed
<1> QED BY <1>1, <1>2, <1>3, <1>4, <1>5

\* The parts of an agent's record have their types.
LEMMA AgentTyped ==
  ASSUME TypeOK, NEW i \in DOMAIN agents
  PROVE  /\ agents[i] \in AgentRecords
         /\ agents[i].agent_id[2] \in Nat
         /\ agents[i].request \in Nat
         /\ agents[i].execution \in Nat
         /\ i \in 1..Len(agents) /\ Len(agents) \in Nat
<1>1. DOMAIN agents = 1..Len(agents) /\ Len(agents) \in Nat
  BY LenProperties DEF TypeOK
<1>2. agents[i] \in AgentRecords
  BY <1>1, ElementOfSeq DEF TypeOK
<1> QED BY <1>1, <1>2 DEF AgentRecords, Ids

\* The record StartMain appends.
LEMMA MainRecord ==
  ASSUME TypeOK
  PROVE  LET r == Record(Main, MainRole, 0) IN
         /\ r \in AgentRecords
         /\ r.agent_id = Main /\ r.request = 0 /\ r.execution = run
BY DEF TypeOK, Record, Main, MainRole, AgentRecords, Ids

\* The record StartChild appends.
LEMMA ChildRecord ==
  ASSUME TypeOK, spawning # NONE
  PROVE  LET r == Record(NewId, spawning.role, spawning.request) IN
         /\ r \in AgentRecords
         /\ r.agent_id = NewId /\ r.request = spawning.request
         /\ r.execution = run
         /\ NewId[2] = spawning.number
         /\ spawning \in Spawns
BY DEF TypeOK, Record, NewId, AgentId, AgentRecords, Ids, Spawns

-----------------------------------------------------------------------------
(* Types                                                                   *)

\* Signals keep the types.
LEMMA SignalTyped ==
  ASSUME TypeOK, Signal
  PROVE  TypeOK'
<1> USE DEF runVars
<1>1. CASE Shutdown
  BY <1>1 DEF Shutdown, TypeOK
<1>2. ASSUME NEW role \in Roles, SpawnAgent(role)
      PROVE  TypeOK'
  <2>1. <<accepted + 1, role>> \in Requests
    BY DEF TypeOK, Requests
  <2>2. spawn_queue' \in Seq(Requests)
    BY <1>2, <2>1, AppendProperties DEF SpawnAgent, TypeOK
  <2>3. accepted' \in Nat /\ before' \in 0..accepted'
    BY <1>2 DEF SpawnAgent, TypeOK
  <2> QED BY <1>2, <2>2, <2>3 DEF SpawnAgent, TypeOK
<1> QED BY <1>1, <1>2 DEF Signal

\* The first phases keep the types.
LEMMA StartTyped ==
  ASSUME TypeOK, Start
  PROVE  TypeOK'
<1> USE DEF signalVars
<1>1. CASE Load
  BY <1>1 DEF Load, TypeOK
<1>2. CASE StartMain
  <2>1. agents' \in Seq(AgentRecords)
    BY <1>2, MainRecord, AgentsGrow DEF StartMain, TypeOK
  <2>2. live' \in SUBSET Ids
    BY <1>2 DEF StartMain, TypeOK, Main, Ids
  <2> QED BY <1>2, <2>1, <2>2 DEF StartMain, TypeOK
<1>3. CASE StartMainFails
  BY <1>3 DEF StartMainFails, TypeOK
<1> QED BY <1>1, <1>2, <1>3 DEF Start

\* A request taken off the batch becomes a spawn record, which is not NONE.
LEMMA SpawnTyped ==
  ASSUME TypeOK, Spawn
  PROVE  /\ spawning' \in Spawns /\ spawning' # NONE
         /\ spawning'.request = Head(batch)[1]
         /\ spawning'.number = agent_counter + 1
         /\ batch' = Tail(batch) /\ batch' \in Seq(Requests)
<1>1. Head(batch) \in Requests /\ Tail(batch) \in Seq(Requests)
  BY HeadTailProperties DEF TypeOK, Spawn
<1>2. /\ Head(batch)[1] \in Nat \ {0} /\ Head(batch)[2] \in Roles
      /\ agent_counter + 1 \in Nat
  BY <1>1, RequestTyped DEF TypeOK
<1>3. spawning' = [request |-> Head(batch)[1], role |-> Head(batch)[2],
                   number |-> agent_counter + 1]
  BY DEF Spawn
<1> QED BY <1>1, <1>2, <1>3, SessionAssumption DEF Spawn, Spawns

\* The control loop keeps the types.
LEMMA ControlTyped ==
  ASSUME TypeOK, Control
  PROVE  TypeOK'
<1> USE DEF signalVars
<1>1. CASE Park
  BY <1>1 DEF Park, TypeOK
<1>2. CASE LeaveLoop
  BY <1>2 DEF LeaveLoop, AtLoopTop, TypeOK
<1>3. CASE TakeBatch
  <2>1. <<>> \in Seq(Requests)
    BY EmptySeq
  <2> QED BY <1>3, <2>1 DEF TakeBatch, AtLoopTop, TypeOK
<1>4. CASE Ignore
  <2>1. /\ Tail(batch) \in Seq(Requests) /\ Head(batch) \in Requests
    BY <1>4, HeadTailProperties DEF Ignore, TypeOK
  <2>2. rejected' \in SUBSET Nat
    BY <1>4, <2>1, RequestTyped DEF Ignore, TypeOK
  <2> QED BY <1>4, <2>1, <2>2 DEF Ignore, TypeOK
<1>5. CASE Spawn
  <2>1. pc' \in {"Start", "Resolve"}
    BY <1>5 DEF Spawn
  <2>2. agent_counter' \in Nat
    BY <1>5 DEF Spawn, TypeOK
  <2> QED BY <1>5, <2>1, <2>2, SpawnTyped DEF Spawn, TypeOK
<1>6. CASE EndBatch
  BY <1>6 DEF EndBatch, TypeOK
<1>7. CASE ContinueAsNew
  <2>1. <<>> \in Seq(Requests) /\ Len(agents) \in Nat
    BY EmptySeq, LenProperties DEF TypeOK
  <2>2. run' \in Nat /\ before' \in 0..accepted'
    BY <1>7 DEF ContinueAsNew, TypeOK
  <2> QED BY <1>7, <2>1, <2>2 DEF ContinueAsNew, TypeOK
<1> QED BY <1>1, <1>2, <1>3, <1>4, <1>5, <1>6, <1>7 DEF Control

\* The request that is given up is one at work.
LEMMA SkipTyped ==
  ASSUME TypeOK, Skip, spawning # NONE
  PROVE  TypeOK'
<1>1. spawning.request \in Nat /\ batch' = batch
  BY DEF TypeOK, Skip, Spawns
<1> QED BY <1>1 DEF Skip, TypeOK, signalVars

\* The awaits of a spawn keep the types.
LEMMA AwaitTyped ==
  ASSUME TypeOK, Await
  PROVE  TypeOK'
<1> USE DEF signalVars
<1>0. spawning # NONE
  BY DEF TypeOK, Await, ResolveRole, ResolveRoleFails, StartChild,
         StartChildFails
<1>1. CASE ResolveRole
  BY <1>1 DEF ResolveRole, TypeOK
<1>2. CASE ResolveRoleFails
  BY <1>0, <1>2, SkipTyped DEF ResolveRoleFails
<1>3. CASE StartChild
  <2>1. agents' \in Seq(AgentRecords)
    BY <1>0, <1>3, ChildRecord, AgentsGrow DEF StartChild, TypeOK
  <2>2. NewId \in Ids
    BY <1>0, ChildRecord DEF TypeOK, NewId, AgentId, Ids, Spawns
  <2>3. live' \in SUBSET Ids
    BY <1>3, <2>2 DEF StartChild, TypeOK
  <2> QED BY <1>3, <2>1, <2>3 DEF StartChild, TypeOK
<1>4. CASE StartChildFails
  BY <1>0, <1>4, SkipTyped DEF StartChildFails
<1> QED BY <1>1, <1>2, <1>3, <1>4 DEF Await

\* Every step keeps the types.
LEMMA TypesKept ==
  ASSUME TypeOK, [Next]_vars
  PROVE  TypeOK'
<1>1. CASE UNCHANGED vars
  BY <1>1 DEF TypeOK, vars, signalVars, runVars
<1>2. CASE Children
  BY <1>2 DEF Children, ChildEnds, TypeOK, signalVars, runVars
<1>3. CASE Closure
  BY <1>1, <1>3 DEF Closure
<1> QED BY <1>1, <1>2, <1>3, SignalTyped, StartTyped, ControlTyped, AwaitTyped
        DEF Next

-----------------------------------------------------------------------------
(* Where the requests are                                                  *)

\* Without a spawn at work there is no request at work.
LEMMA NothingAtWork ==
  ASSUME TypeOK, pc \notin {"Resolve", "Start"}
  PROVE  spawning = NONE /\ AtWork = {}
BY DEF TypeOK, AtWork

\* Signals keep InPlace: a request that arrives is the last in the queue.
LEMMA SignalInPlace ==
  ASSUME TypeOK, InPlace, Signal
  PROVE  InPlace'
<1> USE DEF runVars
<1>1. CASE Shutdown
  BY <1>1 DEF Shutdown, InPlace, Started, AtWork, Queued, Ascending
<1>2. ASSUME NEW role \in Roles, SpawnAgent(role)
      PROVE  InPlace'
  <2> DEFINE e == <<accepted + 1, role>>
  <2>1. e \in Requests /\ e[1] = accepted + 1
    BY DEF TypeOK, Requests
  <2>2. accepted \in Nat /\ before \in Nat /\ spawn_queue \in Seq(Requests)
    BY DEF TypeOK
  <2>3. \A x \in Queued(spawn_queue) : x < e[1]
    <3>1. Queued(spawn_queue) \subseteq 1..accepted
      BY DEF InPlace, Places
    <3> QED BY <2>1, <2>2, <3>1
  <2>4. spawn_queue' = Append(spawn_queue, e)
    BY <1>2 DEF SpawnAgent
  <2> HIDE DEF e
  <2>5. /\ Queued(spawn_queue)' = Queued(spawn_queue) \cup {accepted + 1}
        /\ Ascending(spawn_queue)'
    BY <2>1, <2>2, <2>3, <2>4, PushRequest DEF InPlace
  <2>6. /\ Started' = Started /\ AtWork' = AtWork /\ batch' = batch
        /\ rejected' = rejected /\ before' = before
        /\ accepted' = accepted + 1
    BY <1>2 DEF SpawnAgent, Started, AtWork
  <2>7. Places(Started, AtWork, Queued(batch),
               Queued(spawn_queue) \cup {accepted + 1}, rejected, before,
               accepted + 1)
    BY <2>2, Arrives DEF InPlace
  <2>8. Queued(batch)' = Queued(batch) /\ Ascending(batch)' = Ascending(batch)
    BY <2>6
  <2> QED BY <2>5, <2>6, <2>7, <2>8 DEF InPlace
<1> QED BY <1>1, <1>2 DEF Signal

\* The first phases keep InPlace.
LEMMA StartInPlace ==
  ASSUME TypeOK, InPlace, Start
  PROVE  InPlace'
<1> USE DEF signalVars
<1>1. CASE UNCHANGED <<signalVars, agents, batch, spawning, before, rejected>>
  BY <1>1 DEF InPlace, Started, AtWork, Queued, Ascending
<1>2. CASE StartMain
  <2>1. Started' = Started \cup {0}
    BY <1>2, MainRecord, AgentsGrow DEF StartMain, TypeOK
  <2>2. /\ AtWork' = AtWork /\ batch' = batch /\ spawn_queue' = spawn_queue
        /\ rejected' = rejected /\ before' = before /\ accepted' = accepted
    BY <1>2 DEF StartMain, AtWork
  <2>3. Places(Started \cup {0}, AtWork, Queued(batch), Queued(spawn_queue),
               rejected, before, accepted)
    BY MainStarted DEF InPlace, TypeOK
  <2>4. /\ Queued(batch)' = Queued(batch)
        /\ Queued(spawn_queue)' = Queued(spawn_queue)
        /\ Ascending(batch)' /\ Ascending(spawn_queue)'
    BY <2>2 DEF InPlace
  <2> QED BY <2>1, <2>2, <2>3, <2>4 DEF InPlace
<1> QED BY <1>1, <1>2 DEF Start, Load, StartMainFails

\* The control loop keeps InPlace: it takes requests off in their order.
LEMMA ControlInPlace ==
  ASSUME TypeOK, InPlace, Control
  PROVE  InPlace'
<1> USE DEF signalVars
<1> DEFINE h == Head(batch)[1]
<1>0. /\ batch \in Seq(Requests) /\ spawn_queue \in Seq(Requests)
      /\ before \in Nat /\ accepted \in Nat
  BY DEF TypeOK
<1>1. CASE UNCHANGED <<signalVars, agents, batch, spawning, before, rejected>>
  BY <1>1 DEF InPlace, Started, AtWork, Queued, Ascending
<1>2. CASE TakeBatch
  <2>1. batch = <<>> /\ AtWork = {} /\ AtWork' = {}
    BY <1>2, NothingAtWork DEF TakeBatch, AtLoopTop, TypeOK, AtWork
  <2>2. Places(Started, {}, {}, Queued(spawn_queue), rejected, before, accepted)
    BY <2>1, EmptyQueue DEF InPlace
  <2>3. Places(Started, {}, Queued(spawn_queue), {}, rejected, before, accepted)
    BY <2>2, <1>0, BatchTaken
  <2>4. /\ batch' = spawn_queue /\ spawn_queue' = <<>> /\ Started' = Started
        /\ rejected' = rejected /\ before' = before /\ accepted' = accepted
    BY <1>2 DEF TakeBatch, Started
  <2> QED BY <2>1, <2>3, <2>4, EmptyQueue DEF InPlace
<1>3. ASSUME pc = "Next", batch # <<>>, batch' = Tail(batch),
             UNCHANGED <<signalVars, agents, before>>,
             \/ AtWork' = {} /\ rejected' = rejected \cup {h}
             \/ AtWork' = {h} /\ rejected' = rejected
      PROVE  InPlace'
  <2>1. /\ h \in Queued(batch)
        /\ Queued(Tail(batch)) = Queued(batch) \ {h}
        /\ \A x \in Queued(batch) \ {h} : h < x
        /\ Ascending(Tail(batch))
    BY <1>0, <1>3, PopRequest DEF InPlace
  <2>2. AtWork = {}
    BY <1>3, NothingAtWork
  <2>3. /\ Started' = Started /\ spawn_queue' = spawn_queue
        /\ before' = before /\ accepted' = accepted
        /\ Queued(batch)' = Queued(batch) \ {h} /\ Ascending(batch)'
    BY <1>3, <2>1 DEF Started
  <2> HIDE DEF h
  <2>4. Places(Started, {}, Queued(batch), Queued(spawn_queue), rejected,
               before, accepted)
    BY <2>2 DEF InPlace
  <2>5. /\ Places(Started, {}, Queued(batch) \ {h}, Queued(spawn_queue),
                  rejected \cup {h}, before, accepted)
        /\ Places(Started, {h}, Queued(batch) \ {h}, Queued(spawn_queue),
                  rejected, before, accepted)
    BY <1>0, <2>1, <2>4, HeadRejected, HeadToWork
  <2>6. Queued(spawn_queue)' = Queued(spawn_queue) /\ Ascending(spawn_queue)'
    BY <2>3 DEF InPlace
  <2> QED BY <1>3, <2>3, <2>5, <2>6 DEF InPlace
<1>4. CASE Ignore
  <2>1. AtWork' = {}
    BY <1>4, NothingAtWork DEF Ignore, AtWork
  <2> QED BY <1>3, <1>4, <2>1 DEF Ignore
<1>5. CASE Spawn
  <2>1. AtWork' = {h}
    BY <1>5, SpawnTyped DEF AtWork
  <2> QED BY <1>3, <1>5, <2>1 DEF Spawn
<1>6. CASE ContinueAsNew
  <2>1. AtWork = {} /\ AtWork' = {} /\ Queued(batch) = {} /\ batch' = batch
    BY <1>6, NothingAtWork, EmptyQueue DEF ContinueAsNew, AtWork
  <2>2. Places(Started, {}, {}, {}, rejected, accepted, accepted)
    BY <1>0, <2>1, QueueDropped DEF InPlace
  <2>3. /\ Started' = Started /\ spawn_queue' = <<>> /\ rejected' = rejected
        /\ before' = accepted /\ accepted' = accepted
    BY <1>6 DEF ContinueAsNew, Started
  <2>4. Queued(batch)' = {} /\ Ascending(batch)'
    BY <2>1 DEF InPlace
  <2> QED BY <2>1, <2>2, <2>3, <2>4, EmptyQueue DEF InPlace
<1> QED BY <1>1, <1>2, <1>4, <1>5, <1>6
        DEF Control, Park, LeaveLoop, EndBatch

\* The awaits keep InPlace: the request at work is started or rejected.
LEMMA AwaitInPlace ==
  ASSUME TypeOK, InPlace, Await
  PROVE  InPlace'
<1> USE DEF signalVars
<1> DEFINE h == spawning.request
<1>0. /\ spawning # NONE /\ AtWork = {h}
      /\ before \in Nat /\ accepted \in Nat
  BY DEF TypeOK, Await, ResolveRole, ResolveRoleFails, StartChild,
         StartChildFails, AtWork
<1>1. CASE ResolveRole
  BY <1>1 DEF ResolveRole, InPlace, Started, AtWork, Queued, Ascending
<1>2. ASSUME UNCHANGED <<signalVars, batch, before>>, spawning' = NONE,
             \/ Started' = Started \cup {h} /\ rejected' = rejected
             \/ Started' = Started /\ rejected' = rejected \cup {h}
      PROVE  InPlace'
  <2> HIDE DEF h
  <2>1. Places(Started, {h}, Queued(batch), Queued(spawn_queue), rejected,
               before, accepted)
    BY <1>0 DEF InPlace
  <2>2. /\ Places(Started \cup {h}, {}, Queued(batch), Queued(spawn_queue),
                  rejected, before, accepted)
        /\ Places(Started, {}, Queued(batch), Queued(spawn_queue),
                  rejected \cup {h}, before, accepted)
    BY <1>0, <2>1, WorkStarted, WorkRejected
  <2>3. /\ AtWork' = {} /\ before' = before /\ accepted' = accepted
        /\ batch' = batch /\ spawn_queue' = spawn_queue
    BY <1>2 DEF AtWork
  <2>4. /\ Queued(batch)' = Queued(batch) /\ Ascending(batch)'
        /\ Queued(spawn_queue)' = Queued(spawn_queue)
        /\ Ascending(spawn_queue)'
    BY <2>3 DEF InPlace
  <2> QED BY <1>2, <2>2, <2>3, <2>4 DEF InPlace
<1>3. CASE Skip
  <2>1. Started' = Started
    BY <1>3 DEF Skip, Started
  <2> QED BY <1>2, <1>3, <2>1 DEF Skip
<1>4. CASE StartChild
  <2>1. Started' = Started \cup {h}
    BY <1>0, <1>4, ChildRecord, AgentsGrow DEF StartChild, TypeOK
  <2> QED BY <1>2, <1>4, <2>1 DEF StartChild
<1> QED BY <1>1, <1>3, <1>4 DEF Await, ResolveRoleFails, StartChildFails

\* Every step keeps InPlace.
LEMMA InPlaceKept ==
  ASSUME TypeOK, InPlace, [Next]_vars
  PROVE  InPlace'
<1>1. CASE UNCHANGED <<signalVars, runVars>>
  BY <1>1 DEF signalVars, runVars, InPlace, Started, AtWork, Queued, Ascending
<1>2. CASE UNCHANGED vars
  BY <1>1, <1>2 DEF vars
<1>3. CASE Children
  BY <1>1, <1>3 DEF Children, ChildEnds
<1> QED BY <1>2, <1>3, SignalInPlace, StartInPlace, ControlInPlace,
           AwaitInPlace DEF Next, Closure

-----------------------------------------------------------------------------
(* The list of agents, step by step                                        *)

\* Agents are appended by StartMain and StartChild only.
LEMMA WhoAppends ==
  ASSUME TypeOK, [Next]_vars, ~StartMain, ~StartChild
  PROVE  UNCHANGED agents
BY DEF Next, vars, runVars, signalVars, Signal, Shutdown, SpawnAgent, Start,
       Load, StartMainFails, Control, Park, LeaveLoop, TakeBatch, Ignore, Spawn,
       EndBatch, ContinueAsNew, Await, ResolveRole, ResolveRoleFails, Skip,
       StartChildFails, Children, ChildEnds, Closure

\* The agents stay in the order of their requests: the request at work is
\* later than all that were started.
LEMMA InOrderKept ==
  ASSUME TypeOK, InPlace, InOrder, [Next]_vars
  PROVE  InOrder'
<1>1. CASE UNCHANGED agents
  BY <1>1 DEF InOrder
<1>2. ASSUME NEW r \in AgentRecords, agents' = Append(agents, r),
             r.request = 0 \/ \A x \in Started : x < r.request
      PROVE  InOrder'
  <2> SUFFICES ASSUME NEW i \in DOMAIN agents', NEW j \in DOMAIN agents', i < j,
                      agents'[i].request # 0, agents'[j].request # 0
               PROVE  agents'[i].request < agents'[j].request
    BY DEF InOrder
  <2>1. /\ i \in DOMAIN agents /\ agents'[i] = agents[i]
        /\ j \in DOMAIN agents => agents'[j] = agents[j]
        /\ j \notin DOMAIN agents => agents'[j] = r
    <3>1. i \in DOMAIN agents
      BY <1>2, AgentsGrow DEF TypeOK
    <3> QED BY <3>1, <1>2, AgentsGrow DEF TypeOK
  <2>2. CASE j \in DOMAIN agents
    BY <2>1, <2>2 DEF InOrder
  <2>3. CASE j \notin DOMAIN agents
    BY <1>2, <2>1, <2>3 DEF Started
  <2> QED BY <2>2, <2>3
<1>3. CASE StartMain
  BY <1>2, <1>3, MainRecord DEF StartMain
<1>4. CASE StartChild
  <2>1. spawning # NONE /\ spawning.request \in AtWork
    BY <1>4 DEF StartChild, TypeOK, AtWork
  <2>2. \A x \in Started : x < spawning.request
    BY <2>1 DEF InPlace, Places
  <2> QED BY <1>2, <1>4, <2>1, <2>2, ChildRecord DEF StartChild
<1> QED BY <1>1, <1>3, <1>4, WhoAppends

\* The length of the list is a number, and at least one agent is allowed.
LEMMA Limits ==
  ASSUME TypeOK
  PROVE  /\ Len(agents) \in Nat /\ run \in Nat
         /\ MaxAgents \in Nat /\ MaxAgents >= 1
BY LenProperties, SessionAssumption DEF TypeOK

\* The limit is passed by the main agents of later executions only.
LEMMA WithinLimitKept ==
  ASSUME TypeOK, WithinLimit, [Next]_vars
  PROVE  WithinLimit'
<1>1. CASE UNCHANGED <<agents, run>> /\ (pc' = pc \/ pc' = "Failed")
  BY <1>1 DEF WithinLimit
<1>2. CASE UNCHANGED <<agents, run>>
           /\ pc' \in {"Loop", "Idle", "Next", "Done"}
  BY <1>2 DEF WithinLimit
<1>3. CASE Load
  BY <1>3 DEF Load, WithinLimit
<1>4. CASE StartMain
  <2>1. Len(agents') = Len(agents) + 1 /\ pc' = "Loop" /\ run' = run
    BY <1>4, MainRecord, AgentsGrow DEF StartMain, TypeOK
  <2>2. Len(agents) < MaxAgents + run
    BY <1>4 DEF WithinLimit, StartMain
  <2>3. Len(agents') <= MaxAgents + run
    BY <2>1, <2>2, Limits
  <2> QED BY <2>1, <2>3 DEF WithinLimit
<1>5. CASE Spawn
  <2>1. /\ Len(agents) < MaxAgents /\ agents' = agents /\ run' = run
        /\ pc' \in {"Resolve", "Start"}
    BY <1>5, Limits DEF Spawn, Full
  <2> QED BY <2>1 DEF WithinLimit
<1>6. CASE ResolveRole
  BY <1>6 DEF ResolveRole, WithinLimit
<1>7. CASE StartChild
  <2>1. spawning # NONE
    BY <1>7 DEF StartChild, TypeOK
  <2>2. Len(agents') = Len(agents) + 1 /\ pc' = "Next" /\ run' = run
    BY <1>7, <2>1, ChildRecord, AgentsGrow DEF StartChild, TypeOK
  <2>3. Len(agents) < MaxAgents
    BY <1>7 DEF WithinLimit, StartChild
  <2>4. Len(agents') <= MaxAgents + run
    BY <2>2, <2>3, Limits
  <2> QED BY <2>2, <2>4 DEF WithinLimit
<1>8. CASE ContinueAsNew
  <2>1. /\ Len(agents) <= MaxAgents + run /\ agents' = agents
        /\ run' = run + 1 /\ pc' = "StartMain"
    BY <1>8 DEF ContinueAsNew, WithinLimit
  <2>2. Len(agents') < MaxAgents + run' /\ Len(agents') <= MaxAgents + run'
    BY <2>1, Limits
  <2> QED BY <2>1, <2>2 DEF WithinLimit
<1>9. CASE Signal
  BY <1>1, <1>9 DEF Signal, Shutdown, SpawnAgent, runVars
<1>10. CASE Children
  BY <1>1, <1>10 DEF Children, ChildEnds, runVars
<1>11. CASE UNCHANGED vars
  BY <1>1, <1>11 DEF vars, runVars
<1>12. CASE StartMainFails
  BY <1>1, <1>12 DEF StartMainFails
<1>13. CASE Park \/ LeaveLoop \/ TakeBatch \/ Ignore \/ EndBatch
  BY <1>2, <1>13 DEF Park, LeaveLoop, TakeBatch, Ignore, EndBatch
<1>14. CASE ResolveRoleFails \/ StartChildFails
  BY <1>2, <1>14 DEF ResolveRoleFails, StartChildFails, Skip
<1> QED BY <1>3, <1>4, <1>5, <1>6, <1>7, <1>8, <1>9, <1>10, <1>11, <1>12,
           <1>13, <1>14 DEF Next, Start, Control, Await, Closure

-----------------------------------------------------------------------------
(* The numbers in the ids                                                  *)

\* A child runs on the server only if its id is that of an agent in the list.
LEMMA LiveIsListed ==
  ASSUME TypeOK, Numbered, [Next]_vars
  PROVE  (live \subseteq Listed)'
<1>1. CASE StartMain
  <2>1. Listed' = Listed \cup {Main} /\ live' = live \cup {Main}
    BY <1>1, MainRecord, AgentsGrow DEF StartMain, TypeOK
  <2> QED BY <2>1 DEF Numbered
<1>2. CASE StartChild
  <2>1. spawning # NONE
    BY <1>2 DEF StartChild, TypeOK
  <2>2. Listed' = Listed \cup {NewId} /\ live' = live \cup {NewId}
    BY <1>2, <2>1, ChildRecord, AgentsGrow DEF StartChild, TypeOK
  <2> QED BY <2>2 DEF Numbered
<1>3. CASE ~StartMain /\ ~StartChild
  <2>1. Listed' = Listed
    BY <1>3, WhoAppends DEF Listed
  <2>2. live' \subseteq live
    BY <1>3 DEF Next, vars, runVars, signalVars, Signal, Shutdown, SpawnAgent,
       Start, Load, StartMainFails, Control, Park, LeaveLoop, TakeBatch, Ignore,
       Spawn, EndBatch, ContinueAsNew, Await, ResolveRole, ResolveRoleFails,
       Skip, StartChildFails, Children, ChildEnds, Closure
  <2> QED BY <2>1, <2>2 DEF Numbered
<1> QED BY <1>1, <1>2, <1>3

\* What Numbered says of the list survives the append of a record r of this
\* execution whose number is beyond those the execution gave out before.
LEMMA NumberedAppend ==
  ASSUME TypeOK, Numbered, NEW r \in AgentRecords,
         agents' = Append(agents, r), r.execution = run, run' = run,
         \A i \in DOMAIN agents : agents[i].execution = run =>
           agents[i].agent_id[2] < r.agent_id[2],
         r.agent_id[2] <= agent_counter', agent_counter' \in Nat,
         pc' \notin {"Load", "StartMain"}, spawning' = NONE,
         (live \subseteq Listed)'
  PROVE  Numbered'
<1> DEFINE m == Len(agents) + 1
<1>1. /\ Len(agents) \in Nat /\ DOMAIN agents = 1..Len(agents)
      /\ DOMAIN agents' = DOMAIN agents \cup {m}
      /\ \A i \in DOMAIN agents : agents'[i] = agents[i]
      /\ agents'[m] = r
  BY AgentsGrow DEF TypeOK
<1>2. run \in Nat /\ r.agent_id[2] \in Nat
  BY DEF TypeOK, AgentRecords, Ids
<1>3. \A i \in DOMAIN agents :
        agents[i].agent_id[2] \in Nat /\ agents[i].execution \in Nat
  BY AgentTyped
<1>4. \A i \in DOMAIN agents' :
        /\ agents'[i].execution <= run
        /\ agents'[i].execution = run =>
             agents'[i].agent_id[2] <= agent_counter'
  <2> SUFFICES ASSUME NEW i \in DOMAIN agents'
               PROVE  /\ agents'[i].execution <= run
                      /\ agents'[i].execution = run =>
                           agents'[i].agent_id[2] <= agent_counter'
    OBVIOUS
  <2>1. CASE i \in DOMAIN agents
    <3>1. agents'[i] = agents[i] /\ agents[i].execution <= run
      BY <1>1, <2>1 DEF Numbered
    <3> QED BY <3>1, <2>1, <1>2, <1>3
  <2>2. CASE i = m
    BY <2>2, <1>1, <1>2
  <2> QED BY <2>1, <2>2, <1>1
<1>5. \A i, j \in DOMAIN agents' :
        i < j /\ agents'[i].execution = agents'[j].execution
          => agents'[i].agent_id[2] < agents'[j].agent_id[2]
  <2> SUFFICES ASSUME NEW i \in DOMAIN agents', NEW j \in DOMAIN agents', i < j,
                      agents'[i].execution = agents'[j].execution
               PROVE  agents'[i].agent_id[2] < agents'[j].agent_id[2]
    OBVIOUS
  <2>1. i \in DOMAIN agents
    BY <1>1
  <2>2. CASE j \in DOMAIN agents
    BY <1>1, <2>1, <2>2 DEF Numbered
  <2>3. CASE j = m
    BY <1>1, <2>1, <2>3
  <2> QED BY <1>1, <2>2, <2>3
<1> QED BY <1>4, <1>5 DEF Numbered

\* Every step keeps Numbered.
LEMMA NumberedKept ==
  ASSUME TypeOK, Numbered, [Next]_vars
  PROVE  Numbered'
<1>0. (live \subseteq Listed)'
  BY LiveIsListed
<1>1. CASE UNCHANGED <<agents, agent_counter, run, spawning>>
           /\ (pc' \in {"Load", "StartMain"} => pc \in {"Load", "StartMain"})
  BY <1>0, <1>1 DEF Numbered
<1>2. CASE StartMain
  <2>1. \A i \in DOMAIN agents : agents[i].execution # run
    BY <1>2 DEF StartMain, Numbered
  <2> DEFINE r == Record(Main, MainRole, 0)
  <2>2. r \in AgentRecords /\ r.execution = run /\ r.agent_id[2] = 0
    BY MainRecord DEF Main
  <2>3. /\ agents' = Append(agents, r) /\ run' = run /\ pc' = "Loop"
        /\ agent_counter' = 1 /\ spawning' = NONE
    BY <1>2 DEF StartMain, TypeOK
  <2> HIDE DEF r
  <2> QED BY <1>0, <2>1, <2>2, <2>3, NumberedAppend
<1>3. CASE Spawn
  <2>1. /\ agents' = agents /\ run' = run /\ pc = "Next"
        /\ agent_counter' = agent_counter + 1
        /\ spawning' # NONE /\ spawning'.number = agent_counter + 1
        /\ pc' \in {"Resolve", "Start"}
    BY <1>3, SpawnTyped DEF Spawn
  <2>2. \A i \in DOMAIN agents : agents[i].agent_id[2] \in Nat
    BY AgentTyped
  <2>3. agent_counter \in Nat
    BY DEF TypeOK
  <2>4. \A i \in DOMAIN agents :
          /\ agents[i].execution <= run
          /\ agents[i].execution = run =>
               /\ agents[i].agent_id[2] <= agent_counter + 1
               /\ agents[i].agent_id[2] < agent_counter + 1
    <3> TAKE i \in DOMAIN agents
    <3>1. /\ agents[i].execution <= run
          /\ agents[i].execution = run => agents[i].agent_id[2] <= agent_counter
      BY DEF Numbered
    <3> QED BY <3>1, <2>2, <2>3
  <2> QED BY <1>0, <2>1, <2>4 DEF Numbered
<1>4. CASE ContinueAsNew
  <2>1. /\ agents' = agents /\ run' = run + 1 /\ spawning' = spawning
        /\ spawning = NONE
    BY <1>4 DEF ContinueAsNew, TypeOK
  <2>2. \A i \in DOMAIN agents :
          agents[i].execution <= run + 1 /\ agents[i].execution # run + 1
    <3> TAKE i \in DOMAIN agents
    <3>1. agents[i].execution <= run /\ agents[i].execution \in Nat /\ run \in Nat
      BY AgentTyped DEF Numbered, TypeOK
    <3> QED BY <3>1
  <2> QED BY <1>0, <2>1, <2>2 DEF Numbered
<1>5. CASE Skip /\ pc \in {"Resolve", "Start"}
  BY <1>0, <1>5 DEF Skip, Numbered
<1>6. CASE StartChild
  <2>1. spawning # NONE
    BY <1>6 DEF StartChild, TypeOK
  <2>2. /\ spawning.number = agent_counter
        /\ \A i \in DOMAIN agents : agents[i].execution = run =>
             agents[i].agent_id[2] < spawning.number
    BY <2>1 DEF Numbered
  <2>3. agent_counter \in Nat
    BY DEF TypeOK
  <2> DEFINE r == Record(NewId, spawning.role, spawning.request)
  <2>4. /\ r \in AgentRecords /\ r.execution = run
        /\ r.agent_id[2] = spawning.number
    BY <2>1, ChildRecord
  <2>5. /\ agents' = Append(agents, r) /\ run' = run /\ pc' = "Next"
        /\ agent_counter' = agent_counter /\ spawning' = NONE
    BY <1>6 DEF StartChild
  <2> HIDE DEF r
  <2> QED BY <1>0, <2>2, <2>3, <2>4, <2>5, NumberedAppend
<1>7. CASE Signal
  BY <1>1, <1>7 DEF Signal, Shutdown, SpawnAgent, runVars
<1>8. CASE Children
  BY <1>1, <1>8 DEF Children, ChildEnds, runVars
<1>9. CASE UNCHANGED vars
  BY <1>1, <1>9 DEF vars, runVars
<1>10. CASE Load \/ StartMainFails
  BY <1>1, <1>10 DEF Load, StartMainFails
<1>11. CASE Park \/ LeaveLoop \/ TakeBatch \/ Ignore \/ EndBatch
  BY <1>1, <1>11 DEF Park, LeaveLoop, TakeBatch, Ignore, EndBatch
<1>12. CASE ResolveRole
  BY <1>1, <1>12 DEF ResolveRole
<1> QED BY <1>2, <1>3, <1>4, <1>5, <1>6, <1>7, <1>8, <1>9, <1>10, <1>11, <1>12
        DEF Next, Start, Control, Await, ResolveRoleFails, StartChildFails,
            Closure

-----------------------------------------------------------------------------
(* The theorems                                                            *)

\* The session starts in the invariant.
LEMMA SessionInvInitially == Init => SessionInv
<1> SUFFICES ASSUME Init
             PROVE  SessionInv
  OBVIOUS
<1> USE DEF Init
<1>1. /\ agents = <<>> /\ DOMAIN agents = {} /\ Len(agents) = 0
      /\ <<>> \in Seq(Requests) /\ <<>> \in Seq(AgentRecords)
  BY EmptySeq
<1>2. TypeOK
  <2>1. agents \in Seq(AgentRecords)
    BY <1>1
  <2>2. spawn_queue \in Seq(Requests) /\ batch \in Seq(Requests) /\ batch = <<>>
    BY <1>1
  <2>3. before \in 0..accepted /\ accepted \in Nat
    OBVIOUS
  <2> QED BY <2>1, <2>2, <2>3 DEF TypeOK
<1>3. InPlace
  <2>1. Started = {} /\ AtWork = {}
    BY <1>1 DEF Started, AtWork
  <2>2. Places({}, {}, {}, {}, {}, 0, 0)
    BY DEF Places
  <2> QED BY <2>1, <2>2, EmptyQueue DEF InPlace
<1>4. InOrder /\ WithinLimit
  BY <1>1, SessionAssumption DEF InOrder, WithinLimit
<1>5. Numbered
  BY <1>1 DEF Numbered, Listed
<1> QED BY <1>2, <1>3, <1>4, <1>5 DEF SessionInv

\* SessionInv is an inductive invariant.
THEOREM SessionInvHolds == Spec => []SessionInv
<1>1. Init => SessionInv
  BY SessionInvInitially
<1>2. SessionInv /\ [Next]_vars => SessionInv'
  BY TypesKept, InPlaceKept, InOrderKept, WithinLimitKept, NumberedKept
  DEF SessionInv
<1> QED BY <1>1, <1>2, PTL DEF Spec

\* Every variable of the session workflow keeps its type, and a spawn is at
\* work exactly while the loop awaits its role or its child.
THEOREM SessionTypes == Spec => []TypeOK
<1>1. SessionInv => TypeOK
  BY DEF SessionInv
<1> QED BY <1>1, SessionInvHolds, PTL

\* However many requests arrive and wherever the coroutine is when they do,
\* each one of this execution is in exactly one place, and no agent runs that
\* list_agents does not show.
THEOREM NothingIsEverLost == Spec => []NothingIsLost
<1>1. SessionInv => NothingIsLost
  <2> SUFFICES ASSUME SessionInv
               PROVE  NothingIsLost
    OBVIOUS
  <2>1. live \subseteq Listed
    BY DEF SessionInv, Numbered
  <2>2. ASSUME NEW n \in (before + 1)..accepted
        PROVE  Cardinality({p \in {"queue", "batch", "work", "started", "rejected"} :
                 CASE p = "queue"   -> n \in Queued(spawn_queue)
                   [] p = "batch"   -> n \in Queued(batch)
                   [] p = "work"    -> n \in AtWork
                   [] p = "started" -> n \in Started
                   [] OTHER         -> n \in rejected}) = 1
    <3> DEFINE In(p) == CASE p = "queue"   -> n \in Queued(spawn_queue)
                          [] p = "batch"   -> n \in Queued(batch)
                          [] p = "work"    -> n \in AtWork
                          [] p = "started" -> n \in Started
                          [] OTHER         -> n \in rejected
               ps == {"queue", "batch", "work", "started", "rejected"}
    <3>1. /\ In("queue") <=> n \in Queued(spawn_queue)
          /\ In("batch") <=> n \in Queued(batch)
          /\ In("work") <=> n \in AtWork
          /\ In("started") <=> n \in Started
          /\ In("rejected") <=> n \in rejected
      OBVIOUS
    <3>2. n \in Int /\ ~(n < n)
      BY DEF SessionInv, TypeOK
    <3>3. /\ In("queue") \/ In("batch") \/ In("work") \/ In("started")
             \/ In("rejected")
          /\ In("queue") => ~In("batch") /\ ~In("work") /\ ~In("started")
                             /\ ~In("rejected")
          /\ In("batch") => ~In("work") /\ ~In("started") /\ ~In("rejected")
          /\ In("work") => ~In("started") /\ ~In("rejected")
          /\ In("started") => ~In("rejected")
      BY <3>1, <3>2 DEF SessionInv, InPlace, Places
    <3> HIDE DEF In
    <3>4. \E p \in ps : {q \in ps : In(q)} = {p}
      <4>1. CASE In("queue")
        <5>1. {q \in ps : In(q)} = {"queue"}
          BY <4>1, <3>3
        <5> QED BY <5>1
      <4>2. CASE In("batch")
        <5>1. {q \in ps : In(q)} = {"batch"}
          BY <4>2, <3>3
        <5> QED BY <5>1
      <4>3. CASE In("work")
        <5>1. {q \in ps : In(q)} = {"work"}
          BY <4>3, <3>3
        <5> QED BY <5>1
      <4>4. CASE In("started")
        <5>1. {q \in ps : In(q)} = {"started"}
          BY <4>4, <3>3
        <5> QED BY <5>1
      <4>5. CASE In("rejected")
        <5>1. {q \in ps : In(q)} = {"rejected"}
          BY <4>5, <3>3
        <5> QED BY <5>1
      <4> QED BY <3>3, <4>1, <4>2, <4>3, <4>4, <4>5
    <3>5. Cardinality({q \in ps : In(q)}) = 1
      BY <3>4, FS_Singleton
    <3> QED BY <3>5 DEF In
  <2> QED BY <2>1, <2>2 DEF NothingIsLost
<1> QED BY <1>1, SessionInvHolds, PTL

\* Agents start in the order of their requests, one for each; the limit is
\* exceeded by main agents only; and ids are distinct within an execution,
\* so that in the first the server refuses none.
THEOREM AgentsStartAsAsked == Spec => []StartedAsAsked
<1>1. SessionInv => StartedAsAsked
  <2> SUFFICES ASSUME SessionInv
               PROVE  StartedAsAsked
    OBVIOUS
  <2>0. TypeOK
    BY DEF SessionInv
  <2>1. ASSUME NEW i \in DOMAIN agents, NEW j \in DOMAIN agents, i < j
        PROVE  /\ agents[i].request # 0 /\ agents[j].request # 0
                  => agents[i].request < agents[j].request
               /\ agents[i].execution = agents[j].execution
                  => agents[i].agent_id # agents[j].agent_id
    <3>1. agents[j].agent_id[2] \in Nat
      BY <2>0, AgentTyped
    <3>2. agents[i].execution = agents[j].execution
            => agents[i].agent_id[2] < agents[j].agent_id[2]
      BY <2>1 DEF SessionInv, Numbered
    <3> QED BY <2>1, <3>1, <3>2 DEF SessionInv, InOrder
  <2>2. Len(agents) <= MaxAgents + run
    BY DEF SessionInv, WithinLimit
  <2>3. ASSUME pc = "Start", run = 0, NewId \in live
        PROVE  FALSE
    <3>1. spawning # NONE
      BY <2>0, <2>3 DEF TypeOK
    <3>2. PICK i \in DOMAIN agents : agents[i].agent_id = NewId
      BY <2>3 DEF SessionInv, Numbered, Listed
    <3>3. agents[i].execution = run
      <4>1. agents[i].execution <= 0 /\ agents[i].execution \in Nat
        BY <2>0, <2>3, AgentTyped DEF SessionInv, Numbered
      <4> QED BY <4>1, <2>3
    <3>4. NewId[2] < spawning.number
      BY <3>1, <3>2, <3>3 DEF SessionInv, Numbered
    <3>5. NewId[2] = spawning.number /\ NewId[2] \in Nat
      BY <2>0, <3>1, <3>2, ChildRecord, AgentTyped
    <3> QED BY <3>4, <3>5
  <2> QED BY <2>1, <2>2, <2>3 DEF StartedAsAsked
<1> QED BY <1>1, SessionInvHolds, PTL

=============================================================================

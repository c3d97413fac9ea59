------------------------- MODULE ToolActivitiesProofs -------------------------
(***************************************************************************)
(* Theorems about ToolActivities, for every value of its constants: its    *)
(* types, which calls may take effect and how often, when what a call      *)
(* surfaces came in and on whose account, and that offered tools are       *)
(* served.  The inductive invariant says which attempts exist, what each   *)
(* of them has been cleared for and what it has done so far; a second one  *)
(* follows what is captured.                                               *)
(***************************************************************************)
EXTENDS ToolActivities, FiniteSetTheorems, TLAPS

-----------------------------------------------------------------------------
(* The inductive invariant                                                 *)

\* An execution is known by its key, carries out an attempt that was handed
\* out, and the manager's mutex is free or held by an execution that lives.
AttemptsKnown ==
  /\ holder # NONE => \E x \in executions : Key(x) = holder
  /\ \A x, y \in executions : Key(x) = Key(y) => x = y
  /\ \A x \in executions :
       /\ x.attempt <= Owner(x).attempt
       /\ Owner(x).status = "queued" => x.attempt < Owner(x).attempt
       /\ Owner(x).status # "asking"

\* What the servers work on was handed to them by an attempt of an MCP call
\* that is no longer at its beginning.
ServingKnown ==
  \A k \in serving :
    /\ k[1] \in DOMAIN calls
    /\ calls[k[1]].kind = "mcp"
    /\ k[2] <= calls[k[1]].attempt
    /\ calls[k[1]].status = "queued" => k[2] < calls[k[1]].attempt
    /\ calls[k[1]].status # "asking"
    /\ \A x \in executions : Key(x) = k => x.stage # "begin"

\* A discovery at work has its list of servers, and what it found so far is
\* connected, unless the worker was restarted since.
Connected ==
  /\ \A x \in executions :
       x.stage = "locked" /\ Owner(x).kind = "discover" => connecting # NONE
  /\ ~restarted =>
       /\ connecting # NONE => connecting.found \subseteq clients
       /\ \A x \in executions : x.result.found \subseteq clients

\* While an MCP call holds the manager, what is captured was captured then.
CapturedNow ==
  \A x \in executions :
    x.stage = "locked" /\ Owner(x).kind = "mcp" /\ captured # NONE
      => captured.during = Key(x)

\* A call that was handed out has passed the gate of the workflow, and one
\* that the activity wants approved never gets past the gate of the activity.
Gated(c) == c.decision # "Forbidden" /\ (c.decision = "Prompt" => c.granted)

NeverAnswered(c) ==
  /\ c.kind = "shell" /\ c.decision = "Allow"
  /\ CheckShellExecPolicy(c.arg) = "Prompt"

Passed ==
  /\ \A i \in DOMAIN calls :
       /\ calls[i].status = "asking" => calls[i].decision = "Prompt"
       /\ calls[i].status \in {"queued", "started", "eliciting"} => Gated(calls[i])
  /\ \A x \in executions :
       /\ Gated(Owner(x))
       /\ NeverAnswered(Owner(x)) => x.stage = "begin"

\* The attempts of a call that may still take effect: those that begin, those
\* a server works on, and the one that was not handed out yet.
MayTakeEffect(i) ==
  {k \in 0..calls[i].attempt :
     \/ <<i, k>> \in serving
     \/ \E x \in executions : Key(x) = <<i, k>> /\ x.stage = "begin"
     \/ calls[i].status \in {"asking", "queued"} /\ k = calls[i].attempt}

HasEffects(c) == c.kind \in ExecKinds \cup {"mcp"}

\* An attempt takes effect once or may still do so, never both.
EffectsCounted ==
  \A i \in DOMAIN calls :
    IF HasEffects(calls[i])
    THEN /\ Cardinality(MayTakeEffect(i)) \in Nat
         /\ calls[i].effects + Cardinality(MayTakeEffect(i)) <= calls[i].attempt + 1
    ELSE calls[i].effects = 0

\* A report of success, and a server that is done with a call, come after the
\* effect.
DoneIsDone ==
  \A x \in executions : HasEffects(Owner(x)) =>
    /\ x.result.code = "done" => Owner(x).effects > 0
    /\ x.stage = "locked" /\ Owner(x).arg \in clients /\ Key(x) \notin serving
         => Owner(x).effects > 0

ActivityInv ==
  /\ TypeOK
  /\ AttemptsKnown
  /\ ServingKnown
  /\ Connected
  /\ CapturedNow
  /\ Passed
  /\ EffectsCounted
  /\ DoneIsDone
  /\ OnlyClearedRuns
  /\ EffectsMatchAttempts
  /\ ElicitationsArriveDuringTheirCall
  /\ DiscoveredToolsAreServed

-----------------------------------------------------------------------------
(* Lemmas about the data                                                   *)

\* Replacing one call keeps the others and the type of the sequence.
LEMMA OneCallReplaced ==
  ASSUME calls \in Seq(Calls), NEW i \in DOMAIN calls, NEW c \in Calls
  PROVE  LET replaced == [calls EXCEPT ![i] = c] IN
         /\ replaced \in Seq(Calls)
         /\ Len(replaced) = Len(calls)
         /\ DOMAIN replaced = DOMAIN calls
         /\ replaced[i] = c
         /\ \A j \in DOMAIN calls : j # i => replaced[j] = calls[j]
  OBVIOUS

\* What the type invariant says of a call and of an execution.
LEMMA CallTypes ==
  ASSUME TypeOK, NEW i \in DOMAIN calls
  PROVE  /\ calls[i] \in Calls
         /\ i \in 1..MaxCalls
         /\ DOMAIN calls = 1..Len(calls)
  <1>1. calls \in Seq(Calls) /\ Len(calls) <= MaxCalls /\ MaxCalls \in Nat
    BY ConstantsAssumption DEF TypeOK
  <1> QED
    BY <1>1

LEMMA ExecutionTypes ==
  ASSUME TypeOK, NEW x \in executions
  PROVE  /\ x \in Executions
         /\ x.call \in DOMAIN calls
         /\ Owner(x) = calls[x.call]
         /\ Owner(x) \in Calls
         /\ Key(x) \in Keys
         /\ Key(x) # NONE
         /\ x.stage = "locked" <=> holder = Key(x)
  <1>1. x \in Executions /\ x.call \in DOMAIN calls
    BY DEF TypeOK
  <1>2. calls[x.call] \in Calls
    BY <1>1, CallTypes
  <1>3. Key(x) \in Keys
    BY <1>1 DEF Executions, Key, Keys
  <1> QED
    BY <1>1, <1>2, <1>3, ConstantsAssumption DEF TypeOK, Owner

\* The attempts that may still take effect are finitely many.
LEMMA FewMayTakeEffect ==
  ASSUME TypeOK, NEW i \in DOMAIN calls
  PROVE  /\ IsFiniteSet(MayTakeEffect(i))
         /\ Cardinality(MayTakeEffect(i)) \in Nat
  <1>1. calls[i].attempt \in Nat
    BY CallTypes DEF Calls
  <1>2. IsFiniteSet(0..calls[i].attempt)
    BY <1>1, FS_Interval
  <1>3. MayTakeEffect(i) \in SUBSET (0..calls[i].attempt)
    BY DEF MayTakeEffect
  <1> QED
    BY <1>2, <1>3, FS_Subset, FS_CardinalityType

\* An attempt leaves the set when it takes effect; the set never grows but by
\* a new attempt.
LEMMA EffectsStayCounted ==
  ASSUME TypeOK, TypeOK', EffectsCounted,
         NEW i \in DOMAIN calls, i \in DOMAIN calls',
         HasEffects(calls[i]),
         calls'[i].kind = calls[i].kind,
         NEW new, NEW used,
         MayTakeEffect(i)' \subseteq (MayTakeEffect(i) \cup new) \ used,
         \/ /\ new = {} /\ used = {}
            /\ calls'[i].effects = calls[i].effects
            /\ calls'[i].attempt = calls[i].attempt
         \/ /\ new = {} /\ \E k \in MayTakeEffect(i) : used = {k}
            /\ calls'[i].effects = calls[i].effects + 1
            /\ calls'[i].attempt = calls[i].attempt
         \/ /\ (\E k : new = {k}) /\ used = {}
            /\ calls'[i].effects = calls[i].effects
            /\ calls'[i].attempt = calls[i].attempt + 1
  PROVE  /\ Cardinality(MayTakeEffect(i)') \in Nat
         /\ calls'[i].effects + Cardinality(MayTakeEffect(i)') <= calls'[i].attempt + 1
  <1> DEFINE S == MayTakeEffect(i)
             T == MayTakeEffect(i)'
  <1>1. /\ IsFiniteSet(S) /\ Cardinality(S) \in Nat
        /\ calls[i].effects + Cardinality(S) <= calls[i].attempt + 1
        /\ calls[i].effects \in Nat /\ calls[i].attempt \in Nat
    BY FewMayTakeEffect, CallTypes DEF EffectsCounted, Calls
  <1>2. T \subseteq (S \cup new) \ used
    OBVIOUS
  <1> HIDE DEF S, T
  <1>3. CASE new = {} /\ used = {} /\ calls'[i].effects = calls[i].effects
             /\ calls'[i].attempt = calls[i].attempt
    <2>1. T \in SUBSET S
      BY <1>2, <1>3
    <2>2. Cardinality(T) \in Nat /\ Cardinality(T) <= Cardinality(S)
      BY <1>1, <2>1, FS_Subset, FS_CardinalityType
    <2> QED
      BY <1>1, <1>3, <2>2 DEF T
  <1>4. CASE new = {} /\ (\E k \in MayTakeEffect(i) : used = {k})
             /\ calls'[i].effects = calls[i].effects + 1
             /\ calls'[i].attempt = calls[i].attempt
    <2>1. PICK k \in S : used = {k}
      BY <1>4 DEF S
    <2>2. IsFiniteSet(S \ {k}) /\ Cardinality(S \ {k}) = Cardinality(S) - 1
      BY <1>1, <2>1, FS_RemoveElement
    <2>3. T \in SUBSET (S \ {k})
      BY <1>2, <1>4, <2>1
    <2>4. Cardinality(T) \in Nat /\ Cardinality(T) <= Cardinality(S) - 1
      BY <2>2, <2>3, FS_Subset, FS_CardinalityType
    <2> QED
      BY <1>1, <1>4, <2>4 DEF T
  <1>5. CASE (\E k : new = {k}) /\ used = {}
             /\ calls'[i].effects = calls[i].effects
             /\ calls'[i].attempt = calls[i].attempt + 1
    <2>1. PICK k : new = {k}
      BY <1>5
    <2>a. /\ IsFiniteSet(S \cup {k})
          /\ Cardinality(S \cup {k}) =
               IF k \in S THEN Cardinality(S) ELSE Cardinality(S) + 1
      BY <1>1, FS_AddElement
    <2>2. /\ IsFiniteSet(S \cup {k})
          /\ Cardinality(S \cup {k}) <= Cardinality(S) + 1
          /\ Cardinality(S \cup {k}) \in Nat
      BY <1>1, <2>a
    <2>3. T \in SUBSET (S \cup {k})
      BY <1>2, <1>5, <2>1
    <2>4. Cardinality(T) \in Nat /\ Cardinality(T) <= Cardinality(S) + 1
      BY <1>1, <2>2, <2>3, FS_Subset, FS_CardinalityType
    <2> QED
      BY <1>1, <1>5, <2>4 DEF T
  <1> QED
    BY <1>3, <1>4, <1>5

\* A step that changes neither the counters nor, but by taking away, the
\* attempts that may take effect.
LEMMA EffectsUntouched ==
  ASSUME TypeOK, TypeOK', EffectsCounted,
         DOMAIN calls' = DOMAIN calls,
         \A i \in DOMAIN calls :
           /\ calls'[i].kind = calls[i].kind
           /\ calls'[i].effects = calls[i].effects
           /\ calls'[i].attempt = calls[i].attempt
           /\ HasEffects(calls[i]) =>
                MayTakeEffect(i)' \subseteq MayTakeEffect(i)
  PROVE  EffectsCounted'
  <1> SUFFICES ASSUME NEW i \in DOMAIN calls
               PROVE  IF HasEffects(calls'[i])
                      THEN /\ Cardinality(MayTakeEffect(i)') \in Nat
                           /\ calls'[i].effects + Cardinality(MayTakeEffect(i)')
                                <= calls'[i].attempt + 1
                      ELSE calls'[i].effects = 0
    BY Zenon DEF EffectsCounted
  <1>1. HasEffects(calls'[i]) <=> HasEffects(calls[i])
    BY DEF HasEffects
  <1>2. CASE HasEffects(calls[i])
    <2>1. MayTakeEffect(i)' \subseteq (MayTakeEffect(i) \cup {}) \ {}
      BY <1>2
    <2>2. /\ Cardinality(MayTakeEffect(i)') \in Nat
          /\ calls'[i].effects + Cardinality(MayTakeEffect(i)') <= calls'[i].attempt + 1
      BY <1>2, <2>1, EffectsStayCounted
    <2> QED
      BY <1>1, <1>2, <2>2
  <1>3. CASE ~HasEffects(calls[i])
    BY <1>1, <1>3 DEF EffectsCounted
  <1> QED
    BY <1>2, <1>3

-----------------------------------------------------------------------------
(* A call gets another status or an answer                                 *)

\* What call i may become in a step that reports, closes, retries or releases
\* it: it keeps what it was asked with, and its status follows its gates.
Becomes(i, c) ==
  /\ c.agent = calls[i].agent /\ c.kind = calls[i].kind
  /\ c.arg = calls[i].arg /\ c.decision = calls[i].decision
  /\ c.attempt = calls[i].attempt /\ c.effects = calls[i].effects
  /\ calls[i].granted => c.granted
  /\ \/ c.status = calls[i].status
     \/ c.status = "closed"
     \/ c.status = "eliciting" /\ Gated(c)
     \/ /\ c.status = "queued" /\ Gated(c)
        /\ \/ calls[i].status = "asking"
           \/ /\ \A x \in executions' : Key(x) # <<i, c.attempt>>
              /\ HasEffects(c) =>
                   /\ <<i, c.attempt>> \notin serving
                   /\ \E x \in executions :
                        Key(x) = <<i, c.attempt>> /\ x.stage = "begin"
              /\ c.kind = "mcp" => <<i, c.attempt>> \notin serving
  /\ c.answer = "done" /\ HasEffects(c) =>
       c.effects > 0 \/ c.answer = calls[i].answer
  /\ NeverAnswered(c) =>
       c.answer \in {NONE, "dropped"} \/ c.answer = calls[i].answer

\* What else such a step does: its agent may go on, executions may end, and
\* with the one that holds the manager the discovery it is at.
OthersFollow(i, c) ==
  /\ current' \in [Agents -> (1..MaxCalls) \cup {NONE}]
  /\ \A b \in Agents : current'[b] # NONE =>
       /\ current'[b] = current[b]
       /\ current[b] = i => c.status # "closed" \/ calls[i].agent # b
  /\ known' \in [Agents -> (SUBSET Servers) \cup {NONE}]
  /\ ~restarted => \A b \in Agents : known'[b] # NONE => known'[b] \subseteq clients
  /\ executions' \subseteq executions
  /\ \/ /\ UNCHANGED <<holder, connecting>>
        /\ \A x \in executions \ executions' : x.stage # "locked"
     \/ /\ holder' = NONE /\ connecting' = NONE
        /\ \A x \in executions' : x.stage # "locked"
  /\ UNCHANGED <<clients, captured, serving, cwd_exists, restarted>>
  /\ faults' \in Nat

\* The decisions of users, interrupts, timeouts of a discovery, reports and
\* retries: one call changes and executions may end, but none begins.
LEMMA CallChanges ==
  ASSUME ActivityInv,
         NEW i \in DOMAIN calls, NEW c \in Calls,
         calls' = [calls EXCEPT ![i] = c],
         Becomes(i, c), OthersFollow(i, c)
  PROVE  ActivityInv'
  <1> USE DEF ActivityInv, Becomes, OthersFollow
  <1>1. /\ calls' \in Seq(Calls) /\ Len(calls') <= MaxCalls
        /\ DOMAIN calls' = DOMAIN calls
        /\ calls'[i] = c
        /\ \A j \in DOMAIN calls : j # i => calls'[j] = calls[j]
    BY OneCallReplaced DEF TypeOK
  <1>2. \A j \in DOMAIN calls :
          /\ calls'[j].agent = calls[j].agent /\ calls'[j].kind = calls[j].kind
          /\ calls'[j].arg = calls[j].arg /\ calls'[j].decision = calls[j].decision
          /\ calls'[j].attempt = calls[j].attempt
          /\ calls'[j].effects = calls[j].effects
          /\ calls[j].granted => calls'[j].granted
          /\ \/ calls'[j].status = calls[j].status
             \/ calls'[j].status = "closed"
             \/ calls'[j].status = "eliciting" /\ Gated(calls'[j])
             \/ calls'[j].status = "queued" /\ Gated(calls'[j])
    BY <1>1
  <1>3. TypeOK'
    <2>1. \A a \in Agents : current'[a] # NONE =>
            /\ current'[a] \in DOMAIN calls'
            /\ calls'[current'[a]].agent = a
            /\ calls'[current'[a]].status # "closed"
      BY <1>1 DEF TypeOK
    <2>2. executions' \in SUBSET Executions
      BY DEF TypeOK
    <2>3. ASSUME NEW x \in executions'
          PROVE  x.call \in DOMAIN calls' /\ (x.stage = "locked" <=> holder' = Key(x))
      <3>1. /\ x \in executions /\ x.call \in DOMAIN calls /\ Key(x) # NONE
            /\ x.stage = "locked" <=> holder = Key(x)
        BY <2>3, ExecutionTypes
      <3> QED
        BY <1>1, <2>3, <3>1
    <2> QED
      BY <1>1, <2>1, <2>2, <2>3 DEF TypeOK, Key
  <1>4. AttemptsKnown'
    <2>2. holder' # NONE => \E x \in executions' : Key(x) = holder'
      <3> SUFFICES ASSUME holder' # NONE PROVE \E x \in executions' : Key(x) = holder'
        OBVIOUS
      <3>1. PICK x \in executions : Key(x) = holder
        BY DEF AttemptsKnown
      <3>2. x.stage = "locked"
        BY <3>1, ExecutionTypes
      <3> QED
        BY <3>1, <3>2
    <2>3. ASSUME NEW x \in executions'
          PROVE  /\ x.attempt <= calls'[x.call].attempt
                 /\ calls'[x.call].status = "queued" =>
                      x.attempt < calls'[x.call].attempt
                 /\ calls'[x.call].status # "asking"
      <3>1. /\ x \in Executions /\ x.call \in DOMAIN calls
            /\ calls[x.call] \in Calls
        BY ExecutionTypes
      <3>2. /\ x.attempt <= calls[x.call].attempt
            /\ calls[x.call].status = "queued" => x.attempt < calls[x.call].attempt
            /\ calls[x.call].status # "asking"
        BY DEF AttemptsKnown, Owner
      <3>3. CASE x.call # i
        BY <1>1, <3>1, <3>2, <3>3
      <3>4. CASE x.call = i
        <4>1. /\ calls'[x.call] = c /\ Key(x) = <<i, x.attempt>>
              /\ x.attempt \in Nat /\ c.attempt \in Nat
              /\ x.attempt <= c.attempt /\ c.status # "asking"
          BY <1>1, <3>1, <3>2, <3>4 DEF Key, Calls, Executions
        <4>2. c.status = "queued" => x.attempt # c.attempt
          BY <3>1, <3>2, <3>4, <4>1
        <4> QED
          BY <4>1, <4>2
      <3> QED
        BY <3>3, <3>4
    <2> QED
      BY <2>2, <2>3 DEF AttemptsKnown, Owner, Key
  <1>5. ServingKnown'
    <2> SUFFICES ASSUME NEW k \in serving
                 PROVE  /\ k[1] \in DOMAIN calls'
                        /\ calls'[k[1]].kind = "mcp"
                        /\ k[2] <= calls'[k[1]].attempt
                        /\ calls'[k[1]].status = "queued" => k[2] < calls'[k[1]].attempt
                        /\ calls'[k[1]].status # "asking"
                        /\ \A x \in executions' : Key(x) = k => x.stage # "begin"
      BY DEF ServingKnown, Key
    <2>1. /\ k[1] \in DOMAIN calls
          /\ calls[k[1]].kind = "mcp"
          /\ k[2] <= calls[k[1]].attempt
          /\ calls[k[1]].status = "queued" => k[2] < calls[k[1]].attempt
          /\ calls[k[1]].status # "asking"
          /\ \A x \in executions : Key(x) = k => x.stage # "begin"
      BY DEF ServingKnown
    <2>2. k \in Keys /\ k = <<k[1], k[2]>> /\ k[2] \in Nat
      BY DEF TypeOK, Keys
    <2>3. calls[k[1]].attempt \in Nat
      BY <2>1, CallTypes DEF Calls
    <2>4. CASE k[1] # i
      BY <1>1, <2>1, <2>4
    <2>5. CASE k[1] = i
      <3>1. /\ calls'[i] = c /\ c.kind = "mcp"
            /\ c.attempt = calls[i].attempt /\ k[2] <= c.attempt
            /\ c.status # "asking"
        BY <1>1, <2>1, <2>5
      <3>2. c.status = "queued" => k[2] < c.attempt
        <4>1. CASE calls[i].status = "queued"
          BY <2>1, <2>5, <3>1, <4>1
        <4>2. CASE calls[i].status # "queued" /\ c.status = "queued"
          <5>1. <<i, c.attempt>> \notin serving
            BY <2>1, <2>5, <3>1, <4>2
          <5>2. k[2] # c.attempt
            BY <2>2, <2>5, <5>1
          <5> QED
            BY <2>2, <2>3, <2>5, <3>1, <5>2
        <4> QED
          BY <4>1, <4>2
      <3> QED
        BY <1>1, <2>1, <2>5, <3>1, <3>2
    <2> QED
      BY <2>4, <2>5
  <1>7. Connected'
    <2>1. \A x \in executions' :
            x.stage = "locked" /\ calls'[x.call].kind = "discover" => connecting' # NONE
      BY <1>2, ExecutionTypes DEF Connected
    <2> QED
      BY <2>1 DEF Connected, Owner
  <1>8. CapturedNow'
    <2>1. \A x \in executions' : calls'[x.call].kind = Owner(x).kind
      BY <1>2, ExecutionTypes
    <2> QED
      BY <2>1 DEF CapturedNow, Owner, Key
  <1>9. Passed'
    <2>1. \A j \in DOMAIN calls' :
            /\ calls'[j].status = "asking" => calls'[j].decision = "Prompt"
            /\ calls'[j].status \in {"queued", "started", "eliciting"}
                 => Gated(calls'[j])
      BY <1>1, <1>2 DEF Passed, Gated
    <2>2. \A x \in executions' :
            /\ Gated(calls'[x.call])
            /\ NeverAnswered(calls'[x.call]) => x.stage = "begin"
      BY <1>2, ExecutionTypes DEF Passed, Gated, NeverAnswered
    <2> QED
      BY <2>1, <2>2 DEF Passed, Owner
  <1>10. EffectsCounted'
    <2>1. ASSUME NEW j \in DOMAIN calls, HasEffects(calls[j])
          PROVE  MayTakeEffect(j)' \subseteq MayTakeEffect(j)
      <3> SUFFICES ASSUME NEW k \in 0..calls[j].attempt,
                          \/ <<j, k>> \in serving
                          \/ \E x \in executions' : Key(x) = <<j, k>> /\ x.stage = "begin"
                          \/ calls'[j].status \in {"asking", "queued"}
                             /\ k = calls[j].attempt
                   PROVE  k \in MayTakeEffect(j)
        BY <1>2 DEF MayTakeEffect, Key
      <3>1. CASE <<j, k>> \in serving
        BY <3>1 DEF MayTakeEffect
      <3>2. CASE \E x \in executions' : Key(x) = <<j, k>> /\ x.stage = "begin"
        BY <3>2 DEF MayTakeEffect
      <3>3. CASE calls'[j].status \in {"asking", "queued"} /\ k = calls[j].attempt
        <4>1. CASE calls[j].status \in {"asking", "queued"}
          BY <3>3, <4>1 DEF MayTakeEffect
        <4>2. CASE calls[j].status \notin {"asking", "queued"}
          <5>1. j = i
            BY <1>1, <3>3, <4>2
          <5>2. \E x \in executions : Key(x) = <<j, k>> /\ x.stage = "begin"
            BY <1>1, <3>3, <4>2, <5>1, <2>1 DEF HasEffects
          <5> QED
            BY <5>2 DEF MayTakeEffect
        <4> QED
          BY <4>1, <4>2
      <3> QED
        BY <3>1, <3>2, <3>3
    <2> QED
      BY <1>1, <1>2, <1>3, <2>1, EffectsUntouched
  <1>11. DoneIsDone'
    <2>1. \A x \in executions' :
            /\ calls'[x.call].kind = Owner(x).kind
            /\ calls'[x.call].arg = Owner(x).arg
            /\ calls'[x.call].effects = Owner(x).effects
      BY <1>2, ExecutionTypes
    <2> QED
      BY <2>1 DEF DoneIsDone, Owner, Key, HasEffects
  <1>12. OnlyClearedRuns'
    <2> SUFFICES ASSUME NEW j \in DOMAIN calls
                 PROVE  /\ calls'[j].effects > 0 => Cleared(calls'[j])
                        /\ NeverAnswered(calls'[j]) => calls'[j].answer \in {NONE, "dropped"}
      BY <1>1 DEF OnlyClearedRuns, NeverAnswered
    <2>1. calls[j].effects > 0 => Cleared(calls[j])
      BY DEF OnlyClearedRuns
    <2>2. NeverAnswered(calls[j]) => calls[j].answer \in {NONE, "dropped"}
      BY DEF OnlyClearedRuns, NeverAnswered
    <2>3. calls'[j].effects > 0 => Cleared(calls'[j])
      BY <1>2, <2>1 DEF Cleared
    <2>4. NeverAnswered(calls'[j]) => calls'[j].answer \in {NONE, "dropped"}
      BY <1>1, <1>2, <2>2 DEF NeverAnswered
    <2> QED
      BY <2>3, <2>4
  <1>13. EffectsMatchAttempts'
    BY <1>1, <1>2 DEF EffectsMatchAttempts, HasEffects
  <1>14. ElicitationsArriveDuringTheirCall'
    BY DEF ElicitationsArriveDuringTheirCall, Key
  <1>15. DiscoveredToolsAreServed'
    BY DEF DiscoveredToolsAreServed
  <1> QED
    BY <1>3, <1>4, <1>5, <1>7, <1>8, <1>9, <1>10, <1>11, <1>12, <1>13,
       <1>14, <1>15

LEMMA CurrentTypes ==
  ASSUME TypeOK, NEW a \in Agents
  PROVE  /\ [current EXCEPT ![a] = NONE] \in [Agents -> (1..MaxCalls) \cup {NONE}]
         /\ [current EXCEPT ![a] = NONE][a] = NONE
         /\ \A b \in Agents : b # a => [current EXCEPT ![a] = NONE][b] = current[b]
         /\ current[a] # NONE =>
              /\ current[a] \in DOMAIN calls
              /\ calls[current[a]].agent = a
              /\ calls[current[a]].status # "closed"
  BY DEF TypeOK

\* A call is closed with an answer that is no report.
LEMMA CloseKeeps ==
  ASSUME ActivityInv,
         NEW i \in DOMAIN calls, NEW answer \in {"dropped", "failed"},
         answer = "failed" => calls[i].kind = "discover",
         calls' = Close(i, answer),
         current' = [current EXCEPT ![calls[i].agent] = NONE],
         \/ UNCHANGED known
         \/ known' = [known EXCEPT ![calls[i].agent] = {}],
         UNCHANGED <<executions, mcpVars, envVars>>
  PROVE  ActivityInv'
  <1> DEFINE c == [calls[i] EXCEPT !.status = "closed", !.answer = answer]
  <1>1. TypeOK /\ DiscoveredToolsAreServed
    BY DEF ActivityInv
  <1>2. calls[i] \in Calls
    BY <1>1, CallTypes
  <1>3. /\ c \in Calls /\ c.status = "closed" /\ c.answer = answer
        /\ c.agent = calls[i].agent /\ c.kind = calls[i].kind
        /\ c.arg = calls[i].arg /\ c.decision = calls[i].decision
        /\ c.attempt = calls[i].attempt /\ c.effects = calls[i].effects
        /\ c.granted = calls[i].granted
    BY <1>2 DEF Calls, Answers
  <1>4. calls' = [calls EXCEPT ![i] = c]
    BY DEF Close
  <1>5. /\ current' \in [Agents -> (1..MaxCalls) \cup {NONE}]
        /\ \A b \in Agents : current'[b] # NONE =>
             /\ current'[b] = current[b]
             /\ current[b] = i => c.status # "closed" \/ calls[i].agent # b
    BY <1>1, <1>2, CurrentTypes DEF Calls
  <1>6. /\ known' \in [Agents -> (SUBSET Servers) \cup {NONE}]
        /\ ~restarted => \A b \in Agents : known'[b] # NONE => known'[b] \subseteq clients
    BY <1>1, <1>2 DEF Calls, TypeOK, DiscoveredToolsAreServed
  <1>7. NeverAnswered(c) =>
          c.answer \in {NONE, "dropped"} \/ c.answer = calls[i].answer
    BY <1>3 DEF NeverAnswered
  <1>8. /\ UNCHANGED <<holder, connecting>>
        /\ UNCHANGED <<clients, captured, serving, cwd_exists, restarted>>
        /\ executions' \subseteq executions
        /\ \A x \in executions \ executions' : x.stage # "locked"
        /\ faults' \in Nat
    BY <1>1 DEF mcpVars, envVars, TypeOK
  <1>9. /\ c.answer = "done" /\ HasEffects(c) =>
             c.effects > 0 \/ c.answer = calls[i].answer
        /\ calls[i].granted => c.granted
    BY <1>3
  <1> HIDE DEF c
  <1>b. Becomes(i, c)
    BY <1>3, <1>4, <1>5, <1>6, <1>7, <1>8, <1>9 DEF Becomes
  <1>o. OthersFollow(i, c)
    BY <1>3, <1>4, <1>5, <1>6, <1>7, <1>8, <1>9 DEF OthersFollow
  <1> QED
    BY <1>3, <1>4, <1>5, <1>6, <1>7, <1>8, <1>9, <1>b, <1>o, CallChanges

\* Decide, Interrupt, ResolveElicitation, GiveUpDiscovery
LEMMA DecideKeeps ==
  ASSUME ActivityInv, NEW a \in Agents, NEW approved \in BOOLEAN,
         Decide(a, approved)
  PROVE  ActivityInv'
  <1> DEFINE i == current[a]
  <1>1. TypeOK /\ DiscoveredToolsAreServed /\ OnlyClearedRuns
    BY DEF ActivityInv
  <1>2. i \in DOMAIN calls /\ calls[i].agent = a /\ calls[i] \in Calls
    BY <1>1, CurrentTypes, CallTypes DEF Decide, Idle
  <1>3. CASE ~approved
    BY <1>2, <1>3, CloseKeeps DEF Decide
  <1>4. CASE approved
    <2> DEFINE c == [calls[i] EXCEPT !.status = "queued", !.granted = TRUE]
    <2>1. /\ calls[i].status = "asking"
          /\ calls' = [calls EXCEPT ![i] = c]
          /\ UNCHANGED <<current, known, executions, holder, connecting, clients,
                         captured, serving, cwd_exists, restarted, faults>>
      BY <1>4 DEF Decide, mcpVars, envVars
    <2>2. /\ c \in Calls /\ c.status = "queued" /\ c.granted
          /\ c.agent = calls[i].agent /\ c.kind = calls[i].kind
          /\ c.arg = calls[i].arg /\ c.decision = calls[i].decision
          /\ c.attempt = calls[i].attempt /\ c.effects = calls[i].effects
          /\ c.answer = calls[i].answer
      BY <1>2 DEF Calls
    <2>3. Gated(c)
      <3>1. calls[i].decision # "Forbidden"
        BY <1>2, <2>1 DEF ActivityInv, Passed
      <3> QED
        BY <2>2, <3>1 DEF Gated
    <2>4. /\ current' \in [Agents -> (1..MaxCalls) \cup {NONE}]
          /\ known' \in [Agents -> (SUBSET Servers) \cup {NONE}]
          /\ ~restarted => \A b \in Agents : known'[b] # NONE => known'[b] \subseteq clients
          /\ faults' \in Nat
      BY <1>1, <2>1 DEF TypeOK, DiscoveredToolsAreServed
    <2> HIDE DEF c
    <2>b. Becomes(i, c)
      BY <1>2, <2>1, <2>2, <2>3, <2>4 DEF Becomes
    <2>o. OthersFollow(i, c)
      BY <1>2, <2>1, <2>2, <2>3, <2>4 DEF OthersFollow
    <2> QED
      BY <1>2, <2>1, <2>2, <2>3, <2>4, <2>b, <2>o, CallChanges
  <1> QED
    BY <1>3, <1>4

LEMMA InterruptKeeps ==
  ASSUME ActivityInv, NEW a \in Agents, Interrupt(a)
  PROVE  ActivityInv'
  <1>1. /\ current[a] \in DOMAIN calls /\ calls[current[a]].agent = a
    BY CurrentTypes DEF Interrupt, Idle, ActivityInv
  <1> QED
    BY <1>1, CloseKeeps DEF Interrupt

LEMMA GiveUpDiscoveryKeeps ==
  ASSUME ActivityInv, NEW i \in 1..MaxCalls, GiveUpDiscovery(i)
  PROVE  ActivityInv'
  BY CloseKeeps DEF GiveUpDiscovery, Open

LEMMA ResolveElicitationKeeps ==
  ASSUME ActivityInv, NEW a \in Agents, ResolveElicitation(a)
  PROVE  ActivityInv'
  <1> DEFINE i == current[a]
             c == [calls[i] EXCEPT !.status = "closed"]
  <1>1. TypeOK /\ DiscoveredToolsAreServed
    BY DEF ActivityInv
  <1>2. i \in DOMAIN calls /\ calls[i].agent = a /\ calls[i] \in Calls
    BY <1>1, CurrentTypes, CallTypes DEF ResolveElicitation, Idle
  <1>3. /\ c \in Calls /\ c.status = "closed" /\ c.answer = calls[i].answer
        /\ c.agent = calls[i].agent /\ c.kind = calls[i].kind
        /\ c.arg = calls[i].arg /\ c.decision = calls[i].decision
        /\ c.attempt = calls[i].attempt /\ c.effects = calls[i].effects
        /\ c.granted = calls[i].granted
    BY <1>2 DEF Calls
  <1>4. /\ calls' = [calls EXCEPT ![i] = c]
        /\ UNCHANGED <<holder, connecting>>
        /\ UNCHANGED <<clients, captured, serving, cwd_exists, restarted>>
        /\ UNCHANGED <<known, executions, faults>>
    BY DEF ResolveElicitation, mcpVars, envVars
  <1>5. /\ current' \in [Agents -> (1..MaxCalls) \cup {NONE}]
        /\ \A b \in Agents : current'[b] # NONE =>
             /\ current'[b] = current[b]
             /\ current[b] = i => c.status # "closed" \/ calls[i].agent # b
    BY <1>1, <1>2, CurrentTypes DEF ResolveElicitation
  <1>6. /\ known' \in [Agents -> (SUBSET Servers) \cup {NONE}]
        /\ ~restarted => \A b \in Agents : known'[b] # NONE => known'[b] \subseteq clients
        /\ executions' \subseteq executions
        /\ \A x \in executions \ executions' : x.stage # "locked"
        /\ faults' \in Nat
    BY <1>1, <1>4 DEF TypeOK, DiscoveredToolsAreServed
  <1>7. /\ calls[i].granted => c.granted
        /\ c.answer = "done" /\ HasEffects(c) =>
             c.effects > 0 \/ c.answer = calls[i].answer
        /\ NeverAnswered(c) =>
             c.answer \in {NONE, "dropped"} \/ c.answer = calls[i].answer
    BY <1>3
  <1> HIDE DEF c, i
  <1>b. Becomes(i, c)
    BY <1>2, <1>3, <1>4, <1>5, <1>6, <1>7 DEF Becomes
  <1>o. OthersFollow(i, c)
    BY <1>2, <1>3, <1>4, <1>5, <1>6, <1>7 DEF OthersFollow
  <1> QED
    BY <1>2, <1>3, <1>4, <1>5, <1>6, <1>7, <1>b, <1>o, CallChanges

\* The execution that reports is over: the call gets its answer, if the server
\* still waits for it.
LEMMA ReportKeeps ==
  ASSUME ActivityInv, NEW x \in executions, Report(x)
  PROVE  ActivityInv'
  <1> DEFINE i == x.call
             closed == x.result.elicitation = NONE
             new == [calls[i] EXCEPT !.status = IF closed THEN "closed" ELSE "eliciting",
                                     !.answer = x.result.code]
             c == IF IsCurrent(x) THEN new ELSE calls[i]
  <1>1. TypeOK /\ DiscoveredToolsAreServed /\ Passed /\ DoneIsDone /\ Connected
    BY DEF ActivityInv
  <1>2. /\ i \in DOMAIN calls /\ calls[i] \in Calls /\ Owner(x) = calls[i]
        /\ x \in Executions /\ x.stage = "report"
    BY <1>1, ExecutionTypes DEF Report
  <1>3. /\ new \in Calls
        /\ new.status = IF closed THEN "closed" ELSE "eliciting"
        /\ new.answer = x.result.code
        /\ new.agent = calls[i].agent /\ new.kind = calls[i].kind
        /\ new.arg = calls[i].arg /\ new.decision = calls[i].decision
        /\ new.attempt = calls[i].attempt /\ new.effects = calls[i].effects
        /\ new.granted = calls[i].granted
    BY <1>2 DEF Calls, Executions
  <1>4. /\ UNCHANGED <<holder, connecting>>
        /\ UNCHANGED <<clients, captured, serving, cwd_exists, restarted>>
        /\ UNCHANGED faults
        /\ executions' = executions \ {x}
    BY DEF Report, mcpVars, envVars
  <1>5. /\ executions' \subseteq executions
        /\ \A y \in executions \ executions' : y.stage # "locked"
        /\ faults' \in Nat
    BY <1>1, <1>2, <1>4 DEF TypeOK
  <1>6. CASE IsCurrent(x)
    <2>1. calls' = [calls EXCEPT ![i] = new]
      BY <1>6 DEF Report, Owner
    <2>2. current' = IF closed THEN [current EXCEPT ![calls[i].agent] = NONE] ELSE current
      BY <1>6 DEF Report, Owner
    <2>3. known' = IF calls[i].kind = "discover"
                   THEN [known EXCEPT ![calls[i].agent] = x.result.found] ELSE known
      BY <1>6 DEF Report, Owner
    <2>4. /\ current' \in [Agents -> (1..MaxCalls) \cup {NONE}]
          /\ \A b \in Agents : current'[b] # NONE =>
               /\ current'[b] = current[b]
               /\ current[b] = i => new.status # "closed" \/ calls[i].agent # b
      <3>1. calls[i].agent \in Agents
        BY <1>2 DEF Calls
      <3>2. CASE closed
        BY <1>1, <2>2, <3>1, <3>2, CurrentTypes
      <3>3. CASE ~closed
        BY <1>1, <1>3, <2>2, <3>3 DEF TypeOK
      <3> QED
        BY <3>2, <3>3
    <2>5. /\ known' \in [Agents -> (SUBSET Servers) \cup {NONE}]
          /\ ~restarted => \A b \in Agents : known'[b] # NONE => known'[b] \subseteq clients
      <3>1. /\ x.result.found \in SUBSET Servers
            /\ ~restarted => x.result.found \subseteq clients
        BY <1>1, <1>2 DEF Executions, Connected
      <3> QED
        BY <1>1, <2>3, <3>1 DEF TypeOK, DiscoveredToolsAreServed
    <2>6. new.status = "closed" \/ (new.status = "eliciting" /\ Gated(new))
      BY <1>1, <1>2, <1>3 DEF Passed, Gated
    <2>7. new.answer = "done" /\ HasEffects(new) =>
            new.effects > 0 \/ new.answer = calls[i].answer
      BY <1>1, <1>2, <1>3 DEF DoneIsDone, HasEffects
    <2>8. NeverAnswered(new) =>
            new.answer \in {NONE, "dropped"} \/ new.answer = calls[i].answer
      BY <1>1, <1>2, <1>3 DEF Passed, NeverAnswered
    <2>9. calls[i].granted => new.granted
      BY <1>3
    <2> HIDE DEF new, i, closed
    <2>b. Becomes(i, new)
      BY <1>2, <1>3, <1>4, <1>5, <2>9, <2>1, <2>4, <2>5, <2>6, <2>7, <2>8 DEF Becomes
    <2>o. OthersFollow(i, new)
      BY <1>2, <1>3, <1>4, <1>5, <2>9, <2>1, <2>4, <2>5, <2>6, <2>7, <2>8 DEF OthersFollow
    <2> QED
      BY <1>2, <1>3, <1>4, <1>5, <2>9, <2>1, <2>4, <2>5, <2>6, <2>7, <2>8, <2>b, <2>o, CallChanges
  <1>7. CASE ~IsCurrent(x)
    <2>1. /\ calls' = [calls EXCEPT ![i] = calls[i]]
          /\ current' \in [Agents -> (1..MaxCalls) \cup {NONE}]
          /\ \A b \in Agents : current'[b] # NONE =>
               /\ current'[b] = current[b]
               /\ current[b] = i => calls[i].status # "closed" \/ calls[i].agent # b
          /\ known' \in [Agents -> (SUBSET Servers) \cup {NONE}]
          /\ ~restarted => \A b \in Agents : known'[b] # NONE => known'[b] \subseteq clients
      BY <1>1, <1>7 DEF Report, TypeOK, DiscoveredToolsAreServed
    <2> HIDE DEF i
    <2>b. Becomes(i, calls[i])
      BY <1>2, <1>4, <1>5, <2>1 DEF Becomes
    <2>o. OthersFollow(i, calls[i])
      BY <1>2, <1>4, <1>5, <2>1 DEF OthersFollow
    <2> QED
      BY <1>2, <1>4, <1>5, <2>1, <2>b, <2>o, CallChanges
  <1> QED
    BY <1>6, <1>7

\* A retry: what becomes of the manager depends on the action it is part of.
LEMMA RetryKeeps ==
  ASSUME ActivityInv, NEW x \in executions, Retry(x),
         \/ x.stage = "begin"
         \/ x.stage = "locked" /\ Owner(x).kind = "discover",
         \/ /\ UNCHANGED <<holder, connecting>>
            /\ x.stage = "begin"
         \/ /\ holder' = NONE /\ connecting' = NONE
            /\ x.stage = "locked",
         UNCHANGED <<clients, captured, serving, cwd_exists, restarted>>,
         faults' \in Nat
  PROVE  ActivityInv'
  <1> DEFINE i == x.call
             c == [calls[i] EXCEPT !.status = "queued"]
  <1>1. /\ TypeOK /\ DiscoveredToolsAreServed /\ Passed /\ AttemptsKnown
        /\ ServingKnown
    BY DEF ActivityInv
  <1>2. /\ i \in DOMAIN calls /\ calls[i] \in Calls /\ Owner(x) = calls[i]
        /\ x \in Executions
        /\ x.stage = "locked" => holder = Key(x)
    BY <1>1, ExecutionTypes
  <1>3. /\ executions' = executions \ {x}
        /\ UNCHANGED <<current, known>>
    BY DEF Retry
  <1>4. /\ current' \in [Agents -> (1..MaxCalls) \cup {NONE}]
        /\ \A b \in Agents : current'[b] # NONE =>
             /\ current'[b] = current[b]
             /\ current[b] = i => calls[i].status # "closed" \/ calls[i].agent # b
        /\ known' \in [Agents -> (SUBSET Servers) \cup {NONE}]
        /\ ~restarted => \A b \in Agents : known'[b] # NONE => known'[b] \subseteq clients
        /\ executions' \subseteq executions
    BY <1>1, <1>3 DEF TypeOK, DiscoveredToolsAreServed
  <1>5. \A y \in executions' : Key(y) # Key(x)
    BY <1>1, <1>3 DEF AttemptsKnown
  <1>6. \/ /\ UNCHANGED <<holder, connecting>>
           /\ \A y \in executions \ executions' : y.stage # "locked"
        \/ /\ holder' = NONE /\ connecting' = NONE
           /\ \A y \in executions' : y.stage # "locked"
    <2>1. CASE UNCHANGED <<holder, connecting>> /\ x.stage = "begin"
      BY <1>3, <2>1
    <2>2. CASE holder' = NONE /\ connecting' = NONE /\ x.stage = "locked"
      <3>1. \A y \in executions' : y.stage # "locked"
        BY <1>1, <1>2, <1>3, <1>5, <2>2, ExecutionTypes
      <3> QED
        BY <2>2, <3>1
    <2> QED
      BY <2>1, <2>2
  <1>7. CASE ~IsCurrent(x)
    <2>1. calls' = [calls EXCEPT ![i] = calls[i]]
      BY <1>1, <1>7 DEF Retry, TypeOK
    <2> HIDE DEF i
    <2>b. Becomes(i, calls[i])
      BY <1>2, <1>4, <1>6, <2>1 DEF Becomes
    <2>o. OthersFollow(i, calls[i])
      BY <1>2, <1>4, <1>6, <2>1 DEF OthersFollow
    <2> QED
      BY <1>2, <1>4, <1>6, <2>1, <2>b, <2>o, CallChanges
  <1>8. CASE IsCurrent(x)
    <2>1. /\ c \in Calls /\ c.status = "queued" /\ c.answer = calls[i].answer
          /\ c.agent = calls[i].agent /\ c.kind = calls[i].kind
          /\ c.arg = calls[i].arg /\ c.decision = calls[i].decision
          /\ c.attempt = calls[i].attempt /\ c.effects = calls[i].effects
          /\ c.granted = calls[i].granted
      BY <1>2 DEF Calls
    <2>2. calls' = [calls EXCEPT ![i] = c]
      BY <1>8 DEF Retry
    <2>3. Key(x) = <<i, c.attempt>>
      BY <1>2, <1>8, <2>1 DEF IsCurrent, Key
    <2>4. Gated(c)
      BY <1>1, <1>2, <2>1 DEF Passed, Gated
    <2>5. \A y \in executions' : Key(y) # <<i, c.attempt>>
      BY <1>5, <2>3
    <2>6. HasEffects(c) \/ c.kind = "mcp" =>
            /\ x.stage = "begin"
            /\ <<i, c.attempt>> \notin serving
      <3>1. HasEffects(c) \/ c.kind = "mcp" => x.stage = "begin"
        BY <1>2, <2>1 DEF HasEffects, ExecKinds
      <3> QED
        BY <1>1, <2>3, <3>1 DEF ServingKnown
    <2>7. /\ HasEffects(c) =>
               /\ <<i, c.attempt>> \notin serving
               /\ \E y \in executions : Key(y) = <<i, c.attempt>> /\ y.stage = "begin"
          /\ c.kind = "mcp" => <<i, c.attempt>> \notin serving
      BY <2>3, <2>6
    <2>8. \A b \in Agents : current'[b] # NONE =>
             /\ current'[b] = current[b]
             /\ current[b] = i => c.status # "closed" \/ calls[i].agent # b
      BY <1>4, <2>1
    <2>9. /\ calls[i].granted => c.granted
          /\ c.answer = "done" /\ HasEffects(c) =>
               c.effects > 0 \/ c.answer = calls[i].answer
          /\ NeverAnswered(c) =>
               c.answer \in {NONE, "dropped"} \/ c.answer = calls[i].answer
      BY <2>1
    <2> HIDE DEF i, c
    <2>b. Becomes(i, c)
      BY <1>2, <1>4, <1>6, <2>1, <2>2, <2>4, <2>5, <2>7, <2>8, <2>9 DEF Becomes
    <2>o. OthersFollow(i, c)
      BY <1>2, <1>4, <1>6, <2>1, <2>2, <2>4, <2>5, <2>7, <2>8, <2>9 DEF OthersFollow
    <2> QED
      BY <1>2, <1>4, <1>6, <2>1, <2>2, <2>4, <2>5, <2>7, <2>8, <2>9, <2>b, <2>o, CallChanges
  <1> QED
    BY <1>7, <1>8

-----------------------------------------------------------------------------
(* An execution goes on                                                    *)

Results == [code : Answers \cup {NONE}, elicitation : Captures \cup {NONE},
            found : SUBSET Servers]

\* The calls when one more effect of call i is there.
Affected(i) == [calls EXCEPT ![i].effects = @ + 1]

LEMMA OneMoreEffect ==
  ASSUME TypeOK, NEW i \in DOMAIN calls
  PROVE  /\ Affected(i) \in Seq(Calls)
         /\ Len(Affected(i)) = Len(calls)
         /\ DOMAIN Affected(i) = DOMAIN calls
         /\ Affected(i)[i].effects = calls[i].effects + 1
         /\ \A j \in DOMAIN calls :
              /\ j # i => Affected(i)[j] = calls[j]
              /\ Affected(i)[j].agent = calls[j].agent
              /\ Affected(i)[j].kind = calls[j].kind
              /\ Affected(i)[j].arg = calls[j].arg
              /\ Affected(i)[j].decision = calls[j].decision
              /\ Affected(i)[j].status = calls[j].status
              /\ Affected(i)[j].granted = calls[j].granted
              /\ Affected(i)[j].attempt = calls[j].attempt
              /\ Affected(i)[j].answer = calls[j].answer
              /\ Affected(i)[j].effects >= calls[j].effects
  <1> DEFINE c == [calls[i] EXCEPT !.effects = @ + 1]
  <1>1. /\ calls \in Seq(Calls) /\ calls[i] \in Calls
        /\ \A j \in DOMAIN calls : calls[j] \in Calls
    BY CallTypes DEF TypeOK
  <1>a. calls[i].effects \in Nat /\ calls[i].effects + 1 \in Nat
    BY <1>1 DEF Calls
  <1>b. c = [calls[i] EXCEPT !.effects = calls[i].effects + 1]
    BY <1>1 DEF Calls
  <1>2. /\ c \in Calls
        /\ c.agent = calls[i].agent /\ c.kind = calls[i].kind
        /\ c.arg = calls[i].arg /\ c.decision = calls[i].decision
        /\ c.status = calls[i].status /\ c.granted = calls[i].granted
        /\ c.attempt = calls[i].attempt /\ c.answer = calls[i].answer
        /\ c.effects = calls[i].effects + 1 /\ calls[i].effects \in Nat
    BY <1>1, <1>a, <1>b DEF Calls
  <1>3. Affected(i) = [calls EXCEPT ![i] = c]
    BY DEF Affected
  <1>4. \A j \in DOMAIN calls : calls[j].effects \in Nat
    BY <1>1 DEF Calls
  <1> HIDE DEF c
  <1>5. /\ Affected(i) \in Seq(Calls)
        /\ Len(Affected(i)) = Len(calls)
        /\ DOMAIN Affected(i) = DOMAIN calls
        /\ Affected(i)[i] = c
        /\ \A j \in DOMAIN calls : j # i => Affected(i)[j] = calls[j]
    BY <1>1, <1>2, <1>3, OneCallReplaced
  <1> QED
    BY <1>2, <1>4, <1>5

\* An execution takes the manager, or comes to its report, and the tool may
\* take effect on the way.
LEMMA MoveKeeps ==
  ASSUME ActivityInv, NEW x \in executions,
         NEW stage \in {"locked", "report"}, NEW result \in Results,
         NEW e \in BOOLEAN,
         Goes(x, stage, result),
         calls' = IF e THEN Affected(x.call) ELSE calls,
         e => /\ x.stage = "begin" /\ stage = "report"
              /\ Owner(x).kind \in ExecKinds /\ Cleared(Owner(x)),
         ~NeverAnswered(Owner(x)),
         HasEffects(Owner(x)) /\ result.code = "done" => e \/ Owner(x).effects > 0,
         result.elicitation # NONE => result.elicitation.during = Key(x),
         ~restarted => result.found \subseteq clients,
         \* the manager
         \/ /\ x.stage = "begin" /\ stage = "report"
            /\ UNCHANGED <<holder, connecting, captured, serving>>
         \/ /\ x.stage = "locked" /\ stage = "report"
            /\ holder' = NONE /\ connecting' \in {NONE, connecting}
            /\ captured' \in {NONE, captured} /\ UNCHANGED serving
         \/ /\ x.stage = "begin" /\ stage = "locked"
            /\ holder = NONE /\ holder' = Key(x)
            /\ \/ /\ Owner(x).kind = "mcp"
                  /\ captured' = NONE /\ UNCHANGED connecting
                  /\ serving' = IF Owner(x).arg \in clients
                                THEN serving \cup {Key(x)} ELSE serving
               \/ /\ Owner(x).kind = "discover"
                  /\ UNCHANGED <<captured, serving>>
                  /\ connecting' = [todo |-> Servers, found |-> {}],
         UNCHANGED <<current, known, clients, restarted>>,
         cwd_exists' \in BOOLEAN, faults' \in Nat
  PROVE  ActivityInv'
  <1> DEFINE y == [x EXCEPT !.stage = stage, !.result = result]
             i == x.call
  <1> USE DEF ActivityInv
  <1>0. /\ x \in Executions /\ i \in DOMAIN calls /\ Owner(x) = calls[i]
        /\ calls[i] \in Calls /\ Key(x) \in Keys /\ Key(x) # NONE
        /\ x.stage = "locked" <=> holder = Key(x)
    BY ExecutionTypes
  <1>1. /\ executions' = (executions \ {x}) \cup {y}
        /\ y \in Executions /\ y.call = x.call /\ y.attempt = x.attempt
        /\ y.stage = stage /\ y.result = result
    BY <1>0 DEF Goes, Executions, Results
  <1>2. /\ calls' \in Seq(Calls) /\ Len(calls') = Len(calls)
        /\ DOMAIN calls' = DOMAIN calls
        /\ \A j \in DOMAIN calls :
             /\ j # i => calls'[j] = calls[j]
             /\ calls'[j].agent = calls[j].agent
             /\ calls'[j].kind = calls[j].kind
             /\ calls'[j].arg = calls[j].arg
             /\ calls'[j].decision = calls[j].decision
             /\ calls'[j].status = calls[j].status
             /\ calls'[j].granted = calls[j].granted
             /\ calls'[j].attempt = calls[j].attempt
             /\ calls'[j].answer = calls[j].answer
             /\ calls'[j].effects >= calls[j].effects
        /\ calls'[i].effects = IF e THEN calls[i].effects + 1 ELSE calls[i].effects
        /\ \A j \in DOMAIN calls : calls[j].effects \in Nat /\ calls[j].attempt \in Nat
    <2>1. \A j \in DOMAIN calls : calls[j].effects \in Nat /\ calls[j].attempt \in Nat
      BY CallTypes DEF Calls
    <2>2. CASE e
      BY <1>0, <2>1, <2>2, OneMoreEffect
    <2>3. CASE ~e
      BY <1>0, <2>1, <2>3 DEF TypeOK
    <2> QED
      BY <2>2, <2>3
  <1>3. Key(y) = Key(x)
    BY <1>1 DEF Key
  <1>4. \A z \in executions : z.stage = "locked" /\ x.stage = "locked" => z = x
    BY ExecutionTypes DEF AttemptsKnown
  <1>5. \A z \in executions : holder = NONE => z.stage # "locked"
    BY ExecutionTypes
  <1>k. \A z \in executions : z # x => Key(z) # Key(x)
    BY DEF AttemptsKnown
  <1>d. \A z \in executions :
          /\ z.call \in DOMAIN calls /\ Owner(z) = calls[z.call]
          /\ z.stage = "locked" <=> holder = Key(z)
          /\ Key(z) # NONE
    BY ExecutionTypes
  <1> HIDE DEF y, i
  <1>6. TypeOK'
    <2>1. executions' \in SUBSET Executions
      BY <1>1 DEF TypeOK
    <2>2. ASSUME NEW z \in executions'
          PROVE  z.call \in DOMAIN calls' /\ (z.stage = "locked" <=> holder' = Key(z))
      <3>1. CASE z = y
        BY <1>0, <1>1, <1>2, <1>3, <3>1 DEF i
      <3>2. CASE z # y
        <4>1. z \in executions /\ z # x
          BY <1>1, <3>2
        <4> QED
          BY <1>0, <1>2, <1>4, <1>5, <1>d, <1>k, <4>1
      <3> QED
        BY <3>1, <3>2
    <2>3. /\ holder' \in Keys \cup {NONE}
          /\ captured' \in Captures \cup {NONE}
          /\ serving' \in SUBSET Keys
          /\ connecting' \in Connections \cup {NONE}
      BY <1>0 DEF TypeOK, Connections
    <2>4. /\ current' \in [Agents -> (1..MaxCalls) \cup {NONE}]
          /\ \A a \in Agents : current'[a] # NONE =>
               /\ current'[a] \in DOMAIN calls'
               /\ calls'[current'[a]].agent = a
               /\ calls'[current'[a]].status # "closed"
      BY <1>2 DEF TypeOK
    <2> QED
      BY <1>2, <2>1, <2>2, <2>3, <2>4 DEF TypeOK, Key
  <1>7. AttemptsKnown'
    <2>1. holder' # NONE => \E z \in executions' : Key(z) = holder'
      <3>1. CASE holder' = Key(x)
        BY <1>1, <1>3, <3>1
      <3>2. CASE holder' = holder /\ x.stage = "begin" /\ holder # NONE
        <4>1. PICK z \in executions : Key(z) = holder
          BY <3>2 DEF AttemptsKnown
        <4>2. z # x
          BY <1>0, <3>2, <4>1
        <4> QED
          BY <1>1, <3>2, <4>1, <4>2
      <3> QED
        BY <3>1, <3>2
    <2>2. \A z, w \in executions' : Key(z) = Key(w) => z = w
      BY <1>1, <1>3 DEF AttemptsKnown
    <2>3. ASSUME NEW z \in executions'
          PROVE  /\ z.attempt <= calls'[z.call].attempt
                 /\ calls'[z.call].status = "queued" =>
                      z.attempt < calls'[z.call].attempt
                 /\ calls'[z.call].status # "asking"
      <3>1. PICK w \in executions : w.call = z.call /\ w.attempt = z.attempt
        BY <1>1
      <3> QED
        BY <1>2, <1>d, <3>1 DEF AttemptsKnown
    <2> QED
      BY <2>1, <2>2, <2>3 DEF AttemptsKnown, Owner, Key
  <1>8. ServingKnown'
    <2> SUFFICES ASSUME NEW k \in serving'
                 PROVE  /\ k[1] \in DOMAIN calls'
                        /\ calls'[k[1]].kind = "mcp"
                        /\ k[2] <= calls'[k[1]].attempt
                        /\ calls'[k[1]].status = "queued" => k[2] < calls'[k[1]].attempt
                        /\ calls'[k[1]].status # "asking"
                        /\ \A z \in executions' : Key(z) = k => z.stage # "begin"
      BY DEF ServingKnown, Key
    <2>1. CASE k \in serving
      <3>1. \A z \in executions' : Key(z) = k => z.stage # "begin"
        BY <1>1, <2>1 DEF ServingKnown
      <3> QED
        BY <1>2, <2>1, <3>1 DEF ServingKnown
    <2>2. CASE k \notin serving
      <3>1. k = Key(x) /\ calls[i].kind = "mcp" /\ stage = "locked"
        BY <1>0, <2>2
      <3>2. k[1] = i /\ k[2] = x.attempt
        BY <3>1 DEF Key, i
      <3>3. \A z \in executions' : Key(z) = k => z.stage # "begin"
        BY <1>1, <1>k, <3>1
      <3> QED
        BY <1>0, <1>2, <3>1, <3>2, <3>3 DEF AttemptsKnown
    <2> QED
      BY <2>1, <2>2
  <1>10. Connected'
    <2>1. \A z \in executions' :
            z.stage = "locked" /\ calls'[z.call].kind = "discover" => connecting' # NONE
      <3> SUFFICES ASSUME NEW z \in executions', z.stage = "locked",
                          calls'[z.call].kind = "discover"
                   PROVE  connecting' # NONE
        OBVIOUS
      <3>1. CASE z = y
        <4>1. calls[i].kind = "discover" /\ stage = "locked"
          BY <1>0, <1>1, <1>2, <3>1 DEF i
        <4>2. connecting' = [todo |-> Servers, found |-> {}]
          BY <1>0, <4>1
        <4> QED
          BY <4>2, ConstantsAssumption DEF Connections
      <3>2. CASE z # y
        <4>1. z \in executions /\ z # x
          BY <1>1, <3>2
        <4>2. x.stage = "begin" /\ stage = "report"
          BY <1>4, <1>5, <4>1
        <4> QED
          BY <1>2, <1>d, <4>1, <4>2 DEF Connected
      <3> QED
        BY <3>1, <3>2
    <2>2. ~restarted /\ connecting' # NONE => connecting'.found \subseteq clients
      BY DEF Connected
    <2>3. ~restarted => \A z \in executions' : z.result.found \subseteq clients
      BY <1>1 DEF Connected
    <2> QED
      BY <2>1, <2>2, <2>3 DEF Connected, Owner
  <1>11. CapturedNow'
    <2> SUFFICES ASSUME NEW z \in executions', z.stage = "locked",
                        calls'[z.call].kind = "mcp", captured' # NONE
                 PROVE  captured'.during = Key(z)
      BY DEF CapturedNow, Owner, Key
    <2>1. CASE z = y
      BY <1>0, <1>1, <1>2, <2>1 DEF i
    <2>2. CASE z # y
      <3>1. z \in executions /\ z # x
        BY <1>1, <2>2
      <3>2. x.stage = "begin" /\ stage = "report"
        BY <1>4, <1>5, <3>1
      <3> QED
        BY <1>2, <1>d, <3>1, <3>2 DEF CapturedNow
    <2> QED
      BY <2>1, <2>2
  <1>12. Passed'
    <2>1. \A z \in executions' :
            /\ Gated(calls'[z.call])
            /\ NeverAnswered(calls'[z.call]) => z.stage = "begin"
      <3> SUFFICES ASSUME NEW z \in executions'
                   PROVE  /\ Gated(calls'[z.call])
                          /\ NeverAnswered(calls'[z.call]) => z.stage = "begin"
        OBVIOUS
      <3>1. CASE z = y
        BY <1>0, <1>1, <1>2, <3>1 DEF i, Passed, Gated, NeverAnswered
      <3>2. CASE z # y
        BY <1>1, <1>2, <1>d, <3>2 DEF Passed, Gated, NeverAnswered
      <3> QED
        BY <3>1, <3>2
    <2>2. \A j \in DOMAIN calls' :
            /\ calls'[j].status = "asking" => calls'[j].decision = "Prompt"
            /\ calls'[j].status \in {"queued", "started", "eliciting"}
                 => Gated(calls'[j])
      BY <1>2 DEF Passed, Gated
    <2> QED
      BY <2>1, <2>2 DEF Passed, Owner
  <1>13. EffectsCounted'
    <2>1. ASSUME NEW j \in DOMAIN calls, HasEffects(calls[j])
          PROVE  MayTakeEffect(j)' \subseteq
                   MayTakeEffect(j) \ (IF j = i /\ e THEN {x.attempt} ELSE {})
      <3>1. \A k : Key(x) = <<j, k>> => j = i /\ k = x.attempt
        BY DEF Key, i
      <3> SUFFICES ASSUME NEW k \in 0..calls[j].attempt,
                          \/ <<j, k>> \in serving'
                          \/ \E z \in executions' : Key(z) = <<j, k>> /\ z.stage = "begin"
                          \/ calls[j].status \in {"asking", "queued"}
                             /\ k = calls[j].attempt
                   PROVE  k \in MayTakeEffect(j) /\ (j = i /\ e => k # x.attempt)
        BY <1>2 DEF MayTakeEffect, Key
      <3>2. CASE <<j, k>> \in serving'
        <4>1. CASE <<j, k>> \in serving
          <5>1. j = i /\ e => k # x.attempt
            BY <1>0, <4>1 DEF ServingKnown, ExecKinds
          <5> QED
            BY <4>1, <5>1 DEF MayTakeEffect
        <4>2. CASE <<j, k>> \notin serving
          <5>1. Key(x) = <<j, k>> /\ x.stage = "begin" /\ stage = "locked"
            BY <3>2, <4>2
          <5> QED
            BY <5>1 DEF MayTakeEffect
        <4> QED
          BY <4>1, <4>2
      <3>3. CASE \E z \in executions' : Key(z) = <<j, k>> /\ z.stage = "begin"
        <4>1. PICK z \in executions' : Key(z) = <<j, k>> /\ z.stage = "begin"
          BY <3>3
        <4>2. z \in executions /\ z # x
          BY <1>1, <4>1
        <4>3. j = i => k # x.attempt
          BY <1>k, <4>1, <4>2 DEF Key, i
        <4> QED
          BY <4>1, <4>2, <4>3 DEF MayTakeEffect
      <3>4. CASE calls[j].status \in {"asking", "queued"} /\ k = calls[j].attempt
        <4>1. j = i => k # x.attempt
          BY <1>0, <1>2, <3>4 DEF AttemptsKnown, Executions
        <4> QED
          BY <3>4, <4>1 DEF MayTakeEffect
      <3> QED
        BY <3>2, <3>3, <3>4
    <2>2. CASE ~e
      <3>1. \A j \in DOMAIN calls :
              /\ calls'[j].kind = calls[j].kind
              /\ calls'[j].effects = calls[j].effects
              /\ calls'[j].attempt = calls[j].attempt
              /\ HasEffects(calls[j]) => MayTakeEffect(j)' \subseteq MayTakeEffect(j)
        BY <1>2, <2>1, <2>2
      <3> QED
        BY <1>2, <1>6, <3>1, EffectsUntouched
    <2>3. CASE e
      <3>1. x.attempt \in MayTakeEffect(i)
        <4>1. x.attempt \in 0..calls[i].attempt
          BY <1>0, <1>2 DEF AttemptsKnown, Executions
        <4>2. Key(x) = <<i, x.attempt>>
          BY DEF Key, i
        <4> QED
          BY <2>3, <4>1, <4>2 DEF MayTakeEffect
      <3>2. HasEffects(calls[i])
        BY <1>0, <2>3 DEF HasEffects
      <3>3. /\ Cardinality(MayTakeEffect(i)') \in Nat
            /\ calls'[i].effects + Cardinality(MayTakeEffect(i)') <= calls'[i].attempt + 1
        <4>1. MayTakeEffect(i)' \subseteq (MayTakeEffect(i) \cup {}) \ {x.attempt}
          BY <1>0, <2>1, <2>3, <3>2
        <4> QED
          BY <1>0, <1>2, <1>6, <2>3, <3>1, <3>2, <4>1, EffectsStayCounted
      <3>4. ASSUME NEW j \in DOMAIN calls, HasEffects(calls[j]), j # i
            PROVE  /\ Cardinality(MayTakeEffect(j)') \in Nat
                   /\ calls'[j].effects + Cardinality(MayTakeEffect(j)')
                        <= calls'[j].attempt + 1
        <4>1. MayTakeEffect(j)' \subseteq (MayTakeEffect(j) \cup {}) \ {}
          BY <2>1, <3>4
        <4> QED
          BY <1>2, <1>6, <3>4, <4>1, EffectsStayCounted
      <3>5. ASSUME NEW j \in DOMAIN calls, ~HasEffects(calls[j])
            PROVE  calls'[j].effects = 0
        BY <1>2, <3>2, <3>5 DEF EffectsCounted
      <3>6. \A j \in DOMAIN calls : HasEffects(calls'[j]) <=> HasEffects(calls[j])
        BY <1>2 DEF HasEffects
      <3> QED
        BY <1>2, <3>3, <3>4, <3>5, <3>6, Zenon DEF EffectsCounted
    <2> QED
      BY <2>2, <2>3
  <1>14. DoneIsDone'
    <2> SUFFICES ASSUME NEW z \in executions', HasEffects(calls'[z.call])
                 PROVE  /\ z.result.code = "done" => calls'[z.call].effects > 0
                        /\ z.stage = "locked" /\ calls'[z.call].arg \in clients
                           /\ Key(z) \notin serving' => calls'[z.call].effects > 0
      BY DEF DoneIsDone, Owner, Key
    <2>1. CASE z = y
      <3>1. /\ z.call = i /\ HasEffects(calls[i]) /\ z.result = result
            /\ z.stage = stage /\ Key(z) = Key(x)
        BY <1>0, <1>1, <1>2, <1>3, <2>1 DEF i, HasEffects
      <3>2. z.result.code = "done" => calls'[z.call].effects > 0
        BY <1>0, <1>2, <3>1
      <3>3. z.stage = "locked" => calls[i].kind = "mcp"
        BY <1>0, <3>1 DEF HasEffects, ExecKinds
      <3>4. z.stage = "locked" => calls[i].arg \notin clients \/ Key(z) \in serving'
        BY <1>0, <3>1, <3>3
      <3> QED
        BY <1>0, <1>2, <3>1, <3>2, <3>4
    <2>2. CASE z # y
      <3>1. z \in executions
        BY <1>1, <2>2
      <3>2. HasEffects(calls[z.call])
        BY <1>2, <1>d, <3>1 DEF HasEffects
      <3>3. /\ z.result.code = "done" => calls[z.call].effects > 0
            /\ z.stage = "locked" /\ calls[z.call].arg \in clients
               /\ Key(z) \notin serving => calls[z.call].effects > 0
        BY <1>d, <3>1, <3>2 DEF DoneIsDone
      <3> QED
        BY <1>2, <1>d, <3>1, <3>3
    <2> QED
      BY <2>1, <2>2
  <1>15. OnlyClearedRuns'
    <2> SUFFICES ASSUME NEW j \in DOMAIN calls
                 PROVE  /\ calls'[j].effects > 0 => Cleared(calls'[j])
                        /\ NeverAnswered(calls'[j]) => calls'[j].answer \in {NONE, "dropped"}
      BY <1>2 DEF OnlyClearedRuns, NeverAnswered
    <2>1. calls[j].effects > 0 => Cleared(calls[j])
      BY DEF OnlyClearedRuns
    <2>2. NeverAnswered(calls[j]) => calls[j].answer \in {NONE, "dropped"}
      BY DEF OnlyClearedRuns, NeverAnswered
    <2>3. Cleared(calls[j]) => Cleared(calls'[j])
      BY <1>2 DEF Cleared
    <2>4. calls'[j].effects > 0 => Cleared(calls'[j])
      BY <1>0, <1>2, <2>1, <2>3
    <2> QED
      BY <1>2, <2>2, <2>4 DEF NeverAnswered
  <1>16. EffectsMatchAttempts'
    <2> SUFFICES ASSUME NEW j \in DOMAIN calls
                 PROVE  /\ calls'[j].effects <= calls'[j].attempt + 1
                        /\ HasEffects(calls'[j]) /\ calls'[j].answer = "done"
                             => calls'[j].effects > 0
      BY <1>2 DEF EffectsMatchAttempts, HasEffects
    <2>1. calls'[j].effects <= calls'[j].attempt + 1
      <3>1. j \in DOMAIN calls' /\ calls'[j].effects \in Nat /\ calls'[j].attempt \in Nat
        <4>1. j \in DOMAIN calls' /\ calls'[j] \in Calls
          BY <1>2
        <4> QED
          BY <4>1 DEF Calls
      <3>2. CASE HasEffects(calls'[j])
        <4>1. /\ Cardinality(MayTakeEffect(j)') \in Nat
              /\ calls'[j].effects + Cardinality(MayTakeEffect(j)') <= calls'[j].attempt + 1
          BY <1>13, <3>1, <3>2 DEF EffectsCounted
        <4> QED
          BY <3>1, <4>1
      <3>3. CASE ~HasEffects(calls'[j])
        BY <1>13, <3>1, <3>3 DEF EffectsCounted
      <3> QED
        BY <3>2, <3>3
    <2>2. HasEffects(calls'[j]) /\ calls'[j].answer = "done" => calls'[j].effects > 0
      BY <1>2 DEF EffectsMatchAttempts, HasEffects
    <2> QED
      BY <2>1, <2>2
  <1>17. ElicitationsArriveDuringTheirCall'
    BY <1>1, <1>3 DEF ElicitationsArriveDuringTheirCall, Key
  <1>18. DiscoveredToolsAreServed'
    BY DEF DiscoveredToolsAreServed
  <1> QED
    BY <1>6, <1>7, <1>8, <1>10, <1>11, <1>12, <1>13, <1>14, <1>15, <1>16,
       <1>17, <1>18

\* The results an execution can come to.
LEMMA ResultTypes ==
  ASSUME NEW code \in Answers \cup {NONE}
  PROVE  /\ Nothing \in Results /\ Nothing.code = NONE
         /\ Nothing.elicitation = NONE /\ Nothing.found = {}
         /\ Result(code) \in Results /\ Result(code).code = code
         /\ Result(code).elicitation = NONE /\ Result(code).found = {}
  BY DEF Nothing, Result, Results

\* The activity's gate lets a call pass that is cleared by the workflow's, by
\* the user, or by itself.
LEMMA DispatchedIsCleared ==
  ASSUME ActivityInv, NEW x \in executions, Dispatches(x)
  PROVE  Cleared(Owner(x)) /\ ~NeverAnswered(Owner(x))
  <1>1. /\ Owner(x) \in Calls /\ Gated(Owner(x))
    BY ExecutionTypes DEF ActivityInv, Passed
  <1>2. Owner(x).kind \in ExecKinds /\ ActivityGate(Owner(x)) = "Allow"
    BY DEF Dispatches
  <1>3. CASE Owner(x).decision = "Prompt"
    BY <1>1, <1>3 DEF Gated, Cleared, NeverAnswered
  <1>4. CASE Owner(x).decision = "Allow"
    <2>1. CASE Owner(x).kind = "shell"
      <3>1. CheckShellExecPolicy(Owner(x).arg) = "Allow"
        BY <1>2, <1>4, <2>1 DEF ActivityGate, AlreadyApproved
      <3> QED
        BY <1>4, <2>1, <3>1 DEF Cleared, NeverAnswered
    <2>2. CASE Owner(x).kind # "shell"
      BY <1>2, <1>4, <2>2 DEF Cleared, NeverAnswered, ExecKinds
    <2> QED
      BY <2>1, <2>2
  <1> QED
    BY <1>1, <1>3, <1>4 DEF Calls, Gated

LEMMA DispatchToolKeeps ==
  ASSUME ActivityInv, NEW x \in executions, DispatchTool(x)
  PROVE  ActivityInv'
  <1>1. /\ x.stage = "begin" /\ Owner(x).kind \in ExecKinds
        /\ Cleared(Owner(x)) /\ ~NeverAnswered(Owner(x))
    BY DispatchedIsCleared DEF DispatchTool, Dispatches
  <1>2. /\ UNCHANGED <<current, known, clients, restarted>>
        /\ UNCHANGED <<holder, connecting, captured, serving>>
        /\ UNCHANGED faults
    BY DEF DispatchTool, mcpVars
  <1>3. faults' \in Nat /\ cwd_exists \in BOOLEAN
    BY <1>2 DEF ActivityInv, TypeOK
  <1>4. ASSUME NEW code \in {"done", "failed"}, TakesEffect(x.call),
               Goes(x, "report", Result(code))
        PROVE  ActivityInv'
    <2>1. calls' = Affected(x.call) /\ cwd_exists' \in BOOLEAN
      BY <1>3, <1>4 DEF TakesEffect, Affected
    <2>2. /\ Result(code) \in Results
          /\ Result(code).elicitation = NONE /\ Result(code).found = {}
      BY ResultTypes DEF Answers
    <2> QED
      BY <1>1, <1>2, <1>3, <1>4, <2>1, <2>2, MoveKeeps
  <1>5. ASSUME Goes(x, "report", Result("failed")), UNCHANGED <<calls, cwd_exists>>
        PROVE  ActivityInv'
    <2>1. calls' = calls /\ cwd_exists' \in BOOLEAN
      BY <1>3, <1>5
    <2>2. /\ Result("failed") \in Results /\ Result("failed").code = "failed"
          /\ Result("failed").elicitation = NONE /\ Result("failed").found = {}
      BY ResultTypes DEF Answers
    <2> QED
      BY <1>1, <1>2, <1>3, <1>5, <2>1, <2>2, MoveKeeps
  <1> QED
    BY <1>4, <1>5 DEF DispatchTool

\* A report without an effect: refused calls, answers of the model.
LEMMA ReportsKeep ==
  ASSUME ActivityInv, NEW x \in executions, NEW code \in {"done", "failed"},
         x.stage = "begin", ~NeverAnswered(Owner(x)),
         HasEffects(Owner(x)) => code = "failed",
         Goes(x, "report", Result(code)),
         UNCHANGED <<calls, current, known, mcpVars, envVars>>
  PROVE  ActivityInv'
  <1>1. /\ Result(code) \in Results /\ Result(code).code = code
        /\ Result(code).elicitation = NONE /\ Result(code).found = {}
    BY ResultTypes DEF Answers
  <1>2. /\ UNCHANGED <<current, known, clients, restarted>>
        /\ UNCHANGED <<holder, connecting, captured, serving>>
        /\ calls' = calls
        /\ faults' \in Nat /\ cwd_exists' \in BOOLEAN
    BY DEF mcpVars, envVars, ActivityInv, TypeOK
  <1> QED
    BY <1>1, <1>2, MoveKeeps

LEMMA DispatchForbiddenKeeps ==
  ASSUME ActivityInv, NEW x \in executions, DispatchForbidden(x)
  PROVE  ActivityInv'
  <1>1. ~NeverAnswered(Owner(x))
    BY DEF DispatchForbidden, NeverAnswered, ActivityGate, AlreadyApproved
  <1> QED
    BY <1>1, ReportsKeep DEF DispatchForbidden

LEMMA ModelCallKeeps ==
  ASSUME ActivityInv, NEW x \in executions, ModelCall(x)
  PROVE  ActivityInv'
  <1>1. x.stage = "begin" /\ Owner(x).kind = "model"
    BY DEF ModelCall
  <1>2. ~NeverAnswered(Owner(x)) /\ ~HasEffects(Owner(x))
    BY <1>1 DEF NeverAnswered, HasEffects, ExecKinds
  <1>3. ASSUME NEW code \in {"done", "failed"}, Goes(x, "report", Result(code)),
               UNCHANGED <<calls, current, known, faults>>
        PROVE  ActivityInv'
    <2>1. UNCHANGED <<calls, current, known, mcpVars, envVars>>
      BY <1>3 DEF ModelCall, envVars
    <2> QED
      BY <1>1, <1>2, <1>3, <2>1, ReportsKeep
  <1>4. ASSUME faults' = faults + 1, Retry(x)
        PROVE  ActivityInv'
    <2>1. /\ UNCHANGED <<holder, connecting>>
          /\ UNCHANGED <<clients, captured, serving, cwd_exists, restarted>>
          /\ faults' \in Nat
      BY <1>4 DEF ModelCall, mcpVars, ActivityInv, TypeOK
    <2> QED
      BY <1>1, <1>4, <2>1, RetryKeeps
  <1> QED
    BY <1>3, <1>4 DEF ModelCall

LEMMA DispatchWithheldKeeps ==
  ASSUME ActivityInv, NEW x \in executions, DispatchWithheld(x)
  PROVE  ActivityInv'
  <1>1. /\ UNCHANGED <<holder, connecting>>
        /\ UNCHANGED <<clients, captured, serving, cwd_exists, restarted>>
        /\ faults' \in Nat
    BY DEF DispatchWithheld, mcpVars, envVars, ActivityInv, TypeOK
  <1> QED
    BY <1>1, RetryKeeps DEF DispatchWithheld

LEMMA McpBadArgumentsKeeps ==
  ASSUME ActivityInv, NEW x \in executions, McpBadArguments(x)
  PROVE  ActivityInv'
  BY ReportsKeep DEF McpBadArguments, NeverAnswered

LEMMA McpLockKeeps ==
  ASSUME ActivityInv, NEW x \in executions, McpLock(x)
  PROVE  ActivityInv'
  <1>1. /\ Nothing \in Results /\ Nothing.code = NONE
        /\ Nothing.elicitation = NONE /\ Nothing.found = {}
        /\ NONE # "done"
    BY ResultTypes, ConstantsAssumption DEF Answers
  <1>2. x.stage = "begin" /\ Owner(x).kind = "mcp" /\ ~NeverAnswered(Owner(x))
    BY DEF McpLock, NeverAnswered
  <1>3. /\ holder = NONE /\ holder' = Key(x) /\ captured' = NONE
        /\ UNCHANGED connecting
        /\ serving' = IF Owner(x).arg \in clients THEN serving \cup {Key(x)} ELSE serving
        /\ Goes(x, "locked", Nothing)
        /\ UNCHANGED <<current, known, clients, restarted>>
        /\ calls' = calls
        /\ faults' \in Nat /\ cwd_exists' \in BOOLEAN
    BY DEF McpLock, envVars, ActivityInv, TypeOK
  <1> QED
    BY <1>1, <1>2, <1>3, MoveKeeps

\* What the call surfaces was captured while it held the manager.
LEMMA McpReturnKeeps ==
  ASSUME ActivityInv, NEW x \in executions, McpReturn(x)
  PROVE  ActivityInv'
  <1> USE DEF ActivityInv
  <1>1. /\ x.stage = "locked" /\ Owner(x).kind = "mcp" /\ ~NeverAnswered(Owner(x))
        /\ HasEffects(Owner(x))
    BY DEF McpReturn, NeverAnswered, HasEffects
  <1>2. PICK code \in IF Owner(x).arg \notin clients THEN {"notfound"}
                      ELSE IF Key(x) \in serving THEN {"failed"}
                      ELSE {"done", "failed"} :
          Goes(x, "report", [Result(code) EXCEPT !.elicitation = captured])
    BY DEF McpReturn
  <1> DEFINE result == [Result(code) EXCEPT !.elicitation = captured]
  <1>3. captured \in Captures \cup {NONE} /\ code \in Answers
    BY <1>2 DEF TypeOK, Answers
  <1>4. /\ result \in Results /\ result.code = code
        /\ result.elicitation = captured /\ result.found = {}
    BY <1>3, ResultTypes DEF Results
  <1>5. captured # NONE => captured.during = Key(x)
    BY <1>1 DEF CapturedNow
  <1>6. code = "done" => Owner(x).effects > 0
    BY <1>1, <1>2 DEF DoneIsDone
  <1>7. /\ holder' = NONE /\ captured' = NONE /\ UNCHANGED <<connecting, serving>>
        /\ UNCHANGED <<current, known, clients, restarted>>
        /\ calls' = calls
        /\ faults' \in Nat /\ cwd_exists' \in BOOLEAN
    BY DEF McpReturn, envVars, TypeOK
  <1> HIDE DEF ActivityInv
  <1>8. Goes(x, "report", result)
    BY <1>2
  <1> HIDE DEF result
  <1> QED
    BY <1>1, <1>4, <1>5, <1>6, <1>7, <1>8, MoveKeeps

LEMMA DiscoverLockKeeps ==
  ASSUME ActivityInv, NEW x \in executions, DiscoverLock(x)
  PROVE  ActivityInv'
  <1>1. /\ Nothing \in Results /\ Nothing.code = NONE
        /\ Nothing.elicitation = NONE /\ Nothing.found = {}
    BY ResultTypes
  <1>2. /\ x.stage = "begin" /\ Owner(x).kind = "discover"
        /\ ~NeverAnswered(Owner(x)) /\ ~HasEffects(Owner(x))
    BY DEF DiscoverLock, NeverAnswered, HasEffects, ExecKinds
  <1>3. /\ holder = NONE /\ holder' = Key(x)
        /\ UNCHANGED <<captured, serving>>
        /\ connecting' = [todo |-> Servers, found |-> {}]
        /\ Goes(x, "locked", Nothing)
        /\ UNCHANGED <<current, known, clients, restarted>>
        /\ calls' = calls
        /\ faults' \in Nat /\ cwd_exists' \in BOOLEAN
    BY DEF DiscoverLock, envVars, ActivityInv, TypeOK
  <1> QED
    BY <1>1, <1>2, <1>3, MoveKeeps

LEMMA DiscoveredKeeps ==
  ASSUME ActivityInv, NEW x \in executions, Discovered(x)
  PROVE  ActivityInv'
  <1> USE DEF ActivityInv
  <1> DEFINE result == [Result("done") EXCEPT !.found = connecting.found]
  <1>1. /\ x.stage = "locked" /\ Owner(x).kind = "discover"
        /\ ~NeverAnswered(Owner(x)) /\ ~HasEffects(Owner(x))
    BY DEF Discovered, Discovers, NeverAnswered, HasEffects, ExecKinds
  <1>2. connecting \in Connections /\ connecting # NONE
    BY <1>1 DEF Connected, TypeOK
  <1>3. /\ result \in Results /\ result.elicitation = NONE
        /\ result.found = connecting.found
    BY <1>2, ResultTypes DEF Connections, Results, Answers
  <1>4. ~restarted => result.found \subseteq clients
    BY <1>2, <1>3 DEF Connected
  <1>5. /\ holder' = NONE /\ connecting' = NONE
        /\ UNCHANGED <<captured, serving>>
        /\ Goes(x, "report", result)
        /\ UNCHANGED <<current, known, clients, restarted>>
        /\ calls' = calls
        /\ faults' \in Nat /\ cwd_exists' \in BOOLEAN
    BY DEF Discovered, envVars, TypeOK
  <1> HIDE DEF ActivityInv, result
  <1> QED
    BY <1>1, <1>3, <1>4, <1>5, MoveKeeps

LEMMA RequiredServerFailsKeeps ==
  ASSUME ActivityInv, NEW x \in executions, NEW s, RequiredServerFails(x, s)
  PROVE  ActivityInv'
  <1>1. /\ x.stage = "locked" /\ Owner(x).kind = "discover" /\ Retry(x)
        /\ holder' = NONE /\ connecting' = NONE
        /\ UNCHANGED <<clients, captured, serving, cwd_exists, restarted>>
        /\ faults' \in Nat
    BY DEF RequiredServerFails, Discovers, envVars, ActivityInv, TypeOK
  <1> QED
    BY <1>1, RetryKeeps

-----------------------------------------------------------------------------
(* A call is asked for, handed out, and given up on                        *)

LEMMA NewCalls ==
  ASSUME NEW a \in Agents, NEW kind \in Kinds,
         NEW arg \in STRING \cup Servers \cup {NONE},
         NEW decision \in {"Allow", "Prompt", "Forbidden"}
  PROVE  LET c == Call(a, kind, arg, decision) IN
         /\ c \in Calls
         /\ c.agent = a /\ c.kind = kind /\ c.arg = arg /\ c.decision = decision
         /\ c.attempt = 0 /\ c.effects = 0
         /\ c.status = "asking" => decision = "Prompt"
         /\ c.status # "asking" => decision # "Prompt"
         /\ c.status \in {"asking", "queued", "closed"}
         /\ c.status = "queued" => Gated(c)
         /\ NeverAnswered(c) => c.answer = NONE
         /\ c.answer \in {NONE, "dropped"}
  <1> DEFINE c == Call(a, kind, arg, decision)
  <1>1. CASE decision = "Prompt"
    BY <1>1 DEF Call, Calls, Answers, Gated, NeverAnswered
  <1>2. CASE decision = "Forbidden"
    BY <1>2 DEF Call, Calls, Answers, Gated, NeverAnswered
  <1>3. CASE decision = "Allow"
    BY <1>3 DEF Call, Calls, Answers, Gated, NeverAnswered
  <1> QED
    BY <1>1, <1>2, <1>3

LEMMA ScheduleKeeps ==
  ASSUME ActivityInv, NEW a \in Agents, NEW kind \in Kinds,
         NEW arg \in STRING \cup Servers \cup {NONE},
         NEW decision \in {"Allow", "Prompt", "Forbidden"},
         Schedule(a, Call(a, kind, arg, decision))
  PROVE  ActivityInv'
  <1> DEFINE c == Call(a, kind, arg, decision)
  <1> USE DEF ActivityInv
  <1>n. PICK n \in Nat : n = Len(calls) + 1
    BY DEF TypeOK
  <1>0. /\ c \in Calls
        /\ c.agent = a /\ c.kind = kind /\ c.arg = arg /\ c.decision = decision
        /\ c.attempt = 0 /\ c.effects = 0
        /\ c.status = "asking" => decision = "Prompt"
        /\ c.status \in {"asking", "queued", "closed"}
        /\ c.status = "queued" => Gated(c)
        /\ NeverAnswered(c) => c.answer = NONE
        /\ c.answer \in {NONE, "dropped"}
    BY NewCalls
  <1>1. /\ calls' = Append(calls, c) /\ Len(calls) < MaxCalls
        /\ current' = [current EXCEPT ![a] = IF c.status = "closed" THEN NONE ELSE n]
        /\ UNCHANGED <<known, executions, holder, connecting, clients, captured,
                       serving, cwd_exists, faults, restarted>>
    BY <1>n DEF Schedule, mcpVars, envVars
  <1> HIDE DEF c
  <1>2. /\ calls \in Seq(Calls) /\ Len(calls) \in Nat /\ MaxCalls \in Nat
        /\ DOMAIN calls = 1..Len(calls)
    BY ConstantsAssumption DEF TypeOK
  <1>3. /\ calls' \in Seq(Calls) /\ Len(calls') = n /\ n <= MaxCalls
        /\ DOMAIN calls' = DOMAIN calls \cup {n} /\ n \notin DOMAIN calls
        /\ calls'[n] = c
        /\ \A j \in DOMAIN calls : calls'[j] = calls[j]
        /\ n \in 1..MaxCalls
    BY <1>0, <1>1, <1>2, <1>n
  <1>d. \A x \in executions :
          /\ x.call \in DOMAIN calls /\ Owner(x) = calls[x.call]
          /\ calls'[x.call] = calls[x.call]
    BY <1>3, ExecutionTypes
  <1>4. TypeOK'
    <2>1. \A b \in Agents : current'[b] # NONE =>
            /\ current'[b] \in DOMAIN calls'
            /\ calls'[current'[b]].agent = b
            /\ calls'[current'[b]].status # "closed"
      <3> SUFFICES ASSUME NEW b \in Agents, current'[b] # NONE
                   PROVE  /\ current'[b] \in DOMAIN calls'
                          /\ calls'[current'[b]].agent = b
                          /\ calls'[current'[b]].status # "closed"
        OBVIOUS
      <3>1. CASE b = a
        BY <1>0, <1>1, <1>3, <3>1 DEF TypeOK
      <3>2. CASE b # a
        BY <1>1, <1>3, <3>2 DEF TypeOK
      <3> QED
        BY <3>1, <3>2
    <2>2. current' \in [Agents -> (1..MaxCalls) \cup {NONE}]
      BY <1>1, <1>3 DEF TypeOK
    <2>3. \A x \in executions' :
            x.call \in DOMAIN calls' /\ (x.stage = "locked" <=> holder' = Key(x))
      BY <1>1, <1>3 DEF TypeOK
    <2> QED
      BY <1>1, <1>3, <2>1, <2>2, <2>3 DEF TypeOK, Key
  <1>5. AttemptsKnown'
    BY <1>1, <1>d DEF AttemptsKnown, Owner, Key
  <1>6. ServingKnown'
    BY <1>1, <1>3 DEF ServingKnown, Key
  <1>8. Connected'
    BY <1>1, <1>d DEF Connected, Owner
  <1>9. CapturedNow'
    BY <1>1, <1>d DEF CapturedNow, Owner, Key
  <1>10. Passed'
    <2>1. \A j \in DOMAIN calls' :
            /\ calls'[j].status = "asking" => calls'[j].decision = "Prompt"
            /\ calls'[j].status \in {"queued", "started", "eliciting"}
                 => Gated(calls'[j])
      BY <1>0, <1>3 DEF Passed
    <2> QED
      BY <1>1, <1>d, <2>1 DEF Passed, Owner
  <1>11. EffectsCounted'
    <2>1. ASSUME NEW j \in DOMAIN calls, HasEffects(calls[j])
          PROVE  /\ Cardinality(MayTakeEffect(j)') \in Nat
                 /\ calls'[j].effects + Cardinality(MayTakeEffect(j)')
                      <= calls'[j].attempt + 1
      <3>1. MayTakeEffect(j)' \subseteq (MayTakeEffect(j) \cup {}) \ {}
        BY <1>1, <1>3 DEF MayTakeEffect, Key
      <3> QED
        BY <1>3, <1>4, <2>1, <3>1, EffectsStayCounted
    <2>2. /\ Cardinality(MayTakeEffect(n)') \in Nat
          /\ calls'[n].effects + Cardinality(MayTakeEffect(n)') <= calls'[n].attempt + 1
      <3>1. MayTakeEffect(n)' \in SUBSET {0}
        BY <1>0, <1>3 DEF MayTakeEffect
      <3>2. IsFiniteSet({0}) /\ Cardinality({0}) = 1
        BY FS_Singleton
      <3> HIDE DEF MayTakeEffect
      <3>3. /\ Cardinality(MayTakeEffect(n)') \in Nat
            /\ Cardinality(MayTakeEffect(n)') <= 1
        BY <3>1, <3>2, FS_Subset, FS_CardinalityType
      <3> QED
        BY <1>0, <1>3, <3>3
    <2>3. \A j \in DOMAIN calls : ~HasEffects(calls[j]) => calls[j].effects = 0
      BY DEF EffectsCounted
    <2> QED
      BY <1>0, <1>3, <2>1, <2>2, <2>3, Zenon DEF EffectsCounted
  <1>12. DoneIsDone'
    BY <1>1, <1>d DEF DoneIsDone, Owner, Key
  <1>13. OnlyClearedRuns'
    <2> SUFFICES ASSUME NEW j \in DOMAIN calls'
                 PROVE  /\ calls'[j].effects > 0 => Cleared(calls'[j])
                        /\ NeverAnswered(calls'[j]) => calls'[j].answer \in {NONE, "dropped"}
      BY DEF OnlyClearedRuns, NeverAnswered
    <2>1. CASE j = n
      BY <1>0, <1>3, <2>1
    <2>2. CASE j \in DOMAIN calls
      BY <1>3, <2>2 DEF OnlyClearedRuns, NeverAnswered
    <2> QED
      BY <1>3, <2>1, <2>2
  <1>14. EffectsMatchAttempts'
    <2>1. c.answer # "done"
      BY <1>0, ConstantsAssumption DEF Answers
    <2> QED
      BY <1>0, <1>3, <2>1 DEF EffectsMatchAttempts
  <1>15. ElicitationsArriveDuringTheirCall'
    BY <1>1 DEF ElicitationsArriveDuringTheirCall, Key
  <1>16. DiscoveredToolsAreServed'
    BY <1>1 DEF DiscoveredToolsAreServed
  <1> QED
    BY <1>4, <1>5, <1>6, <1>8, <1>9, <1>10, <1>11, <1>12, <1>13, <1>14,
       <1>15, <1>16

LEMMA DiscoverMcpKeeps ==
  ASSUME ActivityInv, NEW a \in Agents, DiscoverMcp(a)
  PROVE  ActivityInv'
  BY ScheduleKeeps DEF DiscoverMcp, Kinds

LEMMA GateAnswers ==
  ASSUME NEW kind, NEW arg, NEW p
  PROVE  WorkflowDecision(kind, arg, p) \in {"Allow", "Prompt", "Forbidden"}
  BY DEF WorkflowDecision, Decision, ShellDecision, PatchDecision

LEMMA HandleToolCallKeeps ==
  ASSUME ActivityInv, NEW a \in Agents, NEW r \in Requests, NEW p \in Policies,
         HandleToolCall(a, r[1], r[2], p)
  PROVE  ActivityInv'
  <1>1. /\ r[1] \in Kinds /\ r[2] \in STRING \cup Servers \cup {NONE}
    BY ConstantsAssumption DEF Kinds
  <1>3. WorkflowDecision(r[1], r[2], p) \in {"Allow", "Prompt", "Forbidden"}
    BY GateAnswers
  <1>4. Schedule(a, Call(a, r[1], r[2], WorkflowDecision(r[1], r[2], p)))
    BY DEF HandleToolCall
  <1> QED
    BY <1>1, <1>3, <1>4, ScheduleKeeps

LEMMA PollKeeps ==
  ASSUME ActivityInv, NEW i \in 1..MaxCalls, Poll(i)
  PROVE  ActivityInv'
  <1> DEFINE c == [calls[i] EXCEPT !.status = "started"]
             y == [call |-> i, attempt |-> calls[i].attempt, stage |-> "begin",
                   result |-> Nothing]
  <1> USE DEF ActivityInv
  <1>0. /\ i \in DOMAIN calls /\ calls[i].status = "queued" /\ calls[i] \in Calls
        /\ Nothing \in Results /\ Nothing.code = NONE
        /\ Nothing.elicitation = NONE /\ Nothing.found = {}
    BY CallTypes, ResultTypes DEF Poll, Open
  <1>1. /\ c \in Calls /\ c.status = "started"
        /\ c.agent = calls[i].agent /\ c.kind = calls[i].kind
        /\ c.arg = calls[i].arg /\ c.decision = calls[i].decision
        /\ c.granted = calls[i].granted /\ c.answer = calls[i].answer
        /\ c.attempt = calls[i].attempt /\ c.effects = calls[i].effects
    BY <1>0 DEF Calls
  <1>2. /\ calls' = [calls EXCEPT ![i] = c] /\ executions' = executions \cup {y}
        /\ UNCHANGED <<current, known, holder, connecting, clients, captured,
                       serving, cwd_exists, faults, restarted>>
    BY DEF Poll, mcpVars, envVars
  <1>3. /\ calls' \in Seq(Calls) /\ Len(calls') <= MaxCalls
        /\ DOMAIN calls' = DOMAIN calls /\ calls'[i] = c
        /\ \A j \in DOMAIN calls : j # i => calls'[j] = calls[j]
    BY <1>0, <1>1, <1>2, OneCallReplaced DEF TypeOK
  <1>4. /\ y \in Executions /\ y.call = i /\ y.attempt = calls[i].attempt
        /\ y.stage = "begin" /\ y.result = Nothing
        /\ Key(y) = <<i, calls[i].attempt>> /\ Key(y) \in Keys
    BY <1>0 DEF Executions, Results, Calls, Key, Keys
  <1> HIDE DEF c, y
  <1>d. \A x \in executions :
          /\ x.call \in DOMAIN calls /\ Owner(x) = calls[x.call]
          /\ x.stage = "locked" <=> holder = Key(x)
          /\ x.attempt \in Nat
    BY ExecutionTypes DEF Executions
  <1>5. \A j \in DOMAIN calls :
          /\ calls'[j].agent = calls[j].agent /\ calls'[j].kind = calls[j].kind
          /\ calls'[j].arg = calls[j].arg /\ calls'[j].decision = calls[j].decision
          /\ calls'[j].granted = calls[j].granted
          /\ calls'[j].answer = calls[j].answer
          /\ calls'[j].attempt = calls[j].attempt
          /\ calls'[j].effects = calls[j].effects
          /\ calls'[j].status = IF j = i THEN "started" ELSE calls[j].status
    BY <1>1, <1>3
  <1>6. \A x \in executions : Key(x) # Key(y)
    <2> SUFFICES ASSUME NEW x \in executions, Key(x) = Key(y) PROVE FALSE
      OBVIOUS
    <2>1. x.call = i /\ x.attempt = calls[i].attempt
      BY <1>4 DEF Key
    <2>2. x.attempt < calls[i].attempt
      BY <1>0, <1>d, <2>1 DEF AttemptsKnown
    <2> QED
      BY <1>d, <2>1, <2>2
  <1>7. holder # Key(y)
    BY <1>4, <1>6, ConstantsAssumption DEF AttemptsKnown
  <1>8. TypeOK'
    <2>1. \A x \in executions' :
            x.call \in DOMAIN calls' /\ (x.stage = "locked" <=> holder' = Key(x))
      BY <1>0, <1>2, <1>3, <1>4, <1>7, <1>d
    <2>2. \A a \in Agents : current'[a] # NONE =>
            /\ current'[a] \in DOMAIN calls'
            /\ calls'[current'[a]].agent = a
            /\ calls'[current'[a]].status # "closed"
      BY <1>2, <1>3, <1>5 DEF TypeOK
    <2>3. executions' \in SUBSET Executions
      BY <1>2, <1>4 DEF TypeOK
    <2> QED
      BY <1>2, <1>3, <2>1, <2>2, <2>3 DEF TypeOK, Key
  <1>9. AttemptsKnown'
    <2>1. \A x, z \in executions' : Key(x) = Key(z) => x = z
      BY <1>2, <1>6 DEF AttemptsKnown
    <2>2. holder' # NONE => \E x \in executions' : Key(x) = holder'
      BY <1>2 DEF AttemptsKnown
    <2>3. \A x \in executions' :
            /\ x.attempt <= calls'[x.call].attempt
            /\ calls'[x.call].status = "queued" => x.attempt < calls'[x.call].attempt
            /\ calls'[x.call].status # "asking"
      <3>1. calls[i].attempt \in Nat
        BY <1>0 DEF Calls
      <3> QED
        BY <1>0, <1>2, <1>4, <1>5, <1>d, <3>1 DEF AttemptsKnown
    <2> QED
      BY <2>1, <2>2, <2>3 DEF AttemptsKnown, Owner, Key
  <1>10. ServingKnown'
    <2> SUFFICES ASSUME NEW k \in serving
                 PROVE  /\ k[1] \in DOMAIN calls'
                        /\ calls'[k[1]].kind = "mcp"
                        /\ k[2] <= calls'[k[1]].attempt
                        /\ calls'[k[1]].status = "queued" => k[2] < calls'[k[1]].attempt
                        /\ calls'[k[1]].status # "asking"
                        /\ \A x \in executions' : Key(x) = k => x.stage # "begin"
      BY <1>2 DEF ServingKnown, Key
    <2>1. k \in Keys /\ k[2] \in Nat
      BY DEF TypeOK, Keys
    <2>2. k # Key(y)
      <3>1. k[1] = i => k[2] < calls[i].attempt
        BY <1>0 DEF ServingKnown
      <3> QED
        BY <1>4, <2>1, <3>1
    <2> QED
      BY <1>2, <1>3, <1>5, <2>2 DEF ServingKnown
  <1>12. Connected'
    <2>1. \A x \in executions' :
            x.stage = "locked" /\ calls'[x.call].kind = "discover" => connecting' # NONE
      BY <1>2, <1>4, <1>5, <1>d DEF Connected
    <2> QED
      BY <1>0, <1>2, <1>4, <2>1 DEF Connected, Owner
  <1>13. CapturedNow'
    <2>1. \A x \in executions' :
            x.stage = "locked" /\ calls'[x.call].kind = "mcp" /\ captured' # NONE
              => captured'.during = Key(x)
      BY <1>2, <1>4, <1>5, <1>d DEF CapturedNow
    <2> QED
      BY <2>1 DEF CapturedNow, Owner, Key
  <1>14. Passed'
    <2>1. \A j \in DOMAIN calls' :
            /\ calls'[j].status = "asking" => calls'[j].decision = "Prompt"
            /\ calls'[j].status \in {"queued", "started", "eliciting"}
                 => Gated(calls'[j])
      BY <1>0, <1>3, <1>5 DEF Passed, Gated
    <2>2. \A x \in executions' :
            /\ Gated(calls'[x.call])
            /\ NeverAnswered(calls'[x.call]) => x.stage = "begin"
      BY <1>0, <1>2, <1>4, <1>5, <1>d DEF Passed, Gated, NeverAnswered
    <2> QED
      BY <2>1, <2>2 DEF Passed, Owner
  <1>15. EffectsCounted'
    <2>1. ASSUME NEW j \in DOMAIN calls
          PROVE  MayTakeEffect(j)' \subseteq MayTakeEffect(j)
      <3> SUFFICES ASSUME NEW k \in 0..calls[j].attempt,
                          \/ <<j, k>> \in serving
                          \/ \E x \in executions' : Key(x) = <<j, k>> /\ x.stage = "begin"
                          \/ calls'[j].status \in {"asking", "queued"}
                             /\ k = calls[j].attempt
                   PROVE  k \in MayTakeEffect(j)
        BY <1>2, <1>5 DEF MayTakeEffect, Key
      <3>1. CASE <<j, k>> \in serving
        BY <3>1 DEF MayTakeEffect
      <3>2. CASE \E x \in executions' : Key(x) = <<j, k>> /\ x.stage = "begin"
        BY <1>0, <1>2, <1>4, <3>2 DEF MayTakeEffect
      <3>3. CASE calls'[j].status \in {"asking", "queued"} /\ k = calls[j].attempt
        BY <1>5, <3>3 DEF MayTakeEffect
      <3> QED
        BY <3>1, <3>2, <3>3
    <2> QED
      BY <1>3, <1>5, <1>8, <2>1, EffectsUntouched
  <1>16. DoneIsDone'
    <2>1. NONE # "done"
      BY ConstantsAssumption DEF Answers
    <2>2. \A x \in executions' : HasEffects(calls'[x.call]) =>
            /\ x.result.code = "done" => calls'[x.call].effects > 0
            /\ x.stage = "locked" /\ calls'[x.call].arg \in clients' /\ Key(x) \notin serving'
                 => calls'[x.call].effects > 0
      BY <1>0, <1>2, <1>4, <1>5, <1>d, <2>1 DEF DoneIsDone, HasEffects
    <2> QED
      BY <2>2 DEF DoneIsDone, Owner, Key
  <1>17. OnlyClearedRuns'
    BY <1>3, <1>5 DEF OnlyClearedRuns, Cleared
  <1>18. EffectsMatchAttempts'
    BY <1>3, <1>5 DEF EffectsMatchAttempts
  <1>19. ElicitationsArriveDuringTheirCall'
    BY <1>0, <1>2, <1>4 DEF ElicitationsArriveDuringTheirCall, Key
  <1>20. DiscoveredToolsAreServed'
    BY <1>2 DEF DiscoveredToolsAreServed
  <1> QED
    BY <1>8, <1>9, <1>10, <1>12, <1>13, <1>14, <1>15, <1>16, <1>17,
       <1>18, <1>19, <1>20

LEMMA LoseAttemptKeeps ==
  ASSUME ActivityInv, NEW i \in 1..MaxCalls, LoseAttempt(i)
  PROVE  ActivityInv'
  <1> DEFINE c == [calls[i] EXCEPT !.status = "queued",
                                   !.attempt = calls[i].attempt + 1]
  <1> USE DEF ActivityInv
  <1>0. i \in DOMAIN calls /\ calls[i].status = "started" /\ calls[i] \in Calls
    BY CallTypes DEF LoseAttempt, Open
  <1>a. calls[i].attempt \in Nat /\ calls[i].attempt + 1 \in Nat
    BY <1>0 DEF Calls
  <1>1. /\ c \in Calls /\ c.status = "queued"
        /\ c.agent = calls[i].agent /\ c.kind = calls[i].kind
        /\ c.arg = calls[i].arg /\ c.decision = calls[i].decision
        /\ c.granted = calls[i].granted /\ c.answer = calls[i].answer
        /\ c.attempt = calls[i].attempt + 1 /\ c.effects = calls[i].effects
        /\ calls[i].attempt \in Nat
    BY <1>0, <1>a DEF Calls
  <1>2. /\ calls' = [calls EXCEPT ![i] = c]
        /\ UNCHANGED <<current, known, executions, holder, connecting, clients,
                       captured, serving, cwd_exists, restarted>>
        /\ faults' \in Nat
    <2>1. calls' = [calls EXCEPT ![i] = c]
      BY DEF LoseAttempt
    <2>2. /\ UNCHANGED <<current, known, executions, holder, connecting, clients,
                         captured, serving, cwd_exists, restarted>>
          /\ faults' \in {faults, faults + 1}
      BY DEF LoseAttempt, mcpVars
    <2>3. faults \in Nat
      BY DEF TypeOK
    <2> QED
      BY <2>1, <2>2, <2>3
  <1>3. /\ calls' \in Seq(Calls) /\ Len(calls') <= MaxCalls
        /\ DOMAIN calls' = DOMAIN calls /\ calls'[i] = c
        /\ \A j \in DOMAIN calls : j # i => calls'[j] = calls[j]
    BY <1>0, <1>1, <1>2, OneCallReplaced DEF TypeOK
  <1> HIDE DEF c
  <1>d. \A x \in executions :
          /\ x.call \in DOMAIN calls /\ Owner(x) = calls[x.call]
          /\ x.attempt \in Nat
    BY ExecutionTypes DEF Executions
  <1>5. \A j \in DOMAIN calls :
          /\ calls'[j].agent = calls[j].agent /\ calls'[j].kind = calls[j].kind
          /\ calls'[j].arg = calls[j].arg /\ calls'[j].decision = calls[j].decision
          /\ calls'[j].granted = calls[j].granted
          /\ calls'[j].answer = calls[j].answer
          /\ calls'[j].attempt =
               IF j = i THEN calls[j].attempt + 1 ELSE calls[j].attempt
          /\ calls'[j].effects = calls[j].effects
          /\ calls'[j].status = IF j = i THEN "queued" ELSE calls[j].status
          /\ calls[j].attempt \in Nat /\ calls[j].effects \in Nat
    BY <1>1, <1>3, CallTypes DEF Calls
  <1>6. TypeOK'
    <2>1. \A a \in Agents : current'[a] # NONE =>
            /\ current'[a] \in DOMAIN calls'
            /\ calls'[current'[a]].agent = a
            /\ calls'[current'[a]].status # "closed"
      BY <1>2, <1>3, <1>5 DEF TypeOK
    <2> QED
      BY <1>2, <1>3, <2>1 DEF TypeOK, Key
  <1>7. AttemptsKnown'
    <2>1. \A x \in executions :
            /\ x.attempt <= calls'[x.call].attempt
            /\ calls'[x.call].status = "queued" => x.attempt < calls'[x.call].attempt
            /\ calls'[x.call].status # "asking"
      BY <1>5, <1>d DEF AttemptsKnown
    <2> QED
      BY <1>2, <2>1 DEF AttemptsKnown, Owner, Key
  <1>8. ServingKnown'
    <2> SUFFICES ASSUME NEW k \in serving
                 PROVE  /\ k[1] \in DOMAIN calls'
                        /\ calls'[k[1]].kind = "mcp"
                        /\ k[2] <= calls'[k[1]].attempt
                        /\ calls'[k[1]].status = "queued" => k[2] < calls'[k[1]].attempt
                        /\ calls'[k[1]].status # "asking"
                        /\ \A x \in executions : Key(x) = k => x.stage # "begin"
      BY <1>2 DEF ServingKnown, Key
    <2>1. k \in Keys /\ k[2] \in Nat
      BY DEF TypeOK, Keys
    <2> QED
      BY <1>3, <1>5, <2>1 DEF ServingKnown
  <1>10. Connected'
    BY <1>2, <1>5, <1>d DEF Connected, Owner
  <1>11. CapturedNow'
    BY <1>2, <1>5, <1>d DEF CapturedNow, Owner, Key
  <1>12. Passed'
    <2>1. \A j \in DOMAIN calls' :
            /\ calls'[j].status = "asking" => calls'[j].decision = "Prompt"
            /\ calls'[j].status \in {"queued", "started", "eliciting"}
                 => Gated(calls'[j])
      BY <1>0, <1>3, <1>5 DEF Passed, Gated
    <2>2. \A x \in executions :
            /\ Gated(calls'[x.call])
            /\ NeverAnswered(calls'[x.call]) => x.stage = "begin"
      BY <1>5, <1>d DEF Passed, Gated, NeverAnswered
    <2> QED
      BY <1>2, <2>1, <2>2 DEF Passed, Owner
  <1>13. EffectsCounted'
    <2>1. ASSUME NEW j \in DOMAIN calls, HasEffects(calls[j])
          PROVE  /\ Cardinality(MayTakeEffect(j)') \in Nat
                 /\ calls'[j].effects + Cardinality(MayTakeEffect(j)')
                      <= calls'[j].attempt + 1
      <3> DEFINE new == IF j = i THEN {calls[j].attempt + 1} ELSE {}
      <3>1. MayTakeEffect(j)' \subseteq (MayTakeEffect(j) \cup new) \ {}
        <4> SUFFICES ASSUME NEW k \in 0..calls'[j].attempt, k \notin new,
                            \/ <<j, k>> \in serving
                            \/ \E x \in executions : Key(x) = <<j, k>> /\ x.stage = "begin"
                            \/ calls'[j].status \in {"asking", "queued"}
                               /\ k = calls'[j].attempt
                     PROVE  k \in MayTakeEffect(j)
          BY <1>2 DEF MayTakeEffect, Key
        <4>1. k \in 0..calls[j].attempt
          BY <1>5
        <4>2. k = calls'[j].attempt => j # i
          BY <1>5
        <4> HIDE DEF new
        <4> QED
          BY <1>5, <4>1, <4>2 DEF MayTakeEffect
      <3>2. CASE j = i
        BY <1>3, <1>5, <1>6, <2>1, <3>1, <3>2, EffectsStayCounted
      <3>3. CASE j # i
        BY <1>3, <1>5, <1>6, <2>1, <3>1, <3>3, EffectsStayCounted
      <3> QED
        BY <3>2, <3>3
    <2>2. \A j \in DOMAIN calls :
            /\ ~HasEffects(calls[j]) => calls'[j].effects = 0
            /\ HasEffects(calls'[j]) <=> HasEffects(calls[j])
      BY <1>5 DEF EffectsCounted, HasEffects
    <2> QED
      BY <1>3, <2>1, <2>2, Zenon DEF EffectsCounted
  <1>14. DoneIsDone'
    BY <1>2, <1>5, <1>d DEF DoneIsDone, Owner, Key, HasEffects
  <1>15. OnlyClearedRuns'
    BY <1>3, <1>5 DEF OnlyClearedRuns, Cleared
  <1>16. EffectsMatchAttempts'
    BY <1>3, <1>5 DEF EffectsMatchAttempts
  <1>17. ElicitationsArriveDuringTheirCall'
    BY <1>2 DEF ElicitationsArriveDuringTheirCall, Key
  <1>18. DiscoveredToolsAreServed'
    BY <1>2 DEF DiscoveredToolsAreServed
  <1> QED
    BY <1>6, <1>7, <1>8, <1>10, <1>11, <1>12, <1>13, <1>14, <1>15, <1>16,
       <1>17, <1>18

-----------------------------------------------------------------------------
(* The servers and the worker                                              *)

LEMMA ElicitKeeps ==
  ASSUME ActivityInv, NEW s \in Servers, Elicit(s)
  PROVE  ActivityInv'
  <1> USE DEF ActivityInv
  <1>0. PICK origin \in {k \in serving : calls[k[1]].arg = s} \cup {NONE} :
          captured' = [origin |-> origin, during |-> holder]
    BY DEF Elicit
  <1>1. /\ captured' = [origin |-> origin, during |-> holder]
        /\ UNCHANGED <<calls, current, known, executions, holder, connecting,
                       clients, serving, cwd_exists, faults, restarted>>
    BY <1>0 DEF Elicit, envVars
  <1>2. origin \in Keys \cup {NONE}
    BY <1>0 DEF TypeOK
  <1>3. captured' \in Captures \cup {NONE} /\ captured'.during = holder
    BY <1>1, <1>2 DEF Captures, TypeOK
  <1>4. CapturedNow'
    <2>1. \A x \in executions : x.stage = "locked" => holder = Key(x)
      BY ExecutionTypes
    <2> QED
      BY <1>1, <1>3, <2>1 DEF CapturedNow, Owner, Key
  <1>5. TypeOK'
    BY <1>1, <1>3 DEF TypeOK, Key
  <1>6. AttemptsKnown' /\ ServingKnown' /\ Connected'
    BY <1>1 DEF AttemptsKnown, ServingKnown, Connected, Key, Owner
  <1>7. Passed' /\ DoneIsDone'
    BY <1>1 DEF Passed, DoneIsDone, Key, Owner
  <1>8. EffectsCounted'
    <2>1. \A j \in DOMAIN calls : MayTakeEffect(j)' = MayTakeEffect(j)
      BY <1>1 DEF MayTakeEffect, Key
    <2> QED
      BY <1>1, <1>5, <2>1, EffectsUntouched
  <1>9. OnlyClearedRuns' /\ EffectsMatchAttempts'
    BY <1>1 DEF OnlyClearedRuns, EffectsMatchAttempts
  <1>10. ElicitationsArriveDuringTheirCall' /\ DiscoveredToolsAreServed'
    BY <1>1 DEF ElicitationsArriveDuringTheirCall, DiscoveredToolsAreServed, Key
  <1> QED
    BY <1>4, <1>5, <1>6, <1>7, <1>8, <1>9, <1>10

\* One server of a discovery is done with: it failed, or is connected now.
LEMMA DiscoveryKeeps ==
  ASSUME ActivityInv, NEW x \in executions, Discovers(x),
         NEW s \in Servers,
         \/ connecting' = [connecting EXCEPT !.todo = @ \ {s}] /\ clients' = clients
         \/ /\ connecting' = [todo |-> connecting.todo \ {s},
                              found |-> connecting.found \cup {s}]
            /\ clients' = clients \cup {s},
         UNCHANGED <<calls, current, known, executions, holder, captured, serving,
                     envVars>>
  PROVE  ActivityInv'
  <1> USE DEF ActivityInv
  <1>1. UNCHANGED <<calls, current, known, executions, holder, captured, serving,
                    cwd_exists, faults, restarted>>
    BY DEF envVars
  <1>2. connecting \in Connections /\ connecting # NONE
    BY DEF Discovers, Connected, TypeOK
  <1>3. /\ connecting' \in Connections /\ connecting' # NONE
        /\ clients' \in SUBSET Servers /\ clients \subseteq clients'
        /\ connecting.found \subseteq clients => connecting'.found \subseteq clients'
    BY <1>2, ConstantsAssumption DEF Connections, TypeOK
  <1>4. TypeOK'
    BY <1>1, <1>3 DEF TypeOK, Key
  <1>5. AttemptsKnown' /\ ServingKnown'
    BY <1>1 DEF AttemptsKnown, ServingKnown, Key, Owner
  <1>6. Connected'
    BY <1>1, <1>2, <1>3 DEF Connected, Owner
  <1>7. Passed' /\ CapturedNow'
    BY <1>1 DEF Passed, CapturedNow, Key, Owner
  <1>8. EffectsCounted'
    <2>1. \A j \in DOMAIN calls : MayTakeEffect(j)' = MayTakeEffect(j)
      BY <1>1 DEF MayTakeEffect, Key
    <2> QED
      BY <1>1, <1>4, <2>1, EffectsUntouched
  <1>9. DoneIsDone'
    <2>1. \A z \in executions : z.stage = "locked" => z = x
      BY ExecutionTypes DEF Discovers, AttemptsKnown
    <2>2. ~HasEffects(Owner(x))
      BY DEF Discovers, HasEffects, ExecKinds
    <2> QED
      BY <1>1, <2>1, <2>2 DEF DoneIsDone, Owner, Key
  <1>10. OnlyClearedRuns' /\ EffectsMatchAttempts'
    BY <1>1 DEF OnlyClearedRuns, EffectsMatchAttempts
  <1>11. ElicitationsArriveDuringTheirCall' /\ DiscoveredToolsAreServed'
    BY <1>1, <1>3 DEF ElicitationsArriveDuringTheirCall, DiscoveredToolsAreServed, Key
  <1> QED
    BY <1>4, <1>5, <1>6, <1>7, <1>8, <1>9, <1>10, <1>11

LEMMA ServerDoneKeeps ==
  ASSUME ActivityInv, NEW k \in serving, ServerDone(k)
  PROVE  ActivityInv'
  <1> USE DEF ActivityInv
  <1> DEFINE i == k[1]
  <1>0. /\ i \in DOMAIN calls /\ calls[i].kind = "mcp" /\ HasEffects(calls[i])
        /\ k \in Keys /\ k = <<i, k[2]>> /\ k[2] \in Nat
        /\ k[2] <= calls[i].attempt
        /\ calls[i].status = "queued" => k[2] < calls[i].attempt
        /\ calls[i].status # "asking"
        /\ \A x \in executions : Key(x) = k => x.stage # "begin"
    BY DEF ServingKnown, HasEffects, TypeOK, Keys
  <1> HIDE DEF i
  <1>1. /\ calls' = Affected(i) /\ serving' = serving \ {k}
        /\ cwd_exists' \in BOOLEAN
        /\ UNCHANGED <<current, known, executions, holder, connecting, clients,
                       captured, faults, restarted>>
    BY DEF ServerDone, TakesEffect, Affected, TypeOK, i
  <1>2. /\ calls' \in Seq(Calls) /\ Len(calls') <= MaxCalls
        /\ DOMAIN calls' = DOMAIN calls
        /\ calls'[i].effects = calls[i].effects + 1
        /\ \A j \in DOMAIN calls :
             /\ j # i => calls'[j] = calls[j]
             /\ calls'[j].agent = calls[j].agent
             /\ calls'[j].kind = calls[j].kind
             /\ calls'[j].arg = calls[j].arg
             /\ calls'[j].decision = calls[j].decision
             /\ calls'[j].status = calls[j].status
             /\ calls'[j].granted = calls[j].granted
             /\ calls'[j].attempt = calls[j].attempt
             /\ calls'[j].answer = calls[j].answer
             /\ calls'[j].effects >= calls[j].effects
    BY <1>0, <1>1, OneMoreEffect DEF TypeOK
  <1>3. \A j \in DOMAIN calls :
          calls[j].effects \in Nat /\ calls[j].attempt \in Nat
    BY CallTypes DEF Calls
  <1>d. \A x \in executions :
          x.call \in DOMAIN calls /\ Owner(x) = calls[x.call] /\ x.attempt \in Nat
    BY ExecutionTypes DEF Executions
  <1>4. TypeOK'
    <2>1. \A a \in Agents : current'[a] # NONE =>
            /\ current'[a] \in DOMAIN calls'
            /\ calls'[current'[a]].agent = a
            /\ calls'[current'[a]].status # "closed"
      BY <1>1, <1>2 DEF TypeOK
    <2> QED
      BY <1>1, <1>2, <2>1 DEF TypeOK, Key
  <1>5. AttemptsKnown'
    BY <1>1, <1>2, <1>d DEF AttemptsKnown, Owner, Key
  <1>6. ServingKnown'
    BY <1>1, <1>2 DEF ServingKnown, Key
  <1>8. Connected'
    BY <1>1, <1>2, <1>d DEF Connected, Owner
  <1>9. CapturedNow'
    BY <1>1, <1>2, <1>d DEF CapturedNow, Owner, Key
  <1>10. Passed'
    BY <1>1, <1>2, <1>d DEF Passed, Owner, Gated, NeverAnswered
  <1>11. EffectsCounted'
    <2>1. ASSUME NEW j \in DOMAIN calls
          PROVE  MayTakeEffect(j)' \subseteq
                   MayTakeEffect(j) \ (IF j = i THEN {k[2]} ELSE {})
      <3> SUFFICES ASSUME NEW m \in 0..calls[j].attempt,
                          \/ <<j, m>> \in serving'
                          \/ \E x \in executions : Key(x) = <<j, m>> /\ x.stage = "begin"
                          \/ calls[j].status \in {"asking", "queued"}
                             /\ m = calls[j].attempt
                   PROVE  m \in MayTakeEffect(j) /\ (j = i => m # k[2])
        BY <1>1, <1>2 DEF MayTakeEffect, Key
      <3>1. m \in MayTakeEffect(j)
        BY <1>1 DEF MayTakeEffect
      <3>2. j = i => m # k[2]
        BY <1>0, <1>1, <1>3
      <3> QED
        BY <3>1, <3>2
    <2>2. k[2] \in MayTakeEffect(i)
      BY <1>0, <1>3 DEF MayTakeEffect
    <2>3. /\ Cardinality(MayTakeEffect(i)') \in Nat
          /\ calls'[i].effects + Cardinality(MayTakeEffect(i)') <= calls'[i].attempt + 1
      <3>1. MayTakeEffect(i)' \subseteq (MayTakeEffect(i) \cup {}) \ {k[2]}
        BY <1>0, <2>1
      <3> QED
        BY <1>0, <1>2, <1>4, <2>2, <3>1, EffectsStayCounted
    <2>4. ASSUME NEW j \in DOMAIN calls, HasEffects(calls[j]), j # i
          PROVE  /\ Cardinality(MayTakeEffect(j)') \in Nat
                 /\ calls'[j].effects + Cardinality(MayTakeEffect(j)')
                      <= calls'[j].attempt + 1
      <3>1. MayTakeEffect(j)' \subseteq (MayTakeEffect(j) \cup {}) \ {}
        BY <2>1, <2>4
      <3> QED
        BY <1>2, <1>4, <2>4, <3>1, EffectsStayCounted
    <2>5. \A j \in DOMAIN calls :
            /\ ~HasEffects(calls[j]) => calls'[j].effects = 0
            /\ HasEffects(calls'[j]) <=> HasEffects(calls[j])
      BY <1>0, <1>2 DEF EffectsCounted, HasEffects
    <2> QED
      BY <1>0, <1>2, <2>3, <2>4, <2>5, Zenon DEF EffectsCounted
  <1>12. DoneIsDone'
    <2> SUFFICES ASSUME NEW x \in executions, HasEffects(calls'[x.call])
                 PROVE  /\ x.result.code = "done" => calls'[x.call].effects > 0
                        /\ x.stage = "locked" /\ calls'[x.call].arg \in clients
                           /\ Key(x) \notin serving' => calls'[x.call].effects > 0
      BY <1>1 DEF DoneIsDone, Owner, Key
    <2>1. Key(x) = k => calls'[x.call].effects > 0
      BY <1>0, <1>2, <1>3 DEF Key, i
    <2>2. HasEffects(calls[x.call])
      BY <1>2, <1>d DEF HasEffects
    <2>3. /\ x.result.code = "done" => calls[x.call].effects > 0
          /\ x.stage = "locked" /\ calls[x.call].arg \in clients
             /\ Key(x) \notin serving => calls[x.call].effects > 0
      BY <1>d, <2>2 DEF DoneIsDone
    <2> QED
      BY <1>1, <1>2, <1>3, <1>d, <2>1, <2>3
  <1>13. OnlyClearedRuns'
    <2> SUFFICES ASSUME NEW j \in DOMAIN calls
                 PROVE  /\ calls'[j].effects > 0 => Cleared(calls'[j])
                        /\ NeverAnswered(calls'[j]) => calls'[j].answer \in {NONE, "dropped"}
      BY <1>2 DEF OnlyClearedRuns, NeverAnswered
    <2>1. Cleared(calls[j]) => Cleared(calls'[j])
      BY <1>2 DEF Cleared
    <2>2. j = i => Cleared(calls[j])
      BY <1>0 DEF Cleared
    <2> QED
      BY <1>2, <2>1, <2>2 DEF OnlyClearedRuns, NeverAnswered
  <1>14. EffectsMatchAttempts'
    <2> SUFFICES ASSUME NEW j \in DOMAIN calls
                 PROVE  /\ calls'[j].effects <= calls'[j].attempt + 1
                        /\ HasEffects(calls'[j]) /\ calls'[j].answer = "done"
                             => calls'[j].effects > 0
      BY <1>2 DEF EffectsMatchAttempts, HasEffects
    <2>1. calls'[j].effects <= calls'[j].attempt + 1
      <3>1. j # i => calls'[j] = calls[j]
        BY <1>2
      <3>2. /\ Cardinality(MayTakeEffect(i)') \in Nat
            /\ calls'[i].effects + Cardinality(MayTakeEffect(i)') <= calls'[i].attempt + 1
        <4>1. i \in DOMAIN calls' /\ HasEffects(calls'[i])
          BY <1>0, <1>2 DEF HasEffects
        <4> QED
          BY <1>11, <4>1 DEF EffectsCounted
      <3>3. CASE j = i
        <4> DEFINE few == Cardinality(MayTakeEffect(i)')
        <4>1. calls'[i].effects \in Nat /\ calls'[i].attempt \in Nat
          <5>1. calls' \in Seq(Calls) /\ i \in DOMAIN calls'
            BY <1>0, <1>2, <1>4 DEF TypeOK
          <5>2. calls'[i] \in Calls
            BY <5>1
          <5> QED
            BY <5>2 DEF Calls
        <4>2. few \in Nat /\ calls'[i].effects + few <= calls'[i].attempt + 1
          BY <3>2
        <4> HIDE DEF few
        <4> QED
          BY <3>3, <4>1, <4>2
      <3>4. CASE j # i
        BY <3>1, <3>4 DEF EffectsMatchAttempts
      <3> QED
        BY <3>3, <3>4
    <2>2. HasEffects(calls'[j]) /\ calls'[j].answer = "done" => calls'[j].effects > 0
      BY <1>2, <1>3 DEF EffectsMatchAttempts, HasEffects
    <2> QED
      BY <2>1, <2>2
  <1>15. ElicitationsArriveDuringTheirCall' /\ DiscoveredToolsAreServed'
    BY <1>1 DEF ElicitationsArriveDuringTheirCall, DiscoveredToolsAreServed, Key
  <1> QED
    BY <1>4, <1>5, <1>6, <1>8, <1>9, <1>10, <1>11, <1>12, <1>13, <1>14,
       <1>15

LEMMA CrashKeeps ==
  ASSUME ActivityInv, Crash
  PROVE  ActivityInv'
  <1> USE DEF ActivityInv
  <1>1. /\ UNCHANGED <<calls, current, known, cwd_exists>>
        /\ restarted' = TRUE /\ executions' = {} /\ holder' = NONE
        /\ connecting' = NONE /\ clients' = {} /\ captured' = NONE /\ serving' = {}
        /\ faults' \in Nat
    BY DEF Crash, TypeOK
  <1>2. TypeOK'
    BY <1>1 DEF TypeOK, Key
  <1>3. AttemptsKnown' /\ ServingKnown' /\ Connected'
    BY <1>1 DEF AttemptsKnown, ServingKnown, Connected
  <1>4. CapturedNow' /\ Passed' /\ DoneIsDone'
    BY <1>1 DEF CapturedNow, Passed, DoneIsDone
  <1>5. EffectsCounted'
    <2>1. \A j \in DOMAIN calls : MayTakeEffect(j)' \subseteq MayTakeEffect(j)
      BY <1>1 DEF MayTakeEffect
    <2> QED
      BY <1>1, <1>2, <2>1, EffectsUntouched
  <1>6. OnlyClearedRuns' /\ EffectsMatchAttempts'
    BY <1>1 DEF OnlyClearedRuns, EffectsMatchAttempts
  <1>7. ElicitationsArriveDuringTheirCall' /\ DiscoveredToolsAreServed'
    BY <1>1 DEF ElicitationsArriveDuringTheirCall, DiscoveredToolsAreServed
  <1> QED
    BY <1>2, <1>3, <1>4, <1>5, <1>6, <1>7

-----------------------------------------------------------------------------
(* The theorems                                                            *)

LEMMA InitKeeps ==
  ASSUME Init
  PROVE  ActivityInv
  <1>1. /\ calls = <<>> /\ Len(calls) = 0 /\ DOMAIN calls = {}
        /\ executions = {} /\ serving = {} /\ holder = NONE /\ captured = NONE
        /\ connecting = NONE
    BY DEF Init
  <1>2. /\ current \in [Agents -> (1..MaxCalls) \cup {NONE}]
        /\ \A a \in Agents : current[a] = NONE
    BY DEF Init
  <1>3. /\ clients \in SUBSET Servers
        /\ known \in [Agents -> (SUBSET Servers) \cup {NONE}]
        /\ \A a \in Agents : known[a] # NONE => known[a] \subseteq clients
    BY DEF Init
  <1>a. /\ calls \in Seq(Calls) /\ Len(calls) <= MaxCalls
        /\ cwd_exists \in BOOLEAN /\ faults \in Nat /\ restarted \in BOOLEAN
    <2>1. calls = <<>> /\ cwd_exists = TRUE /\ faults = 0 /\ restarted = FALSE
      BY DEF Init
    <2>2. MaxCalls \in Nat
      BY ConstantsAssumption
    <2>3. calls \in Seq(Calls) /\ Len(calls) = 0
      BY <2>1
    <2>4. Len(calls) <= MaxCalls /\ faults \in Nat
      BY <2>1, <2>2, <2>3
    <2>5. cwd_exists \in BOOLEAN /\ restarted \in BOOLEAN
      BY <2>1, Zenon
    <2> QED
      BY <2>3, <2>4, <2>5
  <1>4. TypeOK
    BY <1>1, <1>2, <1>3, <1>a DEF TypeOK
  <1>5. AttemptsKnown /\ ServingKnown /\ Connected
    BY <1>1 DEF AttemptsKnown, ServingKnown, Connected
  <1>6. CapturedNow /\ Passed /\ EffectsCounted /\ DoneIsDone
    BY <1>1 DEF CapturedNow, Passed, EffectsCounted, DoneIsDone
  <1>7. OnlyClearedRuns /\ EffectsMatchAttempts
    BY <1>1 DEF OnlyClearedRuns, EffectsMatchAttempts
  <1>8. ElicitationsArriveDuringTheirCall /\ DiscoveredToolsAreServed
    BY <1>1, <1>3 DEF ElicitationsArriveDuringTheirCall, DiscoveredToolsAreServed
  <1> QED
    BY <1>4, <1>5, <1>6, <1>7, <1>8 DEF ActivityInv

LEMMA StutterKeeps ==
  ASSUME ActivityInv, UNCHANGED vars
  PROVE  ActivityInv'
  <1> USE DEF ActivityInv, vars
  <1>1. TypeOK' /\ AttemptsKnown' /\ ServingKnown' /\ Connected'
    BY DEF TypeOK, AttemptsKnown, ServingKnown, Connected, Key, Owner
  <1>2. CapturedNow' /\ Passed' /\ DoneIsDone'
    BY DEF CapturedNow, Passed, DoneIsDone, Key, Owner
  <1>3. EffectsCounted'
    <2>1. \A j \in DOMAIN calls : MayTakeEffect(j)' \subseteq MayTakeEffect(j)
      BY DEF MayTakeEffect, Key
    <2> QED
      BY <1>1, <2>1, EffectsUntouched
  <1>4. OnlyClearedRuns' /\ EffectsMatchAttempts'
    BY DEF OnlyClearedRuns, EffectsMatchAttempts
  <1>5. ElicitationsArriveDuringTheirCall' /\ DiscoveredToolsAreServed'
    BY DEF ElicitationsArriveDuringTheirCall, DiscoveredToolsAreServed, Key
  <1> QED
    BY <1>1, <1>2, <1>3, <1>4, <1>5

LEMMA WorkKeeps ==
  ASSUME ActivityInv, NEW x \in executions, Work(x)
  PROVE  ActivityInv'
  <1>1. CASE DispatchWithheld(x) \/ DispatchForbidden(x) \/ DispatchTool(x)
    BY <1>1, DispatchWithheldKeeps, DispatchForbiddenKeeps, DispatchToolKeeps
  <1>2. CASE ModelCall(x)
    BY <1>2, ModelCallKeeps
  <1>3. CASE McpBadArguments(x) \/ McpLock(x) \/ McpReturn(x)
    BY <1>3, McpBadArgumentsKeeps, McpLockKeeps, McpReturnKeeps
  <1>4. CASE DiscoverLock(x) \/ Discovered(x)
    BY <1>4, DiscoverLockKeeps, DiscoveredKeeps
  <1>5. ASSUME NEW s \in Servers, ServerFails(x, s) PROVE ActivityInv'
    BY <1>5, DiscoveryKeeps DEF ServerFails
  <1>6. ASSUME NEW s \in Servers, RequiredServerFails(x, s) PROVE ActivityInv'
    BY <1>6, RequiredServerFailsKeeps
  <1>7. ASSUME NEW s \in Servers, ConnectServer(x, s) PROVE ActivityInv'
    BY <1>7, DiscoveryKeeps DEF ConnectServer
  <1>8. CASE Report(x)
    BY <1>8, ReportKeeps
  <1> QED
    BY <1>1, <1>2, <1>3, <1>4, <1>5, <1>6, <1>7, <1>8 DEF Work

LEMMA NextKeeps ==
  ASSUME ActivityInv, [Next]_vars
  PROVE  ActivityInv'
  <1>1. CASE WorkflowNext
    <2>1. PICK a \in Agents :
            \/ DiscoverMcp(a)
            \/ \E r \in Requests, p \in Policies : HandleToolCall(a, r[1], r[2], p)
            \/ \E approved \in BOOLEAN : Decide(a, approved)
            \/ Interrupt(a)
            \/ ResolveElicitation(a)
      BY <1>1 DEF WorkflowNext
    <2> QED
      BY <2>1, DiscoverMcpKeeps, HandleToolCallKeeps, DecideKeeps, InterruptKeeps,
         ResolveElicitationKeeps
  <1>2. CASE ServerNext
    BY <1>2, PollKeeps, LoseAttemptKeeps, GiveUpDiscoveryKeeps DEF ServerNext
  <1>3. CASE \E x \in executions : Work(x)
    BY <1>3, WorkKeeps
  <1>4. CASE (\E s \in Servers : Elicit(s)) \/ (\E k \in serving : ServerDone(k))
    BY <1>4, ElicitKeeps, ServerDoneKeeps
  <1>5. CASE Crash
    BY <1>5, CrashKeeps
  <1>6. CASE UNCHANGED vars
    BY <1>6, StutterKeeps
  <1> QED
    BY <1>1, <1>2, <1>3, <1>4, <1>5, <1>6 DEF Next

\* The inductive invariant: which attempts exist, what they were cleared for
\* and what they have done, through retries, lost attempts and restarts.
THEOREM ActivityInvHolds == Spec => []ActivityInv
  <1>1. Init => ActivityInv
    BY InitKeeps
  <1>2. ActivityInv /\ [Next]_vars => ActivityInv'
    BY NextKeeps
  <1> QED
    BY <1>1, <1>2, PTL DEF Spec

\* Every variable keeps its type, and the manager's mutex is held exactly by
\* the execution that is inside it.
THEOREM ActivityTypes == Spec => []TypeOK
  <1>1. ActivityInv => TypeOK
    BY DEF ActivityInv
  <1> QED
    BY <1>1, ActivityInvHolds, PTL

\* For any policies and .rules files, and any number of retries, lost attempts
\* and restarts, a tool takes effect only when it was cleared; and a command
\* the activity wants approved is never answered.
THEOREM OnlyClearedToolsRun == Spec => []OnlyClearedRuns
  <1>1. ActivityInv => OnlyClearedRuns
    BY DEF ActivityInv
  <1> QED
    BY <1>1, ActivityInvHolds, PTL

\* A call takes effect at most once for each time the server gave up on it and
\* once more, and what was reported as done was done.
THEOREM EffectsAreBounded == Spec => []EffectsMatchAttempts
  <1>1. ActivityInv => EffectsMatchAttempts
    BY DEF ActivityInv
  <1> QED
    BY <1>1, ActivityInvHolds, PTL

\* Whenever servers ask, and however long they go on with abandoned calls, what
\* a call surfaces came in while that very attempt held the manager.
THEOREM ElicitationsAreOfTheMoment == Spec => []ElicitationsArriveDuringTheirCall
  <1>1. ActivityInv => ElicitationsArriveDuringTheirCall
    BY DEF ActivityInv
  <1> QED
    BY <1>1, ActivityInvHolds, PTL

\* As long as the worker lives, the tools agents offer belong to connected
\* servers, however many agents discover and whichever servers fail.
THEOREM OfferedToolsAreServed == Spec => []DiscoveredToolsAreServed
  <1>1. ActivityInv => DiscoveredToolsAreServed
    BY DEF ActivityInv
  <1> QED
    BY <1>1, ActivityInvHolds, PTL

-----------------------------------------------------------------------------
(* Whose elicitation it is                                                 *)

\* Attempt k of an MCP call was handed out and is past its beginning, also if
\* it is over.
Handed(k) ==
  /\ k[1] \in DOMAIN calls
  /\ calls[k[1]].kind = "mcp"
  /\ k[2] <= calls[k[1]].attempt
  /\ calls[k[1]].status = "queued" => k[2] < calls[k[1]].attempt
  /\ calls[k[1]].status # "asking"
  /\ \A x \in executions : Key(x) = k => x.stage # "begin"

\* What is captured is about an attempt that was handed out; once a call
\* surfaces it, that attempt does not hold the manager, and never will again.
OriginInv ==
  /\ captured # NONE /\ captured.origin # NONE => Handed(captured.origin)
  /\ \A x \in executions :
       x.result.elicitation # NONE /\ x.result.elicitation.origin # NONE =>
         /\ Handed(x.result.elicitation.origin)
         /\ holder # x.result.elicitation.origin

\* What a step does to calls: only a new attempt of an MCP call is queued.
CallsGoOn ==
  /\ DOMAIN calls \subseteq DOMAIN calls'
  /\ \A j \in DOMAIN calls :
       /\ calls'[j].kind = calls[j].kind
       /\ calls[j].attempt <= calls'[j].attempt
       /\ calls'[j].status = "asking" => calls[j].status = "asking"
       /\ calls[j].kind = "mcp" /\ calls'[j].status = "queued" =>
            \/ calls[j].status \in {"asking", "queued"}
            \/ calls[j].attempt < calls'[j].attempt

\* To executions: those that begin carry out what was queued, and those that
\* have got an elicitation just now have let go of the manager.
ExecutionsGoOn ==
  \A x \in executions' :
    /\ x.stage = "begin" =>
         \/ x \in executions
         \/ /\ x.call \in DOMAIN calls
            /\ calls[x.call].status = "queued"
            /\ x.attempt = calls[x.call].attempt
    /\ x.result.elicitation # NONE =>
         \/ \E y \in executions : y.result.elicitation = x.result.elicitation
         \/ x.result.elicitation = captured /\ holder' = NONE

\* To the manager: it goes to an execution that begins, and what comes in is
\* about an attempt that is being served.
ManagerGoesOn ==
  /\ \/ holder' \in {holder, NONE}
     \/ \E y \in executions : y.stage = "begin" /\ holder' = Key(y)
  /\ \/ captured' \in {captured, NONE}
     \/ captured'.origin \in serving \cup {NONE}

GoesOn == CallsGoOn /\ ExecutionsGoOn /\ ManagerGoesOn

LEMMA HandedStays ==
  ASSUME TypeOK, TypeOK', CallsGoOn, ExecutionsGoOn, NEW k \in Keys, Handed(k)
  PROVE  Handed(k)'
  <1>1. k[1] \in DOMAIN calls /\ k[2] \in Nat
    BY DEF Handed, Keys
  <1>2. /\ k[1] \in DOMAIN calls'
        /\ calls[k[1]].attempt \in Nat /\ calls'[k[1]].attempt \in Nat
    <2>1. k[1] \in DOMAIN calls'
      BY <1>1 DEF CallsGoOn
    <2>2. calls \in Seq(Calls) /\ calls' \in Seq(Calls)
      BY DEF TypeOK
    <2>3. calls[k[1]] \in Calls /\ calls'[k[1]] \in Calls
      BY <1>1, <2>1, <2>2
    <2> QED
      BY <2>1, <2>3 DEF Calls
  <1>3. /\ calls'[k[1]].kind = "mcp"
        /\ k[2] <= calls'[k[1]].attempt
        /\ calls'[k[1]].status # "asking"
    BY <1>1, <1>2 DEF Handed, CallsGoOn
  <1>4. calls'[k[1]].status = "queued" => k[2] < calls'[k[1]].attempt
    BY <1>1, <1>2 DEF Handed, CallsGoOn
  <1>5. ASSUME NEW x \in executions', Key(x) = k PROVE x.stage # "begin"
    <2>1. x.call = k[1] /\ x.attempt = k[2]
      BY <1>5 DEF Key
    <2> QED
      BY <1>1, <1>2, <1>5, <2>1 DEF Handed, ExecutionsGoOn
  <1> QED
    BY <1>2, <1>3, <1>4, <1>5 DEF Handed, Key

LEMMA OriginKept ==
  ASSUME ActivityInv, ActivityInv', OriginInv, GoesOn
  PROVE  OriginInv'
  <1>1. TypeOK /\ TypeOK' /\ ServingKnown
    BY DEF ActivityInv
  <1>2. ASSUME NEW k \in Keys, Handed(k)
        PROVE  Handed(k)' /\ (holder # k => holder' # k)
    <2>1. Handed(k)'
      BY <1>1, <1>2, HandedStays DEF GoesOn
    <2>2. k # NONE
      BY ConstantsAssumption
    <2> QED
      BY <1>2, <2>1, <2>2 DEF GoesOn, ManagerGoesOn, Handed
  <1>3. ASSUME NEW k \in serving PROVE k \in Keys /\ Handed(k)
    BY <1>1, <1>3 DEF TypeOK, ServingKnown, Handed
  <1>4. captured # NONE /\ captured.origin # NONE => captured.origin \in Keys
    BY <1>1 DEF TypeOK, Captures
  <1>5. ASSUME NEW x \in executions,
               x.result.elicitation # NONE, x.result.elicitation.origin # NONE
        PROVE  x.result.elicitation.origin \in Keys
    <2>1. x.result.elicitation \in Captures
      BY <1>1, <1>5 DEF TypeOK, Executions
    <2> QED
      BY <1>5, <2>1 DEF Captures
  <1>6. ASSUME NEW k \in Keys, captured' # NONE, k = captured'.origin
        PROVE  Handed(k)'
    <2>1. CASE captured' \in {captured, NONE}
      <3>1. Handed(k)
        BY <1>6, <2>1, ConstantsAssumption DEF OriginInv
      <3> QED
        BY <3>1, <1>2
    <2>2. CASE captured'.origin \in serving \cup {NONE}
      BY <2>2, <1>2, <1>3, <1>6, ConstantsAssumption
    <2> QED
      BY <2>1, <2>2 DEF GoesOn, ManagerGoesOn
  <1>7. ASSUME NEW x \in executions',
               x.result.elicitation # NONE, x.result.elicitation.origin # NONE
        PROVE  /\ Handed(x.result.elicitation.origin)'
               /\ holder' # x.result.elicitation.origin
    <2>1. CASE \E y \in executions : y.result.elicitation = x.result.elicitation
      BY <2>1, <1>2, <1>5, <1>7 DEF OriginInv
    <2>2. CASE x.result.elicitation = captured /\ holder' = NONE
      <3>1. captured.origin \in Keys /\ Handed(captured.origin)
        BY <2>2, <1>4, <1>7 DEF OriginInv
      <3> QED
        BY <2>2, <3>1, <1>2, <1>7
    <2> QED
      BY <2>1, <2>2, <1>7 DEF GoesOn, ExecutionsGoOn
  <1>8. (captured # NONE /\ captured.origin # NONE => Handed(captured.origin))'
    <2>1. (captured # NONE /\ captured.origin # NONE => captured.origin \in Keys)'
      BY <1>1 DEF TypeOK, Captures
    <2> QED
      BY <1>6, <2>1 DEF Handed
  <1>9. (\A x \in executions :
           x.result.elicitation # NONE /\ x.result.elicitation.origin # NONE =>
             /\ Handed(x.result.elicitation.origin)
             /\ holder # x.result.elicitation.origin)'
    BY <1>7 DEF Handed
  <1> QED
    BY <1>8, <1>9 DEF OriginInv

\* A step that changes no call but i, to which it gives the record c.
LEMMA OneCallGoesOn ==
  ASSUME TypeOK, NEW i \in DOMAIN calls, NEW c \in Calls,
         calls' = [calls EXCEPT ![i] = c],
         c.kind = calls[i].kind,
         \/ /\ c.attempt = calls[i].attempt
            /\ \/ c.status = calls[i].status
               \/ c.status \notin {"asking", "queued"}
               \/ c.status = "queued" /\ calls[i].status = "asking"
               \/ c.status = "queued" /\ calls[i].kind # "mcp"
         \/ c.attempt = calls[i].attempt + 1 /\ c.status = "queued"
  PROVE  CallsGoOn
  <1>1. /\ DOMAIN calls' = DOMAIN calls
        /\ calls'[i] = c
        /\ \A j \in DOMAIN calls : j # i => calls'[j] = calls[j]
    BY OneCallReplaced DEF TypeOK
  <1>2. \A j \in DOMAIN calls : calls[j].attempt \in Nat
    BY CallTypes DEF Calls
  <1>3. /\ calls'[i].kind = calls[i].kind
        /\ calls[i].attempt <= calls'[i].attempt
        /\ calls'[i].status = "asking" => calls[i].status = "asking"
        /\ calls[i].kind = "mcp" /\ calls'[i].status = "queued" =>
             \/ calls[i].status \in {"asking", "queued"}
             \/ calls[i].attempt < calls'[i].attempt
    BY <1>1, <1>2
  <1>4. \A j \in DOMAIN calls : j # i =>
          calls'[j] = calls[j] /\ calls[j].attempt <= calls'[j].attempt
    BY <1>1, <1>2
  <1> QED
    BY <1>1, <1>3, <1>4 DEF CallsGoOn

LEMMA CallsStay ==
  ASSUME TypeOK, UNCHANGED calls
  PROVE  CallsGoOn
  <1>1. \A j \in DOMAIN calls : calls[j].attempt \in Nat
    BY CallTypes DEF Calls
  <1> QED
    BY <1>1 DEF CallsGoOn

LEMMA ScheduleGoesOn ==
  ASSUME TypeOK, NEW a \in Agents, NEW c, Schedule(a, c)
  PROVE  GoesOn
  <1>1. calls' = Append(calls, c) /\ calls \in Seq(Calls)
    BY DEF Schedule, TypeOK
  <1>2. \A j \in DOMAIN calls : calls[j].attempt \in Nat
    BY CallTypes DEF Calls
  <1>3. /\ DOMAIN calls \subseteq DOMAIN calls'
        /\ \A j \in DOMAIN calls : calls'[j] = calls[j]
    BY <1>1
  <1>4. CallsGoOn
    BY <1>2, <1>3 DEF CallsGoOn
  <1> QED
    BY <1>4 DEF Schedule, GoesOn, ExecutionsGoOn, ManagerGoesOn, mcpVars

LEMMA WorkflowGoesOn ==
  ASSUME TypeOK, WorkflowNext
  PROVE  GoesOn
  <1>1. PICK a \in Agents :
          \/ DiscoverMcp(a)
          \/ \E r \in Requests, p \in Policies : HandleToolCall(a, r[1], r[2], p)
          \/ \E approved \in BOOLEAN : Decide(a, approved)
          \/ Interrupt(a)
          \/ ResolveElicitation(a)
    BY DEF WorkflowNext
  <1>2. CASE \/ DiscoverMcp(a)
             \/ \E r \in Requests, p \in Policies : HandleToolCall(a, r[1], r[2], p)
    BY <1>2, ScheduleGoesOn DEF DiscoverMcp, HandleToolCall
  <1>3. CASE \/ \E approved \in BOOLEAN : Decide(a, approved)
             \/ Interrupt(a)
             \/ ResolveElicitation(a)
    <2> DEFINE i == current[a]
    <2>1. /\ ~Idle(a)
          /\ UNCHANGED <<executions, holder, captured>>
          /\ \/ calls' = [calls EXCEPT ![i].status = "queued", ![i].granted = TRUE]
                  /\ calls[i].status = "asking"
             \/ calls' = Close(i, "dropped")
             \/ calls' = [calls EXCEPT ![i].status = "closed"]
      BY <1>3 DEF Decide, Interrupt, ResolveElicitation, mcpVars
    <2>2. i \in DOMAIN calls
      BY <2>1 DEF TypeOK, Idle
    <2>3. calls[i] \in Calls
      BY <2>2, CallTypes
    <2>4. \/ calls' = [calls EXCEPT ![i] =
                        [calls[i] EXCEPT !.status = "queued", !.granted = TRUE]]
               /\ calls[i].status = "asking"
          \/ calls' = [calls EXCEPT ![i] =
                        [calls[i] EXCEPT !.status = "closed", !.answer = "dropped"]]
          \/ calls' = [calls EXCEPT ![i] = [calls[i] EXCEPT !.status = "closed"]]
      BY <2>1, <2>2, <2>3 DEF Close, TypeOK, Calls
    <2>5. /\ [calls[i] EXCEPT !.status = "queued", !.granted = TRUE] \in Calls
          /\ [calls[i] EXCEPT !.status = "closed", !.answer = "dropped"] \in Calls
          /\ [calls[i] EXCEPT !.status = "closed"] \in Calls
      BY <2>3 DEF Calls, Answers
    <2>6. PICK c \in Calls :
            /\ calls' = [calls EXCEPT ![i] = c]
            /\ c.kind = calls[i].kind /\ c.attempt = calls[i].attempt
            /\ \/ c.status = "closed"
               \/ c.status = "queued" /\ calls[i].status = "asking"
      BY <2>3, <2>4, <2>5 DEF Calls
    <2>8. CallsGoOn
      <3> HIDE DEF i
      <3> QED
        BY <2>2, <2>6, OneCallGoesOn
    <2> QED
      BY <2>1, <2>8 DEF GoesOn, ExecutionsGoOn, ManagerGoesOn
  <1> QED
    BY <1>1, <1>2, <1>3

LEMMA ServerGoesOn ==
  ASSUME TypeOK, ServerNext
  PROVE  GoesOn
  <1>1. PICK i \in 1..MaxCalls : Poll(i) \/ LoseAttempt(i) \/ GiveUpDiscovery(i)
    BY DEF ServerNext
  <1>2. i \in DOMAIN calls
    BY <1>1 DEF Poll, LoseAttempt, GiveUpDiscovery, Open
  <1>3. calls[i] \in Calls /\ calls \in Seq(Calls)
    BY <1>2, CallTypes DEF TypeOK
  <1>4. CASE Poll(i)
    <2> DEFINE c == [calls[i] EXCEPT !.status = "started"]
    <2>1. calls' = [calls EXCEPT ![i] = c]
      BY <1>2, <1>3, <1>4 DEF Poll, Calls
    <2>2. /\ c \in Calls
          /\ c.kind = calls[i].kind /\ c.attempt = calls[i].attempt
          /\ c.status = "started"
      BY <1>3 DEF Calls
    <2>3. CallsGoOn
      <3> HIDE DEF c
      <3> QED
        BY <1>2, <2>1, <2>2, OneCallGoesOn
    <2>4. ExecutionsGoOn
      BY <1>2, <1>4 DEF Poll, ExecutionsGoOn, Nothing
    <2> QED
      BY <1>4, <2>3, <2>4 DEF Poll, GoesOn, ManagerGoesOn, mcpVars
  <1>5. CASE LoseAttempt(i)
    <2> DEFINE c == [calls[i] EXCEPT !.status = "queued",
                                     !.attempt = calls[i].attempt + 1]
    <2>1. calls' = [calls EXCEPT ![i] = c]
      BY <1>2, <1>3, <1>5 DEF LoseAttempt, Calls
    <2>2. calls[i].attempt \in Nat /\ calls[i].attempt + 1 \in Nat
      BY <1>3 DEF Calls
    <2>a. /\ c \in Calls /\ c.attempt = calls[i].attempt + 1
          /\ c.kind = calls[i].kind /\ c.status = "queued"
      BY <1>3, <2>2 DEF Calls
    <2>3. CallsGoOn
      <3> HIDE DEF c
      <3> QED
        BY <1>2, <2>1, <2>2, <2>a, OneCallGoesOn
    <2> QED
      BY <1>5, <2>3 DEF LoseAttempt, GoesOn, ExecutionsGoOn, ManagerGoesOn, mcpVars
  <1>6. CASE GiveUpDiscovery(i)
    <2> DEFINE c == [calls[i] EXCEPT !.status = "closed", !.answer = "failed"]
    <2>1. calls' = [calls EXCEPT ![i] = c]
      BY <1>2, <1>3, <1>6 DEF GiveUpDiscovery, Close, Calls
    <2>2. /\ c \in Calls
          /\ c.kind = calls[i].kind /\ c.attempt = calls[i].attempt
          /\ c.status = "closed"
      BY <1>3 DEF Calls, Answers
    <2>3. CallsGoOn
      <3> HIDE DEF c
      <3> QED
        BY <1>2, <2>1, <2>2, OneCallGoesOn
    <2> QED
      BY <1>6, <2>3 DEF GiveUpDiscovery, GoesOn, ExecutionsGoOn, ManagerGoesOn, mcpVars
  <1> QED
    BY <1>1, <1>4, <1>5, <1>6

\* Retries of the worker's own are no retries of MCP calls.
LEMMA RetryGoesOn ==
  ASSUME TypeOK, NEW x \in executions, Retry(x), Owner(x).kind # "mcp"
  PROVE  CallsGoOn /\ ExecutionsGoOn
  <1>1. x.call \in DOMAIN calls /\ calls[x.call] \in Calls /\ calls \in Seq(Calls)
    BY ExecutionTypes DEF TypeOK
  <1>2. CASE IsCurrent(x)
    <2> DEFINE c == [calls[x.call] EXCEPT !.status = "queued"]
    <2>1. calls' = [calls EXCEPT ![x.call] = c]
      BY <1>1, <1>2 DEF Retry, Calls
    <2>2. /\ c \in Calls
          /\ c.kind = calls[x.call].kind /\ c.attempt = calls[x.call].attempt
          /\ c.status = "queued"
      BY <1>1 DEF Calls
    <2>3. CallsGoOn
      <3> HIDE DEF c
      <3> QED
        BY <1>1, <2>1, <2>2, OneCallGoesOn DEF Owner
    <2> QED
      BY <2>3 DEF Retry, ExecutionsGoOn
  <1>3. CASE ~IsCurrent(x)
    BY <1>3, CallsStay DEF Retry, ExecutionsGoOn
  <1> QED
    BY <1>2, <1>3

\* A tool takes effect.
LEMMA EffectGoesOn ==
  ASSUME TypeOK, NEW i \in DOMAIN calls, calls' = [calls EXCEPT ![i].effects = @ + 1]
  PROVE  CallsGoOn
  <1>1. calls[i] \in Calls /\ calls \in Seq(Calls)
    BY CallTypes DEF TypeOK
  <1> DEFINE c == [calls[i] EXCEPT !.effects = calls[i].effects + 1]
  <1>2. calls' = [calls EXCEPT ![i] = c]
    BY <1>1 DEF Calls
  <1>3. calls[i].effects + 1 \in Nat
    BY <1>1 DEF Calls
  <1>4. /\ c \in Calls /\ c.attempt = calls[i].attempt /\ c.attempt \in Nat
        /\ c.kind = calls[i].kind /\ c.status = calls[i].status
    BY <1>1, <1>3 DEF Calls
  <1> HIDE DEF c
  <1> QED
    BY <1>2, <1>4, OneCallGoesOn

\* An execution reports, without an elicitation or with the one captured when it
\* lets go of the manager.
LEMMA GoesGoesOn ==
  ASSUME TypeOK, NEW x \in executions, NEW stage \in {"locked", "report"}, NEW result,
         Goes(x, stage, result),
         result.elicitation \in {NONE, captured},
         result.elicitation # NONE => holder' = NONE
  PROVE  ExecutionsGoOn
  <1>1. [x EXCEPT !.stage = stage, !.result = result].stage = stage
        /\ [x EXCEPT !.stage = stage, !.result = result].result = result
    BY ExecutionTypes DEF Executions
  <1> QED
    BY <1>1 DEF Goes, ExecutionsGoOn

LEMMA ToolGoesOn ==
  ASSUME TypeOK, NEW x \in executions,
         \/ DispatchWithheld(x) \/ DispatchForbidden(x) \/ DispatchTool(x)
         \/ ModelCall(x)
  PROVE  GoesOn
  <1>1. x.call \in DOMAIN calls
    BY ExecutionTypes
  <1>2. UNCHANGED <<holder, captured>>
    BY DEF DispatchWithheld, DispatchForbidden, DispatchTool, ModelCall, mcpVars
  <1>3. CASE Retry(x) /\ (DispatchWithheld(x) \/ ModelCall(x))
    <2>1. Owner(x).kind # "mcp"
      BY <1>3 DEF DispatchWithheld, ModelCall, Withheld, ExecKinds
    <2> QED
      BY <1>2, <1>3, <2>1, RetryGoesOn DEF GoesOn, ManagerGoesOn
  <1>4. CASE \E code \in {"done", "failed"} : Goes(x, "report", Result(code))
    <2>1. Result("done").elicitation = NONE /\ Result("failed").elicitation = NONE
      BY DEF Result, Nothing
    <2>2. ExecutionsGoOn
      BY <1>4, <2>1, GoesGoesOn
    <2>3. CASE calls' = [calls EXCEPT ![x.call].effects = @ + 1]
      BY <1>1, <1>2, <2>2, <2>3, EffectGoesOn DEF GoesOn, ManagerGoesOn
    <2>4. CASE UNCHANGED calls
      BY <1>2, <2>2, <2>4, CallsStay DEF GoesOn, ManagerGoesOn
    <2>5. CASE Retry(x) /\ ModelCall(x)
      BY <1>3, <2>5
    <2> QED
      BY <2>3, <2>4, <2>5, <1>3
         DEF DispatchWithheld, DispatchForbidden, DispatchTool, ModelCall, TakesEffect
  <1> QED
    BY <1>3, <1>4 DEF DispatchWithheld, DispatchForbidden, DispatchTool, ModelCall

LEMMA McpGoesOn ==
  ASSUME TypeOK, NEW x \in executions,
         McpBadArguments(x) \/ McpLock(x) \/ McpReturn(x)
  PROVE  GoesOn
  <1>1. CallsGoOn
    BY CallsStay DEF McpBadArguments, McpLock, McpReturn
  <1>2. Result("failed").elicitation = NONE /\ Nothing.elicitation = NONE
    BY DEF Result, Nothing
  <1>3. CASE McpBadArguments(x)
    BY <1>1, <1>2, <1>3, GoesGoesOn
       DEF McpBadArguments, GoesOn, ManagerGoesOn, mcpVars
  <1>4. CASE McpLock(x)
    BY <1>1, <1>2, <1>4, GoesGoesOn DEF McpLock, GoesOn, ManagerGoesOn
  <1>5. CASE McpReturn(x)
    <2>1. PICK code : Goes(x, "report", [Result(code) EXCEPT !.elicitation = captured])
      BY <1>5 DEF McpReturn
    <2>2. [Result(code) EXCEPT !.elicitation = captured].elicitation = captured
      BY DEF Result, Nothing
    <2>3. holder' = NONE /\ captured' = NONE
      BY <1>5 DEF McpReturn
    <2>4. ExecutionsGoOn
      BY <2>1, <2>2, <2>3, GoesGoesOn
    <2> QED
      BY <1>1, <2>3, <2>4 DEF GoesOn, ManagerGoesOn
  <1> QED
    BY <1>3, <1>4, <1>5

LEMMA DiscoveryGoesOn ==
  ASSUME TypeOK, NEW x \in executions,
         \/ DiscoverLock(x) \/ Discovered(x)
         \/ \E s \in Servers :
              ServerFails(x, s) \/ RequiredServerFails(x, s) \/ ConnectServer(x, s)
  PROVE  GoesOn
  <1>1. CASE DiscoverLock(x)
    <2>1. Nothing.elicitation = NONE /\ CallsGoOn
      BY <1>1, CallsStay DEF DiscoverLock, Nothing
    <2> QED
      BY <1>1, <2>1, GoesGoesOn DEF DiscoverLock, GoesOn, ManagerGoesOn
  <1>2. CASE Discovered(x)
    <2>1. [Result("done") EXCEPT !.found = connecting.found].elicitation = NONE
      BY DEF Result, Nothing
    <2>2. CallsGoOn
      BY <1>2, CallsStay DEF Discovered
    <2> QED
      BY <1>2, <2>1, <2>2, GoesGoesOn DEF Discovered, GoesOn, ManagerGoesOn
  <1>3. CASE \E s \in Servers : ServerFails(x, s) \/ ConnectServer(x, s)
    <2>1. UNCHANGED <<calls, executions, holder, captured>>
      BY <1>3 DEF ServerFails, ConnectServer
    <2> QED
      BY <2>1, CallsStay DEF GoesOn, ExecutionsGoOn, ManagerGoesOn
  <1>4. CASE \E s \in Servers : RequiredServerFails(x, s)
    BY <1>4, RetryGoesOn DEF RequiredServerFails, Discovers, GoesOn, ManagerGoesOn
  <1> QED
    BY <1>1, <1>2, <1>3, <1>4

LEMMA ReportGoesOn ==
  ASSUME TypeOK, NEW x \in executions, Report(x)
  PROVE  GoesOn
  <1>1. x.call \in DOMAIN calls /\ calls[x.call] \in Calls /\ calls \in Seq(Calls)
        /\ x \in Executions
    BY ExecutionTypes DEF TypeOK
  <1>2. CallsGoOn
    <2>1. CASE ~IsCurrent(x)
      BY <2>1, CallsStay DEF Report
    <2>2. CASE IsCurrent(x)
      <3> DEFINE c == [calls[x.call] EXCEPT
                         !.status = IF x.result.elicitation = NONE THEN "closed"
                                    ELSE "eliciting",
                         !.answer = x.result.code]
      <3>1. calls' = [calls EXCEPT ![x.call] = c]
        BY <1>1, <2>2 DEF Report, Calls
      <3>2. /\ c \in Calls
            /\ c.kind = calls[x.call].kind
            /\ c.attempt = calls[x.call].attempt
            /\ c.attempt \in Nat
            /\ c.status \in {"closed", "eliciting"}
        BY <1>1 DEF Calls, Executions
      <3> HIDE DEF c
      <3> QED
        BY <1>1, <3>1, <3>2, OneCallGoesOn
    <2> QED
      BY <2>1, <2>2
  <1> QED
    BY <1>2 DEF Report, GoesOn, ExecutionsGoOn, ManagerGoesOn, mcpVars

\* Every step goes on with calls, executions and manager in this way.
LEMMA NextGoesOn ==
  ASSUME TypeOK, ServingKnown, [Next]_vars
  PROVE  GoesOn
  <1>1. CASE \E x \in executions : Work(x)
    BY <1>1, ToolGoesOn, McpGoesOn, DiscoveryGoesOn, ReportGoesOn DEF Work
  <1>2. CASE \E s \in Servers : Elicit(s)
    <2>1. UNCHANGED <<calls, executions, holder>>
      BY <1>2 DEF Elicit
    <2>2. PICK o \in serving \cup {NONE} :
            captured' = [origin |-> o, during |-> holder]
      BY <1>2 DEF Elicit
    <2>3. captured'.origin = o
      BY <2>2
    <2> QED
      BY <2>1, <2>3, CallsStay DEF GoesOn, ExecutionsGoOn, ManagerGoesOn
  <1>3. CASE \E k \in serving : ServerDone(k)
    <2>1. PICK k \in serving : ServerDone(k)
      BY <1>3
    <2>2. k[1] \in DOMAIN calls /\ calls' = [calls EXCEPT ![k[1]].effects = @ + 1]
      BY <2>1 DEF ServingKnown, ServerDone, TakesEffect
    <2>3. UNCHANGED <<executions, holder, captured>>
      BY <2>1 DEF ServerDone
    <2> QED
      BY <2>2, <2>3, EffectGoesOn DEF GoesOn, ExecutionsGoOn, ManagerGoesOn
  <1>4. CASE Crash
    BY <1>4, CallsStay DEF Crash, GoesOn, ExecutionsGoOn, ManagerGoesOn
  <1>5. CASE UNCHANGED vars
    BY <1>5, CallsStay DEF vars, GoesOn, ExecutionsGoOn, ManagerGoesOn
  <1> QED
    BY <1>1, <1>2, <1>3, <1>4, <1>5, WorkflowGoesOn, ServerGoesOn DEF Next

\* An elicitation that is not the call's own is that of an abandoned or a late
\* attempt (mcp.rs:26, activities.rs:380): two calls never hold the manager
\* together.
THEOREM OthersElicitationsAreLate == Spec => []ForeignElicitationsAreLate
  <1>1. Init => OriginInv
    BY DEF Init, OriginInv
  <1>2. ActivityInv /\ ActivityInv' /\ OriginInv /\ [Next]_vars => OriginInv'
    BY NextGoesOn, OriginKept DEF ActivityInv
  <1>3. TypeOK /\ OriginInv => ForeignElicitationsAreLate
    <2> SUFFICES ASSUME TypeOK, OriginInv,
                        NEW x \in executions, x.result.elicitation # NONE,
                        NEW y \in executions \ {x},
                        Key(y) = x.result.elicitation.origin
                 PROVE  y.stage = "report"
      BY DEF ForeignElicitationsAreLate
    <2>1. /\ y \in Executions /\ Key(y) # NONE
          /\ y.stage = "locked" <=> holder = Key(y)
      BY ExecutionTypes
    <2>2. Handed(Key(y)) /\ holder # Key(y)
      BY <2>1 DEF OriginInv
    <2>3. y.stage # "begin"
      BY <2>2 DEF Handed
    <2> QED
      BY <2>1, <2>2, <2>3 DEF Executions
  <1>4. ActivityInv => TypeOK
    BY DEF ActivityInv
  <1> QED
    BY <1>1, <1>2, <1>3, <1>4, ActivityInvHolds, PTL DEF Spec

=============================================================================

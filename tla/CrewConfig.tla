------------------------------ MODULE CrewConfig ------------------------------
(***************************************************************************)
(* How the input of a session is put together on the client: config.toml,  *)
(* environment variables and a crew file (src/src/config_loader.rs).       *)
(*                                                                         *)
(* A text is a sequence of tokens.  0 is a piece of literal text and k > 0 *)
(* the placeholder {key} of the k-th key in the order of a BTreeMap.       *)
(***************************************************************************)
EXTENDS Integers, Sequences
Ext == INSTANCE SequencesExt  \* for FlattenSeq

CONSTANTS
  NONE,      \* Option::None
  CrewFiles, \* file name -> crew of {CODEX_HOME}/crews, NONE if unparsable
  Keys       \* number of input names that occur in the crews

Literal == 0
Text == Seq(0..Keys)

IsTextOrNone(t) == t = NONE \/ t \in Text

\* Inputs are keys, with a text or nothing as default; the initial prompt and
\* every agent's instructions are texts, if they are there.
IsCrew(crew) ==
  /\ DOMAIN crew.inputs \subseteq 1..Keys
  /\ \A k \in DOMAIN crew.inputs : IsTextOrNone(crew.inputs[k].default)
  /\ IsTextOrNone(crew.initial_prompt)
  /\ \A a \in DOMAIN crew.agents :
       /\ DOMAIN crew.agents[a] = {"model", "instructions"}
       /\ IsTextOrNone(crew.agents[a].instructions)

ASSUME CrewAssumption ==
  /\ Keys \in Nat
  /\ \A f \in DOMAIN CrewFiles : CrewFiles[f] # NONE => IsCrew(CrewFiles[f])

-----------------------------------------------------------------------------
(* Crews                                                                   *)

Agent(model, instructions) == [model |-> model, instructions |-> instructions]

DefaultCrew ==
  [name |-> "codex-default", mode |-> "interactive", initial_prompt |-> NONE,
   inputs |-> <<>>, main_agent |-> "default", approval_policy |-> NONE,
   agents |-> [a \in {"default", "explorer", "worker"} |-> Agent(NONE, NONE)]]

\* NONE: there is no such crew, or its file cannot be parsed.
LoadCrew(name) ==
  IF name \in DOMAIN CrewFiles THEN CrewFiles[name]
  ELSE IF name = "codex-default" THEN DefaultCrew ELSE NONE

Members(crew) == DOMAIN crew.agents \ {crew.main_agent}

-----------------------------------------------------------------------------
(* Interpolation                                                           *)

\* Mutant: only the first placeholder of a key is replaced.
Replace_First(text, key, value) ==
  Ext!FlattenSeq([i \in DOMAIN text |->
                    IF text[i] = key /\ \A j \in 1..(i - 1) : text[j] # key
                    THEN value ELSE <<text[i]>>])

Replace(text, key, value) ==
  Ext!FlattenSeq([i \in DOMAIN text |->
                    IF text[i] = key THEN value ELSE <<text[i]>>])

\* One key after the other, each in what the ones before have left.
Interpolate(template, values) ==
  LET upTo[k \in 0..Keys] ==
        IF k = 0 THEN template
        ELSE IF k \in DOMAIN values THEN Replace(upTo[k - 1], k, values[k])
        ELSE upTo[k - 1]
  IN upTo[Keys]

Interpolated(template, values) ==
  IF template = NONE THEN NONE ELSE Interpolate(template, values)

-----------------------------------------------------------------------------
(* SessionWorkflowInput                                                    *)

\* What load_harness_config makes of config.toml: the members of the default
\* crew can be spawned in every session.
BaseInput(model, policy, web) ==
  [model |-> model, approval_policy |-> policy, web_search_mode |-> web,
   instructions |-> <<Literal>>, user_message |-> <<>>,
   crew_agents |-> [a \in Members(DefaultCrew) |-> DefaultCrew.agents[a]]]

\* A variable that is not set is NONE.  Any model is taken, a policy or mode
\* only if it is known; the other enumerations are treated like the policy.
ApplyEnv(input, env) ==
  [input EXCEPT
     !.model = IF env.model # NONE THEN env.model ELSE @,
     !.approval_policy =
       IF env.approval_policy \in {"never", "untrusted", "on-failure"}
       THEN env.approval_policy ELSE @,
     !.web_search_mode =
       CASE env.web_search_mode = "disabled" -> NONE
         [] env.web_search_mode \in {"live", "cached"} -> env.web_search_mode
         [] OTHER -> @]

Missing(crew, given) ==
  {k \in DOMAIN crew.inputs : /\ crew.inputs[k].required
                              /\ k \notin DOMAIN given
                              /\ crew.inputs[k].default = NONE}

\* Inputs the crew does not declare are left out.
Values(crew, given) ==
  LET known == {k \in DOMAIN crew.inputs :
                  k \in DOMAIN given \/ crew.inputs[k].default # NONE}
  IN [k \in known |-> IF k \in DOMAIN given THEN given[k]
                      ELSE crew.inputs[k].default]

\* NONE if a required input is missing.
ApplyCrew(crew, given, input) ==
  LET values == Values(crew, given)
      main == IF crew.main_agent \in DOMAIN crew.agents
              THEN crew.agents[crew.main_agent] ELSE Agent(NONE, NONE)
      members == [a \in Members(crew) |->
                    [crew.agents[a] EXCEPT
                       !.instructions = Interpolated(@, values)]]
  IN IF Missing(crew, given) # {} THEN NONE
     ELSE [input EXCEPT
             !.approval_policy = IF crew.approval_policy # NONE
                                 THEN crew.approval_policy ELSE @,
             !.model = IF main.model # NONE THEN main.model ELSE @,
             !.instructions = IF main.instructions # NONE
                              THEN Interpolate(main.instructions, values)
                              ELSE @,
             !.user_message =
               IF crew.mode = "autonomous" /\ crew.initial_prompt # NONE
               THEN Interpolate(crew.initial_prompt, values) ELSE @,
             !.crew_agents = [a \in Members(crew) \cup DOMAIN @ |->
                                IF a \in Members(crew) THEN members[a] ELSE @[a]]]

-----------------------------------------------------------------------------
(* The reference                                                           *)

\* Every placeholder of the template replaced at once.
Simultaneous(template, values) ==
  Ext!FlattenSeq([i \in DOMAIN template |->
                    IF template[i] \in DOMAIN values THEN values[template[i]]
                    ELSE <<template[i]>>])

\* No value holds a placeholder that is replaced after it.
Independent(values) ==
  \A k \in DOMAIN values : \A i \in DOMAIN values[k] :
    values[k][i] \in DOMAIN values => values[k][i] <= k
=============================================================================

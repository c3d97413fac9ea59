---------------------------- MODULE MCCodexHarness ----------------------------
(* Instances of CodexHarness for TLC.                                      *)
EXTENDS CodexHarness, TLC

\* branch is key 1, with a default, and repo_url key 2, required; the first
\* template uses one of them twice.
Monitor ==
  [name |-> "monitor", mode |-> "autonomous", initial_prompt |-> <<0, 2, 1, 2>>,
   inputs |-> <<[required |-> FALSE, default |-> <<0>>],
                [required |-> TRUE, default |-> NONE]>>,
   main_agent |-> "coordinator", approval_policy |-> "never",
   agents |-> [a \in {"coordinator", "worker"} |->
                 IF a = "coordinator" THEN Agent("mini", <<2, 0>>)
                 ELSE Agent(NONE, <<1>>)]]

MonitorFile == [f \in {"monitor"} |-> Monitor]

FromToml == [model |-> "default", approval_policy |-> "on-request",
             web_search_mode |-> "cached"]

NoEnv == [model |-> NONE, approval_policy |-> NONE, web_search_mode |-> NONE]
Overrides == [model |-> "other", approval_policy |-> "untrusted",
              web_search_mode |-> "disabled"]

Choice(env, crew, given) == [env |-> env, crew |-> crew, given |-> given]

\* For a crew: a plain value and the default; a value with the placeholder
\* {branch}, which has been replaced by then; one with {repo_url}, which is
\* next; no value for a required input; the built-in crew; and one that does
\* not exist.
SomeInvocations ==
  {Choice(Overrides, NONE, <<>>),
   Choice(NoEnv, "monitor", 2 :> <<0>>),
   Choice(Overrides, "monitor", 2 :> <<1, 0>>),
   Choice(Overrides, "monitor", (1 :> <<2>>) @@ (2 :> <<0, 0>>)),
   Choice(NoEnv, "monitor", <<>>),
   Choice(Overrides, "codex-default", <<>>),
   Choice(NoEnv, "missing", <<>>)}

Symmetry == Permutations(Launchers)
=============================================================================

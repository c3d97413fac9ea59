-------------------------- MODULE MCAgentWorkflow --------------------------
(* Instances of AgentWorkflow for TLC.                                     *)
EXTENDS AgentWorkflow

\* Every way a call can take through the handler.
AllRequests ==
  {<<"shell", "safe">>, <<"shell", "plain">>, <<"shell", "dangerous">>,
   <<"file", "read">>, <<"patch", "diff">>, <<"patch", "empty">>,
   <<"mcp", "tool">>, <<"input", "question">>, <<"input", "malformed">>,
   <<"dynamic", "tool">>}

\* One call that asks and one that does not.
TwoRequests == {<<"shell", "plain">>, <<"file", "read">>}

=============================================================================

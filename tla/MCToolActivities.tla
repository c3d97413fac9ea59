-------------------------- MODULE MCToolActivities --------------------------
(* Instances of ToolActivities for TLC.                                    *)
EXTENDS ToolActivities

\* One call for every way through the gates and the worker: a command that
\* the worker wants approved, one the user is asked about, one the worker
\* forbids, an MCP tool with good arguments and with bad ones, and the model.
EveryWay ==
  {<<"shell", "plain">>, <<"shell", "dangerous">>, <<"shell", "safe">>,
   <<"mcp", "s1">>, <<"mcp_malformed", "s1">>, <<"model", "turn">>}

=============================================================================

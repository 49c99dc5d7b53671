---------------------------- MODULE MCAgentLoop ----------------------------
(* Values of the constants of AgentLoop for TLC. *)
EXTENDS AgentLoop

NoKeys == {}
OneKey == {<<"mcp.lookup", "a">>}

\* A provider that reports exactly the local count.
Plain == {100}
=============================================================================

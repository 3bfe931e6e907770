---------------------------- MODULE MCMcpClient ----------------------------
(***************************************************************************)
(* McpClient for TLC: two tool calls and one connect() of the user.  Each  *)
(* call connects at most twice, so five connections are all there can be.  *)
(***************************************************************************)
EXTENDS McpClient

CONSTANTS c1, c2
MCCalls == {c1, c2}
MCConns == 1..5
=============================================================================

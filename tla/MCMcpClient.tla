---------------------------- MODULE MCMcpClient ----------------------------
(* Two calls of one server's tools.                                        *)
EXTENDS McpClient

CONSTANTS c1, c2
=============================================================================

-------------------------- MODULE MCServerManager --------------------------
(* Two servers and two concurrent callers of the power actions.            *)
EXTENDS ServerManager

CONSTANTS s1, s2, c1, c2

MCServers == {s1, s2}
TwoCallers == {c1, c2}
=============================================================================

---------------------------- MODULE MCAgentGate ----------------------------
(* An instance of AgentGate: a token for a harmless and a dangerous        *)
(* capability, and requests for both, in a scope that is remembered, in    *)
(* another one and in one that is too long, and for one not granted.       *)
EXTENDS AgentGate

CONSTANTS t1, s1, s2, long

MCGranted == [t \in Tokens |-> {"ScreenRead", "FileRead"}]
MCTtl == [t \in Tokens |-> 9]
MCKnownTokens == <<t1>>
MCRequests == {<<"ScreenRead", s1>>, <<"ShellExec", s1>>} \cup ({"FileRead"} \X Scopes)
=============================================================================

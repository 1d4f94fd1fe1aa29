--------------------------- MODULE MCControlPlane ---------------------------
(***************************************************************************)
(* Small instances of ControlPlane: one agent that exists and the ones     *)
(* that requests register, budgets on every level, and one whose task is   *)
(* the empty string.                                                       *)
(***************************************************************************)
EXTENDS ControlPlane

CONSTANTS s1, s2, s3, task1

On(agent, task) == [agent |-> agent, task |-> task]
TenantScope == On(Null, Null)
AgentScope == On(Root, Null)
Tenants == {TenantScope}
\* The last one has an agent that exists once session s1 has registered it.
MCScopes == {AgentScope, On(Root, Empty), On(s1, task1)}

Cols(tok, usd) == [c \in Column |-> IF c = "token_limit" THEN tok ELSE usd]
MCPosts == {NoCols, Cols(1, Null), Cols(1, 2), Cols(2, 1)}
OnePost == {Cols(1, Null)}
=============================================================================

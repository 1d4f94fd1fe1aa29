----------------------------- MODULE MCEnforcer -----------------------------
(***************************************************************************)
(* Small instances of Enforcer: one agent under one tenant, requests that  *)
(* carry an agent and requests that do not, and a configuration that is    *)
(* changed while requests are in flight.                                   *)
(***************************************************************************)
EXTENDS Enforcer, TLC

CONSTANTS agent, tenant, r1, r2, r3

Symmetry == Permutations(Req)

AmountOf(t, u) == [d \in Dim |-> IF d = "tokens" THEN t ELSE u]
Ref(scope, key, limit, rate) ==
  [scope |-> scope, key |-> key, limit |-> limit, rate |-> rate]

AgentRef == Ref("agent", agent, AmountOf(3, 2), AmountOf(1, 0))
TenantRef == Ref("tenant", tenant, AmountOf(4, 3), AmountOf(1, 1))
\* The tenant's row after an edit: fewer tokens, no dollar limit any more.
TenantEdited == Ref("tenant", tenant, AmountOf(2, 0), AmountOf(0, 0))

MCKey == {agent, tenant}
MCUnit == AmountOf(1, 2)
StableLists == {<<AgentRef, TenantRef>>, <<TenantRef>>}
EditedLists == {<<AgentRef, TenantRef>>, <<TenantEdited>>}
MCWants == {AmountOf(2, 1), AmountOf(1, 2), AmountOf(-1, -1)}
\* One estimate, and one whose computation overflowed.
FewWants == {AmountOf(2, 1), AmountOf(-1, -1)}
\* One full refund, one usage beyond the estimate.
FewActuals == {AmountOf(0, 0), AmountOf(3, 1)}
MCCap == (agent :> AmountOf(3, 2)) @@ (tenant :> AmountOf(4, 3))
MCRate == (agent :> AmountOf(1, 0)) @@ (tenant :> AmountOf(1, 1))

=============================================================================

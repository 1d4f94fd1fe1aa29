-------------------------- MODULE MCReconciliation --------------------------
(***************************************************************************)
(* Three tenants over three windows: drift in both directions, a provider  *)
(* that reports nothing, a difference exactly at the threshold, a day      *)
(* without spend.                                                          *)
(***************************************************************************)
EXTENDS Reconciliation, TLC

CONSTANTS t1, t2, t3

MCObserved ==
  [w \in Window |-> CASE w = 0 -> (t1 :> 21) @@ (t2 :> 19) @@ (t3 :> 100)
                      [] w = 1 -> (t1 :> 3) @@ (t2 :> 0)
                      [] OTHER -> << >>]
MCReported ==
  [w \in Window |-> CASE w = 0 -> (t1 :> 20) @@ (t2 :> 22) @@ (t3 :> 80)
                      [] w = 1 -> (t1 :> 0) @@ (t2 :> 0) @@ (t3 :> 5)
                      [] OTHER -> [t \in Tenant |-> 0]]
=============================================================================

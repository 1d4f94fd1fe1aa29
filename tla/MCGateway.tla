----------------------------- MODULE MCGateway ------------------------------
(***************************************************************************)
(* Small instances of Gateway: one tenant with one agent and one task, a   *)
(* tenant without a budget, and two or three versions of the table.        *)
(***************************************************************************)
EXTENDS Gateway, FiniteSetsExt, TLC

CONSTANTS tenant1, tenant2, agent1, task1, large, small, r1, r2, r3

Symmetry == Permutations(Req)

AmountOf(tok, usd) == [d \in Dim |-> IF d = "tokens" THEN tok ELSE usd]
Row(tok, usd, refill) == [token_limit |-> tok, dollar_limit |-> usd, refill |-> refill]

Tenant == <<tenant1, None, None>>
Agent == <<tenant1, agent1, None>>
Task == <<tenant1, agent1, task1>>
Stranger == <<tenant2, None, None>>
MCIdent == {Tenant, Agent, Task, Stranger}
MCKey == {KeyFor(Tenant, "tenant"), KeyFor(Agent, "agent"), KeyFor(Task, "task")}
MCUnit == AmountOf(1, 2)

Full == (Tenant :> Row(5, 10, 1)) @@ (Agent :> Row(4, Nil, 1))
Edited == (Tenant :> Row(Nil, 6, 1)) @@ (Task :> Row(4, 4, 0))
OneTable == {Full}
TokenTable == {(Tenant :> Row(5, Nil, 1)) @@ (Agent :> Row(4, Nil, 1))}
ZeroTable == {Tenant :> Row(0, Nil, 0)}
TwoTables == {Full, Edited}

\* The cheaper model has cheaper output only, as gpt-4.1 has to gpt-5.
MCPrices == (large :> [input |-> 1, cached |-> 0, output |-> 2])
            @@ (small :> [input |-> 2, cached |-> 0, output |-> 1])
MCFamily == (large :> "openai") @@ (small :> "openai") @@ (None :> "unknown")

BodyOf(m, in, max, stream) == [model |-> m, in |-> in, max |-> max, stream |-> stream]
Plain == BodyOf(large, 1, 2, FALSE)
Streamed == BodyOf(large, 2, 0, TRUE)
Overflowing == BodyOf(small, 1, MaxInt, FALSE)
MCBodies == {Plain, Streamed, Overflowing}
TwoBodies == {Plain, Streamed}
MCCallers == {Agent, Task, Stranger}
OneCaller == {Agent}
OneBody == {Plain}

UsageOf(in, cached, out) == [in |-> in, cached |-> cached, out |-> out]

Switch(m, conf) ==
  Says("switch_model", m, Nil, conf)
Reduce(n, conf) ==
  Says("reduce_max_tokens", None, n, conf)
FewUsages == {UsageOf(2, 1, 3)}
LowUsages == {UsageOf(1, 0, 1)}
NoTarget == Switch(None, 100)
\* No answer or none that can be read; too many suggestions; one that is wrong
\* and one that is not known; a switch that is not cheaper before one that is;
\* one that is not confident, twice, before a reduction.
MCAnswers ==
  {Raises, Unparsable, Mock,
   <<Switch(small, 90), Reduce(1, 90), NoTarget, NoTarget>>,
   <<Switch(small, 90), Reduce(0, 90)>>, <<Switch(small, 101)>>,
   <<[Switch(small, 90) EXCEPT !.type = "other"], Switch(small, 90)>>,
   <<NoTarget, Switch(large, 90), Switch(small, 60)>>,
   <<Switch(small, 59), Switch(small, 90), Reduce(2, 60)>>}
FewAnswers == {<<Switch(small, 60)>>}
NoAnswer == {Raises}

Largest(f(_, _)) ==
  [key \in Key |-> [d \in Dim |->
     Max({0} \cup {f(refs[i], d) : <<refs, i>> \in
            {x \in AllRefLists \X (1 .. 3) : x[2] \in DOMAIN x[1] /\ x[1][x[2]].key = key}})]]
MCCap == LET lim(ref, d) == ref.limit[d] IN Largest(lim)
MCRate == LET rat(ref, d) == ref.rate[d] IN Largest(rat)

=============================================================================

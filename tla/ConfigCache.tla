---------------------------- MODULE ConfigCache -----------------------------
(***************************************************************************)
(* What gateway/internal/budget/configcache.go computes: the limits made   *)
(* from a row of the budgets table, and the list of buckets a request is   *)
(* checked against.  Gateway.tla owns the table and the cached snapshot.   *)
(*                                                                         *)
(* A caller, a row and a bucket are identified by <<tenant, agent, task>>; *)
(* None is the empty string, or NULL, of an identifier that is not given.  *)
(* The clock ticks once per minute, so a rate per minute is one per tick.  *)
(***************************************************************************)
EXTENDS BudgetBucket

CONSTANTS
  None,     \* an identifier that is not given
  Ident     \* the <<tenant, agent, task>> that rows and callers can have

ConfigRow == [token_limit : Nat \cup {Nil}, dollar_limit : Nat \cup {Nil}, refill : Nat]

(* Key: the Redis key of a bucket; "-" fills what the scope does not have. *)
KeyFor(id, scope) ==
  CASE scope = "task" -> id
    [] scope = "agent" -> <<id[1], id[2], "-">>
    [] scope = "tenant" -> <<id[1], "-", "-">>

(* The bucket that a row of the budgets table configures. *)
BucketOf(id) ==
  KeyFor(id, IF id[3] # None THEN "task" ELSE IF id[2] # None THEN "agent" ELSE "tenant")

ASSUME ConfigAssumption == \A id \in Ident : id = <<id[1], id[2], id[3]>>

(* The Limits that Refresh makes of a row: NULL is a limit of 0, and the   *)
(* dollar rate is the token rate scaled to the dollar limit or, without a  *)
(* token limit, the whole dollar limit per minute.  The rows of an         *)
(* instance are such that the division is exact.                           *)
LimitsOf(row) ==
  LET tok == StoredOr(row.token_limit, 0)
      usd == StoredOr(row.dollar_limit, 0)
  IN  [limit |-> [d \in Dim |-> IF d = "tokens" THEN tok ELSE usd],
       rate |-> [d \in Dim |->
         CASE d = "tokens" -> IF row.token_limit = Nil THEN 0 ELSE row.refill
           [] d = "usd" -> IF tok > 0 THEN (row.refill * usd) \div tok ELSE usd]]

(* The snapshot that Refresh installs. *)
Load(table) == [id \in DOMAIN table |-> LimitsOf(table[id])]

(* Resolve: the buckets of a caller that have a row, most specific first.  *)
RefsAt(data, id, scope) ==
  IF id \in DOMAIN data
    THEN <<[scope |-> scope, key |-> KeyFor(id, scope),
            limit |-> data[id].limit, rate |-> data[id].rate]>>
    ELSE <<>>

Resolve(data, id) ==
  (IF id[3] # None THEN RefsAt(data, id, "task") ELSE <<>>)
  \o (IF id[2] # None THEN RefsAt(data, <<id[1], id[2], None>>, "agent") ELSE <<>>)
  \o RefsAt(data, <<id[1], None, None>>, "tenant")

=============================================================================

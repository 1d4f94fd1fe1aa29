---------------------------- MODULE ControlPlane ----------------------------
(***************************************************************************)
(* The writes of the control plane for one tenant: an agent is registered  *)
(* together with its key (controlplane/app/api/agents.py) and a budget is  *)
(* created or replaced (budgets.py); the gateway reloads the budgets table *)
(* into its cache (gateway/internal/budget/configcache.go).                *)
(*                                                                         *)
(* Each request runs in a database session of its own and other requests   *)
(* come in at every await.  Postgres is external: READ COMMITTED, UNIQUE   *)
(* as the migration declares it (NULLs are distinct, and an INSERT waits   *)
(* for an uncommitted one it conflicts with), and a connection that may be *)
(* lost at any statement.  A row's generated id is the session that        *)
(* inserted it.                                                            *)
(***************************************************************************)
EXTENDS Naturals, FiniteSets

CONSTANTS
  Session,    \* the requests, one session each
  Name,       \* names of agents
  Task,       \* task ids
  Limit,      \* the values of a limit
  Root,       \* the id of an agent that exists from the start
  Null,       \* NULL, None, an absent field
  Empty,      \* the empty string
  Scopes,     \* the scopes that budgets are posted for
  Posts,      \* the limits that are posted
  MaxLost     \* bound: how many connections are lost

AgentId == Session \cup {Root}
Column == {"token_limit", "dollar_limit"}
Columns == [Column -> Limit \cup {Null}]
Scope == [agent : AgentId \cup {Null}, task : Task \cup {Null, Empty}]
Row == [id : Session, scope : Scope, cols : Columns]

ASSUME ControlPlaneAssumption ==
  /\ Limit \subseteq Nat
  /\ Root \notin Session
  /\ {Null, Empty} \cap (Session \cup Task \cup {Root}) = {}
  /\ Null # Empty
  /\ Scopes \subseteq Scope
  /\ Posts \subseteq Columns
  /\ MaxLost \in Nat

VARIABLES
  agents,     \* the agents table
  keys,       \* the agents that rows of api_keys belong to
  budgets,    \* the budgets table
  req,        \* req[s]: the request of session s
  data,       \* ConfigCache.data in the gateway
  lost,       \* the number of connections lost
  wrote       \* history, wrote[i]: the upserts that wrote row i

tables == <<agents, keys, budgets>>
vars == <<agents, keys, budgets, req, data, lost, wrote>>

NoRow == [id |-> Null]

PC == {"idle", "insert", "update", "flush", "commit", "refresh", "done"}
Code == {0, 200, 400, 409, 500}
Request == [pc : PC, code : Code, name : Name \cup {Null}, scope : Scope, cols : Columns,
            found : Row \cup {NoRow}]
NoScope == [agent |-> Null, task |-> Null]
NoCols == [c \in Column |-> Null]
NewRequest ==
  [pc |-> "idle", code |-> 0, name |-> Null, scope |-> NoScope, cols |-> NoCols,
   found |-> NoRow]

Init ==
  /\ agents = {[id |-> Root, name |-> Null]}
  /\ keys = {Root}
  /\ budgets = {}
  /\ req = [s \in Session |-> NewRequest]
  /\ data = [k \in {} |-> 0]
  /\ lost = 0
  /\ wrote = [s \in Session |-> [by |-> {}, last |-> Null, fresh |-> TRUE]]

Respond(s, code) == req' = [req EXCEPT ![s].pc = "done", ![s].code = code]
Goto(s, pc) == req' = [req EXCEPT ![s].pc = pc]

-----------------------------------------------------------------------------
(* upsert_budget: at least one limit, then the row of the scope.  Two rows *)
(* make scalar_one_or_none raise.                                          *)
RowsOf(scope) == {b \in budgets : b.scope = scope}

UpsertSelect(s, scope, cols) ==
  /\ req[s].pc = "idle"
  /\ LET rows == RowsOf(scope)
         new == [NewRequest EXCEPT !.scope = scope, !.cols = cols]
         then(r) == req' = [req EXCEPT ![s] = r]
     IN  \/ cols = NoCols /\ then([NewRequest EXCEPT !.pc = "done", !.code = 400])
         \/ /\ cols # NoCols /\ Cardinality(rows) > 1
            /\ then([new EXCEPT !.pc = "done", !.code = 500])
         \/ /\ cols # NoCols /\ rows = {}
            /\ then([new EXCEPT !.pc = "insert"])
         \/ /\ cols # NoCols
            /\ \E row \in rows : rows = {row}
                                 /\ then([new EXCEPT !.pc = "update", !.found = row])
  /\ UNCHANGED <<tables, data, lost, wrote>>

(* UNIQUE (tenant_id, agent_id, task_id): NULLs never conflict. *)
Conflicts(scope) ==
  scope.agent # Null /\ scope.task # Null /\ RowsOf(scope) # {}

(* The INSERT and its commit. *)
UpsertInsert(s) ==
  /\ req[s].pc = "insert"
  /\ LET scope == req[s].scope
         known == scope.agent = Null \/ \E a \in agents : a.id = scope.agent
     IN  \/ /\ known /\ ~Conflicts(scope)
            /\ budgets' = budgets \cup {[id |-> s, scope |-> scope, cols |-> req[s].cols]}
            /\ wrote' = [wrote EXCEPT ![s] = [by |-> {s}, last |-> s, fresh |-> TRUE]]
            /\ Goto(s, "refresh")
         \/ /\ ~known \/ Conflicts(scope)
            /\ Respond(s, 500)
            /\ UNCHANGED <<budgets, wrote>>
  /\ UNCHANGED <<agents, keys, data, lost>>

(* The columns after an UPDATE by the ORM, which sends only those columns  *)
(* that differ from what it has loaded.  Mutant: only the fields that the  *)
(* request has are assigned.                                               *)
UpdatedPartially(cols, loaded, posted) ==
  [c \in Column |-> IF posted[c] # Null THEN posted[c] ELSE cols[c]]
Updated(cols, loaded, posted) ==
  [c \in Column |-> IF posted[c] # loaded[c] THEN posted[c] ELSE cols[c]]

UpsertUpdate(s) ==
  /\ req[s].pc = "update"
  /\ \E row \in budgets :
       /\ row.id = req[s].found.id
       /\ budgets' = (budgets \ {row}) \cup
                       {[row EXCEPT !.cols = Updated(@, req[s].found.cols, req[s].cols)]}
       /\ wrote' = [wrote EXCEPT ![row.id] =
                      [by |-> @.by \cup {s}, last |-> s, fresh |-> row = req[s].found]]
  /\ Goto(s, "refresh")
  /\ UNCHANGED <<agents, keys, data, lost>>

-----------------------------------------------------------------------------
(* create_agent: the name must be free, then agent and key are inserted in *)
(* one transaction.                                                        *)
Registered(name) == \E a \in agents : a.name = name

AgentSelect(s, name) ==
  /\ req[s].pc = "idle"
  /\ req' = [req EXCEPT ![s] =
               IF Registered(name)
                 THEN [NewRequest EXCEPT !.name = name, !.pc = "done", !.code = 409]
                 ELSE [NewRequest EXCEPT !.name = name, !.pc = "flush"]]
  /\ UNCHANGED <<tables, data, lost, wrote>>

(* The INSERT of the agent: it waits for another transaction that has      *)
(* inserted the name, and fails if that commits.                           *)
Pending(name) == \E t \in Session : req[t].pc = "commit" /\ req[t].name = name

(* Mutants: a committed name is waited for, too; nothing is waited for and *)
(* nothing refused.                                                        *)
AgentFlushWaits(s) ==
  /\ req[s].pc = "flush" /\ ~Pending(req[s].name) /\ ~Registered(req[s].name)
  /\ Goto(s, "commit")
  /\ UNCHANGED <<tables, data, lost, wrote>>
AgentFlushUnchecked(s) ==
  /\ req[s].pc = "flush"
  /\ Goto(s, "commit")
  /\ UNCHANGED <<tables, data, lost, wrote>>

AgentFlush(s) ==
  /\ req[s].pc = "flush" /\ ~Pending(req[s].name)
  /\ IF Registered(req[s].name) THEN Respond(s, 500) ELSE Goto(s, "commit")
  /\ UNCHANGED <<tables, data, lost, wrote>>

AgentCommit(s) ==
  /\ req[s].pc = "commit"
  /\ agents' = agents \cup {[id |-> s, name |-> req[s].name]}
  /\ keys' = keys \cup {s}
  /\ Goto(s, "refresh")
  /\ UNCHANGED <<budgets, data, lost, wrote>>

-----------------------------------------------------------------------------
(* session.refresh after the commit, and the answer. *)
Answer(s) ==
  /\ req[s].pc = "refresh"
  /\ Respond(s, 200)
  /\ UNCHANGED <<tables, data, lost, wrote>>

(* The connection is lost: what is not committed is rolled back.  After    *)
(* the commit the client sees an error for what has been done.             *)
Disconnect(s) ==
  /\ lost < MaxLost
  /\ req[s].pc \notin {"idle", "done"}
  /\ lost' = lost + 1
  /\ Respond(s, 500)
  /\ UNCHANGED <<tables, data, wrote>>

-----------------------------------------------------------------------------
(* Refresh: the cache key of a row has "" for NULL, so rows of the same    *)
(* scope, and those whose task is NULL and "", share a key; whichever row  *)
(* is scanned last wins.                                                   *)
CacheKey(scope) ==
  <<IF scope.agent = Null THEN Empty ELSE scope.agent,
    IF scope.task = Null THEN Empty ELSE scope.task>>

(* A limit that is NULL is 0, not enforced.  Mutant: it is taken over.     *)
LimitsAsStored(row) == row.cols
Limits(row) == [c \in Column |-> IF row.cols[c] = Null THEN 0 ELSE row.cols[c]]

Snapshot(snap) ==
  /\ DOMAIN snap = {CacheKey(b.scope) : b \in budgets}
  /\ \A k \in DOMAIN snap :
       \E b \in budgets : CacheKey(b.scope) = k /\ snap[k] = Limits(b)

Snapshots ==
  {snap \in [{CacheKey(b.scope) : b \in budgets} -> {Limits(b) : b \in budgets}] :
     Snapshot(snap)}

(* Mutant: what is cached is kept. *)
RefreshAdds ==
  /\ \E snap \in Snapshots :
       data' = [k \in DOMAIN snap \cup DOMAIN data |->
                  IF k \in DOMAIN data THEN data[k] ELSE snap[k]]
  /\ UNCHANGED <<tables, req, lost, wrote>>

(* A reload that fails leaves the cache as it is: a stuttering step. *)
Refresh ==
  /\ data' \in Snapshots
  /\ UNCHANGED <<tables, req, lost, wrote>>

-----------------------------------------------------------------------------
Step(s) ==
  \/ UpsertInsert(s) \/ UpsertUpdate(s)
  \/ AgentFlush(s) \/ AgentCommit(s)
  \/ Answer(s)

Next ==
  \/ \E s \in Session :
       \/ \E scope \in Scopes, cols \in Posts : UpsertSelect(s, scope, cols)
       \/ \E name \in Name : AgentSelect(s, name)
       \/ Step(s)
       \/ Disconnect(s)
  \/ Refresh

Spec == Init /\ [][Next]_vars

(* Statements return, and the refresh loop succeeds again and again. *)
FairSpec == Spec /\ WF_vars(Refresh) /\ \A s \in Session : WF_vars(Step(s))

-----------------------------------------------------------------------------
TypeOK ==
  /\ agents \subseteq [id : AgentId, name : Name \cup {Null}]
  /\ keys \subseteq AgentId
  /\ budgets \subseteq Row
  /\ req \in [Session -> Request]
  /\ wrote \in [Session -> [by : SUBSET Session, last : Session \cup {Null}, fresh : BOOLEAN]]
  /\ \A k \in DOMAIN data : data[k] \in [Column -> Limit \cup {0}]
  /\ lost \in 0 .. MaxLost

(* Registering an agent is all or nothing, whichever requests race and     *)
(* wherever a connection is lost: names are unique, every agent has its    *)
(* key and every key its agent, a success means that the agent is there    *)
(* and a conflict that another one is (agents.py:34-59).                   *)
AgentsWhole ==
  /\ \A a, b \in agents : a.name = b.name => a.id = b.id
  /\ keys = {a.id : a \in agents}
  /\ \A s \in Session : req[s].name # Null =>
       /\ req[s].code = 200 => s \in keys
       /\ req[s].code = 409 => \E a \in agents : a.name = req[s].name /\ a.id # s

(* An upsert replaces the limits of its scope as a whole, also those it    *)
(* does not have: unless the row changed between the SELECT and the        *)
(* UPDATE, the row is what the last accepted request posted.  If it did    *)
(* change, columns of both may be mixed, but every one of them was posted  *)
(* for this scope (budgets.py:81-98).                                      *)
RowsAsPosted ==
  \A b \in budgets :
    LET w == wrote[b.id]
    IN  /\ w.fresh => b.cols = req[w.last].cols
        /\ \A c \in Column : \E s \in w.by :
             req[s].scope = b.scope /\ req[s].cols[c] = b.cols[c]

(* An accepted upsert that no other request has since replaced, or raced   *)
(* with, and whose row does not share its cache key with another one.      *)
Stands(s) ==
  /\ req[s].code = 200
  /\ \E b \in budgets :
       /\ wrote[b.id].last = s /\ wrote[b.id].fresh
       /\ \A c \in budgets : CacheKey(c.scope) = CacheKey(b.scope) => c = b

Enforced(s) ==
  LET key == CacheKey(req[s].scope)
  IN  /\ key \in DOMAIN data
      /\ \A c \in Column :
           data[key][c] = IF req[s].cols[c] = Null THEN 0 ELSE req[s].cols[c]

(* In the end the gateway enforces what the request posted, both limits as *)
(* a whole and 0 for one that is absent, for every upsert that stands      *)
(* (budgets.py:81-98, configcache.go:57-130).  Nothing is said of rows     *)
(* that share a key: which of them is enforced is a matter of scan order.  *)
EditEnforced == \A s \in Session : <>[](Stands(s) => Enforced(s))

(* Every request is answered, also one that waits for the transaction of   *)
(* another.                                                                *)
Served == \A s \in Session : req[s].pc # "idle" ~> req[s].pc = "done"

-----------------------------------------------------------------------------
(* What the repository says, and the code does not do. *)

(* "Same (tenant, agent=None, task=None) scope -> updates the same row,    *)
(* doesn't create a second one." (controlplane/tests/test_budgets.py:60)   *)
OneRowPerScope == \A b, c \in budgets : b.scope = c.scope => b = c

=============================================================================

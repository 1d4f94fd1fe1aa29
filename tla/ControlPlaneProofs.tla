------------------------- MODULE ControlPlaneProofs -------------------------
(***************************************************************************)
(* What is proved of the control plane for any number of concurrent        *)
(* requests, all names, scopes and limits, and any number of connections   *)
(* that are lost: registering an agent is all or nothing, and the row of a *)
(* budget holds what was posted for it.                                    *)
(***************************************************************************)
EXTENDS ControlPlane, TLAPS

(* A request that has committed, or has been answered, keeps its fields. *)
Settled == {"refresh", "done"}

(* Only an answer has a code, and a session that writes a budget registers *)
(* no agent.                                                               *)
Phases ==
  \A s \in Session :
    /\ req[s].pc # "done" => req[s].code = 0
    /\ req[s].pc \in {"insert", "update"} => req[s].name = Null

(* A session whose INSERT has been executed but not committed holds a name *)
(* that nobody else holds or has.                                          *)
Reserved ==
  /\ \A s \in Session :
       /\ s \in keys => req[s].pc \in Settled
       /\ req[s].pc = "refresh" /\ req[s].name # Null => s \in keys
       /\ req[s].pc = "commit" => ~Registered(req[s].name)
  /\ \A s, t \in Session :
       req[s].pc = "commit" /\ req[t].pc = "commit" /\ req[s].name = req[t].name => s = t

(* Rows are told apart by their ids, whoever wrote one is done with it,    *)
(* and a session that has found a row updates a row of its own scope.      *)
Traced ==
  /\ \A b, c \in budgets : b.id = c.id => b = c
  /\ \A b \in budgets : /\ req[b.id].pc \in Settled
                        /\ wrote[b.id].last \in wrote[b.id].by
                        /\ \A s \in wrote[b.id].by : req[s].pc \in Settled
  /\ \A s \in Session : req[s].pc = "update" =>
       /\ req[s].found \in Row
       /\ \E b \in budgets : b.id = req[s].found.id /\ b.scope = req[s].scope

CInv == TypeOK /\ Phases /\ AgentsWhole /\ Reserved /\ RowsAsPosted /\ Traced

-----------------------------------------------------------------------------
(* The fields of a request after each of the three ways to change it. *)
LEMMA GotoFacts ==
  ASSUME req \in [Session -> Request], NEW s \in Session, NEW p \in PC, Goto(s, p)
  PROVE  /\ req' \in [Session -> Request]
         /\ \A t \in Session : t # s => req'[t] = req[t]
         /\ req'[s].pc = p /\ req'[s].code = req[s].code /\ req'[s].name = req[s].name
         /\ req'[s].scope = req[s].scope /\ req'[s].cols = req[s].cols
         /\ req'[s].found = req[s].found
  BY DEF Goto, Request

(* The answer to a request ends it and leaves every other request, and     *)
(* what this one had asked for, as they were.                              *)
LEMMA RespondFacts ==
  ASSUME req \in [Session -> Request], NEW s \in Session, NEW c \in Code, Respond(s, c)
  PROVE  /\ req' \in [Session -> Request]
         /\ \A t \in Session : t # s => req'[t] = req[t]
         /\ req'[s].pc = "done" /\ req'[s].code = c /\ req'[s].name = req[s].name
         /\ req'[s].scope = req[s].scope /\ req'[s].cols = req[s].cols
         /\ req'[s].found = req[s].found
  <1>1. "done" \in PC BY DEF PC
  <1> QED BY <1>1 DEF Respond, Request

(* A statement of one session replaces that session's request and no       *)
(* other.                                                                  *)
LEMMA SelectFacts ==
  ASSUME req \in [Session -> Request], NEW s \in Session, NEW r \in Request,
         req' = [req EXCEPT ![s] = r]
  PROVE  /\ req' \in [Session -> Request] /\ req'[s] = r
         /\ \A t \in Session : t # s => req'[t] = req[t]
  OBVIOUS

(* A request that has just arrived, and what it turns into. *)
LEMMA NewRequestFacts ==
  ASSUME NEW p \in PC, NEW c \in Code, NEW n \in Name \cup {Null}, NEW sc \in Scope,
         NEW co \in Columns, NEW f \in Row \cup {NoRow}
  PROVE  [pc |-> p, code |-> c, name |-> n, scope |-> sc, cols |-> co, found |-> f] \in Request
  BY DEF Request

(* An idle session asks for nothing, and what it has in place of a scope   *)
(* and of columns is well typed.                                           *)
LEMMA EmptyFacts ==
  /\ NoScope \in Scope /\ NoCols \in Columns /\ NewRequest \in Request
  /\ NewRequest.pc = "idle" /\ NewRequest.name = Null /\ NewRequest.code = 0
  <1>1. NoScope \in Scope /\ NoCols \in Columns BY DEF NoScope, NoCols, Scope, Columns
  <1>2. "idle" \in PC /\ 0 \in Code /\ Null \in Name \cup {Null} /\ NoRow \in Row \cup {NoRow}
    BY DEF PC, Code
  <1>3. NewRequest \in Request BY <1>1, <1>2, NewRequestFacts DEF NewRequest
  <1> QED BY <1>1, <1>3 DEF NewRequest

(* What a row, and a cached row, look like. *)
LEMMA LimitsType ==
  ASSUME NEW b \in Row
  PROVE  Limits(b) \in [Column -> Limit \cup {0}]
  <1>1. b.cols \in [Column -> Limit \cup {Null}] BY DEF Row, Columns
  <1> QED BY <1>1 DEF Limits

(* An update that finds the row as it was loaded leaves what was posted;   *)
(* otherwise a column is what was posted or what it was.                   *)
LEMMA UpdatedFacts ==
  ASSUME NEW cols \in Columns, NEW loaded \in Columns, NEW posted \in Columns
  PROVE  /\ Updated(cols, loaded, posted) \in Columns
         /\ cols = loaded => Updated(cols, loaded, posted) = posted
         /\ \A c \in Column : Updated(cols, loaded, posted)[c] \in {posted[c], cols[c]}
  BY DEF Updated, Columns

-----------------------------------------------------------------------------
(* The tables at the start. *)
LEMMA InitCInv ==
  ASSUME Init
  PROVE  CInv
  <1>e. /\ NewRequest \in Request
        /\ NewRequest.pc = "idle" /\ NewRequest.name = Null /\ NewRequest.code = 0
    BY EmptyFacts
  <1>1. /\ agents = {[id |-> Root, name |-> Null]} /\ keys = {Root} /\ budgets = {}
        /\ req = [s \in Session |-> NewRequest] /\ lost = 0
        /\ wrote = [s \in Session |-> [by |-> {}, last |-> Null, fresh |-> TRUE]]
        /\ data = [k \in {} |-> 0]
    BY DEF Init
  <1>2. \A s \in Session : req[s] = NewRequest BY <1>1
  <1>3. TypeOK
    <2>1. agents \subseteq [id : AgentId, name : Name \cup {Null}] /\ keys \subseteq AgentId
      BY <1>1 DEF AgentId
    <2>2. req \in [Session -> Request] BY <1>1, <1>e
    <2>3. wrote \in [Session -> [by : SUBSET Session, last : Session \cup {Null}, fresh : BOOLEAN]]
      BY <1>1
    <2>4. lost \in 0 .. MaxLost BY <1>1, ControlPlaneAssumption
    <2>5. DOMAIN data = {} BY <1>1
    <2> QED BY <1>1, <2>1, <2>2, <2>3, <2>4, <2>5 DEF TypeOK
  <1>4. Phases BY <1>2, <1>e DEF Phases
  <1>5. AgentsWhole BY <1>1, <1>2, <1>e DEF AgentsWhole
  <1>6. Reserved BY <1>1, <1>2, <1>e, ControlPlaneAssumption DEF Reserved
  <1>7. RowsAsPosted /\ Traced BY <1>1, <1>2, <1>e DEF RowsAsPosted, Traced
  <1> QED BY <1>3, <1>4, <1>5, <1>6, <1>7 DEF CInv

-----------------------------------------------------------------------------
(* A step of one session leaves the others alone, and itself once it has   *)
(* committed.                                                              *)
OwnStep(s) ==
  /\ \A t \in Session : t # s => req'[t] = req[t]
  /\ req[s].pc \in Settled => /\ req'[s].pc \in Settled
                              /\ req'[s].scope = req[s].scope /\ req'[s].cols = req[s].cols

(* Steps that write no budget. *)
LEMMA RowsStay ==
  ASSUME CInv, NEW s \in Session, OwnStep(s), UNCHANGED <<budgets, wrote>>,
         req'[s].pc = "update" =>
           /\ req'[s].found \in Row
           /\ \E b \in budgets : b.id = req'[s].found.id /\ b.scope = req'[s].scope
  PROVE  RowsAsPosted' /\ Traced'
  <1>t. TypeOK /\ RowsAsPosted /\ Traced BY DEF CInv
  <1>b. \A b \in budgets : b.id \in Session /\ wrote[b.id].by \subseteq Session
    BY <1>t DEF TypeOK, Row
  <1>1. ASSUME NEW t \in Session, req[t].pc \in Settled
        PROVE  req'[t].pc \in Settled /\ req'[t].scope = req[t].scope /\ req'[t].cols = req[t].cols
    BY <1>1 DEF OwnStep
  <1>2. ASSUME NEW b \in budgets
        PROVE  /\ req'[b.id].pc \in Settled
               /\ wrote[b.id].last \in wrote[b.id].by
               /\ \A t \in wrote[b.id].by : /\ req'[t].pc \in Settled
                                           /\ req'[t].scope = req[t].scope
                                           /\ req'[t].cols = req[t].cols
    BY <1>t, <1>b, <1>1 DEF Traced
  <1>3. RowsAsPosted' BY <1>t, <1>2 DEF RowsAsPosted
  <1>4. \A t \in Session : req'[t].pc = "update" =>
          /\ req'[t].found \in Row
          /\ \E b \in budgets : b.id = req'[t].found.id /\ b.scope = req'[t].scope
    BY <1>t DEF OwnStep, Traced
  <1>5. Traced' BY <1>t, <1>2, <1>4 DEF Traced
  <1> QED BY <1>3, <1>5

(* Steps that register no agent. *)
LEMMA AgentsStay ==
  ASSUME CInv, NEW s \in Session, OwnStep(s), UNCHANGED <<agents, keys>>,
         req'[s].pc = "refresh" /\ req'[s].name # Null => s \in keys,
         req'[s].pc = "commit" => /\ ~Registered(req'[s].name)
                                  /\ ~Pending(req'[s].name),
         req'[s].name # Null => /\ req'[s].code = 200 => s \in keys
                                /\ req'[s].code = 409 =>
                                     \E a \in agents : a.name = req'[s].name /\ a.id # s
  PROVE  AgentsWhole' /\ Reserved'
  <1>t. AgentsWhole /\ Reserved BY DEF CInv
  <1>2. \A t \in Session : t \in keys => req'[t].pc \in Settled BY <1>t DEF Reserved, OwnStep
  <1>3. \A t \in Session : req'[t].pc = "refresh" /\ req'[t].name # Null => t \in keys
    BY <1>t DEF Reserved, OwnStep
  <1>4. \A t \in Session : req'[t].pc = "commit" => ~Registered(req'[t].name)
    BY <1>t DEF Reserved, OwnStep
  <1>5. \A t, u \in Session :
          req'[t].pc = "commit" /\ req'[u].pc = "commit" /\ req'[t].name = req'[u].name => t = u
    BY <1>t DEF Reserved, OwnStep, Pending
  <1>6. Reserved'
    <2>1. \A t \in Session : req'[t].pc = "commit" => ~Registered(req[t].name)'
      BY <1>4 DEF Registered
    <2> QED BY <1>2, <1>3, <1>5, <2>1 DEF Reserved
  <1>7. \A t \in Session : req'[t].name # Null =>
          /\ req'[t].code = 200 => t \in keys
          /\ req'[t].code = 409 => \E a \in agents : a.name = req'[t].name /\ a.id # t
    BY <1>t DEF AgentsWhole, OwnStep
  <1>8. AgentsWhole' BY <1>t, <1>7 DEF AgentsWhole
  <1> QED BY <1>6, <1>8

(* The phase of one session. *)
LEMMA PhasesKept ==
  ASSUME CInv, NEW s \in Session, OwnStep(s),
         req'[s].pc # "done" => req'[s].code = 0,
         req'[s].pc \in {"insert", "update"} => req'[s].name = Null
  PROVE  Phases'
  BY DEF CInv, Phases, OwnStep

(* The codes are told apart. *)
LEMMA CodeFacts ==
  /\ 0 \in Code /\ 200 \in Code /\ 400 \in Code /\ 409 \in Code /\ 500 \in Code
  /\ \A c \in {0, 400, 500} : c # 200 /\ c # 409
  /\ 200 # 409
  BY DEF Code

(* A request that is turned away, by a lost connection or by Postgres. *)
LEMMA RespondKeeps ==
  ASSUME CInv, NEW s \in Session, Respond(s, 500), UNCHANGED <<agents, keys, budgets, data, wrote>>,
         lost' \in 0 .. MaxLost
  PROVE  CInv'
  <1>t. TypeOK BY DEF CInv
  <1>r. req \in [Session -> Request] BY <1>t DEF TypeOK
  <1> DEFINE code == 500
  <1>c. code \in Code /\ code # 200 /\ code # 409 BY CodeFacts
  <1>d. Respond(s, code) OBVIOUS
  <1> HIDE DEF code
  <1>1. /\ req' \in [Session -> Request]
        /\ \A t \in Session : t # s => req'[t] = req[t]
        /\ req'[s].pc = "done" /\ req'[s].code = code /\ req'[s].name = req[s].name
        /\ req'[s].scope = req[s].scope /\ req'[s].cols = req[s].cols
    BY <1>r, <1>c, <1>d, RespondFacts
  <1>2. OwnStep(s) BY <1>1 DEF OwnStep, Settled
  <1>3. RowsAsPosted' /\ Traced' BY <1>1, <1>2, RowsStay
  <1>4. AgentsWhole' /\ Reserved' BY <1>c, <1>1, <1>2, AgentsStay
  <1>5. Phases' BY <1>1, <1>2, PhasesKept
  <1>6. TypeOK' BY <1>1, <1>t DEF TypeOK
  <1> QED BY <1>3, <1>4, <1>5, <1>6 DEF CInv

(* The first statement of each request. *)
LEMMA SelectKeeps ==
  ASSUME CInv, NEW s \in Session, NEW r \in Request, req[s].pc = "idle",
         req' = [req EXCEPT ![s] = r], UNCHANGED <<tables, data, lost, wrote>>,
         r.pc \in {"done", "insert", "update", "flush"},
         r.pc # "done" => r.code = 0,
         r.pc \in {"insert", "update"} => r.name = Null,
         r.pc = "update" => r.found \in RowsOf(r.scope),
         r.code # 200,
         r.code = 409 => Registered(r.name)
  PROVE  CInv'
  <1>t. TypeOK /\ AgentsWhole /\ Reserved BY DEF CInv
  <1>r. req \in [Session -> Request] BY <1>t DEF TypeOK
  <1>1. /\ req' \in [Session -> Request] /\ req'[s] = r
        /\ \A t \in Session : t # s => req'[t] = req[t]
    BY <1>r, SelectFacts
  <1>2. OwnStep(s) BY <1>1 DEF OwnStep, Settled
  <1>3. UNCHANGED <<agents, keys, budgets, data, lost, wrote>> BY DEF tables
  <1>4. s \notin keys BY <1>t DEF Reserved, Settled
  <1>5. RowsAsPosted' /\ Traced'
    <2>1. budgets \subseteq Row BY <1>t DEF TypeOK
    <2>2. r.pc = "update" => /\ r.found \in Row
                             /\ \E b \in budgets : b.id = r.found.id /\ b.scope = r.scope
      BY <2>1 DEF RowsOf
    <2> QED BY <1>1, <1>2, <1>3, <2>2, RowsStay
  <1>6. AgentsWhole' /\ Reserved'
    <2>1. r.code = 409 => \E a \in agents : a.name = r.name /\ a.id # s
      BY <1>t, <1>4 DEF Registered, AgentsWhole
    <2> QED BY <1>1, <1>2, <1>3, <2>1, AgentsStay
  <1>7. Phases' BY <1>1, <1>2, PhasesKept
  <1>8. TypeOK' BY <1>1, <1>3, <1>t DEF TypeOK
  <1> QED BY <1>5, <1>6, <1>7, <1>8 DEF CInv

-----------------------------------------------------------------------------
(* upsert_budget, its SELECT. *)
LEMMA UpsertSelectKeeps ==
  ASSUME CInv, NEW s \in Session, NEW scope \in Scopes, NEW cols \in Posts,
         UpsertSelect(s, scope, cols)
  PROVE  CInv'
  <1> DEFINE new == [NewRequest EXCEPT !.scope = scope, !.cols = cols]
  <1>a. scope \in Scope /\ cols \in Columns BY ControlPlaneAssumption
  <1> DEFINE refused == [NewRequest EXCEPT !.pc = "done", !.code = 400]
             failed == [new EXCEPT !.pc = "done", !.code = 500]
             inserts == [new EXCEPT !.pc = "insert"]
             updates(row) == [new EXCEPT !.pc = "update", !.found = row]
  <1>m. \/ req' = [req EXCEPT ![s] = refused]
        \/ req' = [req EXCEPT ![s] = failed]
        \/ req' = [req EXCEPT ![s] = inserts]
        \/ \E row \in RowsOf(scope) : req' = [req EXCEPT ![s] = updates(row)]
    BY DEF UpsertSelect
  <1>n. PICK r : /\ req' = [req EXCEPT ![s] = r]
                 /\ \/ r = refused \/ r = failed \/ r = inserts
                    \/ \E row \in RowsOf(scope) : r = updates(row)
    <2> HIDE DEF refused, failed, inserts, updates
    <2> QED BY <1>m
  <1>b. req[s].pc = "idle" /\ UNCHANGED <<tables, data, lost, wrote>> BY DEF UpsertSelect
  <1>e. /\ NoScope \in Scope /\ NoCols \in Columns /\ 0 \in Code
        /\ Null \in Name \cup {Null} /\ NoRow \in Row \cup {NoRow}
    BY EmptyFacts, CodeFacts
  <1>p. "done" \in PC /\ "insert" \in PC /\ "update" \in PC BY DEF PC
  <1>1. CASE r = [NewRequest EXCEPT !.pc = "done", !.code = 400]
    <2> DEFINE code == 400
    <2>1. code \in Code /\ code # 200 /\ code # 409 BY CodeFacts
    <2>2. r = [pc |-> "done", code |-> code, name |-> Null, scope |-> NoScope, cols |-> NoCols,
               found |-> NoRow]
      BY <1>1 DEF NewRequest
    <2> HIDE DEF code
    <2>3. r \in Request BY <1>e, <1>p, <2>1, <2>2, NewRequestFacts
    <2>4. r.pc = "done" /\ r.code = code BY <2>2
    <2> QED BY <1>b, <1>n, <2>1, <2>3, <2>4, SelectKeeps
  <1>2. CASE r = [new EXCEPT !.pc = "done", !.code = 500]
    <2> DEFINE code == 500
    <2>1. code \in Code /\ code # 200 /\ code # 409 BY CodeFacts
    <2>2. r = [pc |-> "done", code |-> code, name |-> Null, scope |-> scope, cols |-> cols,
               found |-> NoRow]
      BY <1>2 DEF NewRequest
    <2> HIDE DEF code
    <2>3. r \in Request BY <1>a, <1>e, <1>p, <2>1, <2>2, NewRequestFacts
    <2>4. r.pc = "done" /\ r.code = code BY <2>2
    <2> QED BY <1>b, <1>n, <2>1, <2>3, <2>4, SelectKeeps
  <1>z. \A c \in {0} : c # 200 /\ c # 409 BY CodeFacts
  <1>3. CASE r = [new EXCEPT !.pc = "insert"]
    <2>2. r = [pc |-> "insert", code |-> 0, name |-> Null, scope |-> scope, cols |-> cols,
               found |-> NoRow]
      BY <1>3 DEF NewRequest
    <2>3. r \in Request BY <1>a, <1>e, <1>p, <2>2, NewRequestFacts
    <2>4. r.pc = "insert" /\ r.code = 0 /\ r.name = Null BY <2>2
    <2> QED BY <1>b, <1>n, <1>z, <2>3, <2>4, SelectKeeps
  <1>4. CASE \E row \in RowsOf(scope) : r = [new EXCEPT !.pc = "update", !.found = row]
    <2>1. PICK row \in RowsOf(scope) : r = [new EXCEPT !.pc = "update", !.found = row] BY <1>4
    <2>2. r = [pc |-> "update", code |-> 0, name |-> Null, scope |-> scope, cols |-> cols,
               found |-> row]
      BY <2>1 DEF NewRequest
    <2>3. row \in Row \cup {NoRow} BY DEF CInv, TypeOK, RowsOf
    <2>4. r \in Request BY <1>a, <1>e, <1>p, <2>2, <2>3, NewRequestFacts
    <2>5. /\ r.pc = "update" /\ r.code = 0 /\ r.name = Null
          /\ r.found \in RowsOf(r.scope)
      BY <2>2
    <2> QED BY <1>b, <1>n, <1>z, <2>4, <2>5, SelectKeeps
  <1> QED BY <1>n, <1>1, <1>2, <1>3, <1>4

(* create_agent, its SELECT. *)
LEMMA AgentSelectKeeps ==
  ASSUME CInv, NEW s \in Session, NEW name \in Name, AgentSelect(s, name)
  PROVE  CInv'
  <1> DEFINE code == 409
             r == IF Registered(name)
                    THEN [NewRequest EXCEPT !.name = name, !.pc = "done", !.code = code]
                    ELSE [NewRequest EXCEPT !.name = name, !.pc = "flush"]
  <1>b. req[s].pc = "idle" /\ req' = [req EXCEPT ![s] = r] /\ UNCHANGED <<tables, data, lost, wrote>>
    BY DEF AgentSelect
  <1>c. code \in Code /\ 0 \in Code /\ code # 200 BY CodeFacts
  <1>z. \A c \in {0} : c # 200 /\ c # 409 BY CodeFacts
  <1>e. /\ NoScope \in Scope /\ NoCols \in Columns /\ NoRow \in Row \cup {NoRow}
        /\ "done" \in PC /\ "flush" \in PC /\ name \in Name \cup {Null}
    BY EmptyFacts DEF PC
  <1>1. CASE Registered(name)
    <2>1. r = [pc |-> "done", code |-> code, name |-> name, scope |-> NoScope, cols |-> NoCols,
               found |-> NoRow]
      BY <1>1 DEF NewRequest
    <2> HIDE DEF r, code
    <2>2. r \in Request BY <1>c, <1>e, <2>1, NewRequestFacts
    <2>3. r.pc = "done" /\ r.code = code /\ r.name = name BY <2>1
    <2> QED BY <1>b, <1>c, <1>1, <2>2, <2>3, SelectKeeps
  <1>2. CASE ~Registered(name)
    <2>1. r = [pc |-> "flush", code |-> 0, name |-> name, scope |-> NoScope, cols |-> NoCols,
               found |-> NoRow]
      BY <1>2 DEF NewRequest
    <2> HIDE DEF r, code
    <2>2. r \in Request BY <1>c, <1>e, <2>1, NewRequestFacts
    <2>3. r.pc = "flush" /\ r.code = 0 BY <2>1
    <2> QED BY <1>b, <1>z, <2>2, <2>3, SelectKeeps
  <1> QED BY <1>1, <1>2

(* The INSERT of the agent: it takes a name that is free. *)
LEMMA AgentFlushKeeps ==
  ASSUME CInv, NEW s \in Session, AgentFlush(s)
  PROVE  CInv'
  <1>t. TypeOK /\ Phases BY DEF CInv
  <1>b. /\ req[s].pc = "flush" /\ ~Pending(req[s].name)
        /\ UNCHANGED <<agents, keys, budgets, data, lost, wrote>>
    BY DEF AgentFlush, tables
  <1>1. CASE Registered(req[s].name)
    <2>1. Respond(s, 500) BY <1>1 DEF AgentFlush
    <2>2. lost' \in 0 .. MaxLost BY <1>t, <1>b DEF TypeOK
    <2> QED BY <1>b, <2>1, <2>2, RespondKeeps
  <1>2. CASE ~Registered(req[s].name)
    <2>1. Goto(s, "commit") /\ "commit" \in PC BY <1>2 DEF AgentFlush, PC
    <2>2. /\ req' \in [Session -> Request]
          /\ \A t \in Session : t # s => req'[t] = req[t]
          /\ req'[s].pc = "commit" /\ req'[s].code = req[s].code /\ req'[s].name = req[s].name
      BY <1>t, <2>1, GotoFacts DEF TypeOK
    <2>3. OwnStep(s) BY <1>b, <2>2 DEF OwnStep, Settled
    <2>4. req[s].code = 0 BY <1>t, <1>b DEF Phases
    <2>5. Phases' BY <2>2, <2>3, <2>4, PhasesKept
    <2>6. RowsAsPosted' /\ Traced' BY <1>b, <2>2, <2>3, RowsStay
    <2>7. AgentsWhole' /\ Reserved'
      <3>1. req'[s].code # 200 /\ req'[s].code # 409 BY <2>2, <2>4, CodeFacts
      <3> QED BY <1>b, <1>2, <2>2, <2>3, <3>1, AgentsStay
    <2>8. TypeOK' BY <1>t, <1>b, <2>2 DEF TypeOK
    <2> QED BY <2>5, <2>6, <2>7, <2>8 DEF CInv
  <1> QED BY <1>1, <1>2

(* The commit of the agent and its key. *)
LEMMA AgentCommitKeeps ==
  ASSUME CInv, NEW s \in Session, AgentCommit(s)
  PROVE  CInv'
  <1>t. TypeOK /\ Phases /\ AgentsWhole /\ Reserved BY DEF CInv
  <1> DEFINE n == req[s].name
             a == [id |-> s, name |-> n]
  <1>b. /\ req[s].pc = "commit" /\ agents' = agents \cup {a} /\ keys' = keys \cup {s}
        /\ Goto(s, "refresh") /\ UNCHANGED <<budgets, data, lost, wrote>>
    BY DEF AgentCommit
  <1>1. "refresh" \in PC BY DEF PC
  <1>2. /\ req' \in [Session -> Request]
        /\ \A t \in Session : t # s => req'[t] = req[t]
        /\ req'[s].pc = "refresh" /\ req'[s].code = req[s].code /\ req'[s].name = req[s].name
    BY <1>t, <1>b, <1>1, GotoFacts DEF TypeOK
  <1>3. OwnStep(s) BY <1>b, <1>2 DEF OwnStep, Settled
  <1>4. req[s].code = 0 BY <1>t, <1>b DEF Phases
  <1>5. Phases' BY <1>2, <1>3, <1>4, PhasesKept
  <1>6. RowsAsPosted' /\ Traced' BY <1>b, <1>2, <1>3, RowsStay
  <1>7. a.id = s /\ a.name = n /\ n \in Name \cup {Null} BY <1>t DEF TypeOK, Request
  <1>8. TypeOK'
    <2>1. a \in [id : AgentId, name : Name \cup {Null}] BY <1>7 DEF AgentId
    <2> HIDE DEF a
    <2>2. agents' \subseteq [id : AgentId, name : Name \cup {Null}] /\ keys' \subseteq AgentId
      BY <1>t, <1>b, <2>1 DEF TypeOK, AgentId
    <2> QED BY <1>t, <1>b, <1>2, <2>2 DEF TypeOK
  <1>9. ~Registered(n) BY <1>t, <1>b DEF Reserved
  <1> HIDE DEF a, n
  <1>10. Reserved'
    <2>1. \A t \in Session : t \in keys' => req'[t].pc \in Settled
      BY <1>t, <1>b, <1>2 DEF Reserved, Settled
    <2>2. \A t \in Session : req'[t].pc = "refresh" /\ req'[t].name # Null => t \in keys'
      BY <1>t, <1>b, <1>2 DEF Reserved
    <2>3. ASSUME NEW t \in Session, req'[t].pc = "commit" PROVE ~Registered(req[t].name)'
      <3>1. t # s /\ req'[t] = req[t] /\ req[t].pc = "commit" BY <1>2, <2>3
      <3>2. req[t].name # n BY <1>t, <1>b, <3>1 DEF Reserved, n
      <3>3. ~Registered(req[t].name) BY <1>t, <3>1 DEF Reserved
      <3> QED BY <1>b, <1>7, <3>1, <3>2, <3>3 DEF Registered
    <2>4. \A t, u \in Session :
            req'[t].pc = "commit" /\ req'[u].pc = "commit" /\ req'[t].name = req'[u].name => t = u
      BY <1>t, <1>2 DEF Reserved
    <2> QED BY <2>1, <2>2, <2>3, <2>4 DEF Reserved
  <1>11. AgentsWhole'
    <2>1. \A x, y \in agents' : x.name = y.name => x.id = y.id
      BY <1>t, <1>b, <1>7, <1>9 DEF AgentsWhole, Registered
    <2>2. keys' = {x.id : x \in agents'} BY <1>t, <1>b, <1>7 DEF AgentsWhole
    <2>3. ASSUME NEW t \in Session, req'[t].name # Null
          PROVE  /\ req'[t].code = 200 => t \in keys'
                 /\ req'[t].code = 409 => \E x \in agents' : x.name = req'[t].name /\ x.id # t
      <3>1. CASE t # s BY <1>t, <1>b, <1>2, <2>3, <3>1 DEF AgentsWhole
      <3>2. CASE t = s
        <4>1. req'[t].code # 200 /\ req'[t].code # 409 BY <1>2, <1>4, <3>2, CodeFacts
        <4> QED BY <4>1
      <3> QED BY <3>1, <3>2
    <2> QED BY <2>1, <2>2, <2>3 DEF AgentsWhole
  <1> QED BY <1>5, <1>6, <1>8, <1>10, <1>11 DEF CInv

(* The answer after the commit. *)
LEMMA AnswerKeeps ==
  ASSUME CInv, NEW s \in Session, Answer(s)
  PROVE  CInv'
  <1>t. TypeOK /\ Reserved BY DEF CInv
  <1> DEFINE code == 200
  <1>b. /\ req[s].pc = "refresh" /\ Respond(s, code)
        /\ UNCHANGED <<agents, keys, budgets, data, lost, wrote>>
    BY DEF Answer, tables
  <1>c. code \in Code /\ code # 409 BY CodeFacts
  <1> HIDE DEF code
  <1>1. /\ req' \in [Session -> Request]
        /\ \A t \in Session : t # s => req'[t] = req[t]
        /\ req'[s].pc = "done" /\ req'[s].code = code /\ req'[s].name = req[s].name
        /\ req'[s].scope = req[s].scope /\ req'[s].cols = req[s].cols
    BY <1>t, <1>b, <1>c, RespondFacts DEF TypeOK
  <1>2. OwnStep(s) BY <1>1 DEF OwnStep, Settled
  <1>3. req[s].name # Null => s \in keys BY <1>t, <1>b DEF Reserved
  <1>4. Phases' BY <1>1, <1>2, PhasesKept
  <1>5. RowsAsPosted' /\ Traced' BY <1>b, <1>1, <1>2, RowsStay
  <1>6. AgentsWhole' /\ Reserved' BY <1>b, <1>c, <1>1, <1>2, <1>3, AgentsStay
  <1>7. TypeOK' BY <1>t, <1>b, <1>1 DEF TypeOK
  <1> QED BY <1>4, <1>5, <1>6, <1>7 DEF CInv

(* The INSERT of a budget: its row belongs to a session that has written   *)
(* nothing before.                                                         *)
LEMMA UpsertInsertKeeps ==
  ASSUME CInv, NEW s \in Session, UpsertInsert(s)
  PROVE  CInv'
  <1>t. TypeOK /\ Phases /\ RowsAsPosted /\ Traced BY DEF CInv
  <1> DEFINE b0 == [id |-> s, scope |-> req[s].scope, cols |-> req[s].cols]
             w0 == [by |-> {s}, last |-> s, fresh |-> TRUE]
  <1>b. req[s].pc = "insert" /\ UNCHANGED <<agents, keys, data, lost>> BY DEF UpsertInsert
  <1>1. CASE Respond(s, 500) /\ UNCHANGED <<budgets, wrote>>
    <2>1. lost' \in 0 .. MaxLost BY <1>t, <1>b DEF TypeOK
    <2> QED BY <1>b, <1>1, <2>1, RespondKeeps
  <1>2. CASE budgets' = budgets \cup {b0} /\ wrote' = [wrote EXCEPT ![s] = w0] /\ Goto(s, "refresh")
    <2>1. "refresh" \in PC BY DEF PC
    <2>2. /\ req' \in [Session -> Request]
          /\ \A t \in Session : t # s => req'[t] = req[t]
          /\ req'[s].pc = "refresh" /\ req'[s].code = req[s].code /\ req'[s].name = req[s].name
          /\ req'[s].scope = req[s].scope /\ req'[s].cols = req[s].cols
      BY <1>t, <1>2, <2>1, GotoFacts DEF TypeOK
    <2>3. OwnStep(s) BY <1>b, <2>2 DEF OwnStep, Settled
    <2>4. req[s].code = 0 /\ req[s].name = Null BY <1>t, <1>b DEF Phases
    <2>5. Phases' BY <2>2, <2>3, <2>4, PhasesKept
    <2>6. AgentsWhole' /\ Reserved' BY <1>b, <2>2, <2>3, <2>4, AgentsStay
    <2>7. /\ b0 \in Row /\ b0.id = s /\ b0.scope = req[s].scope /\ b0.cols = req[s].cols
      BY <1>t DEF TypeOK, Request, Row
    <2>8. /\ w0 \in [by : SUBSET Session, last : Session \cup {Null}, fresh : BOOLEAN]
          /\ w0.by = {s} /\ w0.last = s
      OBVIOUS
    <2> HIDE DEF b0, w0
    <2>9. /\ wrote' \in [Session -> [by : SUBSET Session, last : Session \cup {Null},
                                      fresh : BOOLEAN]]
          /\ wrote'[s] = w0 /\ \A t \in Session : t # s => wrote'[t] = wrote[t]
      BY <1>t, <1>2, <2>8 DEF TypeOK
    <2>10. TypeOK'
      <3>1. budgets' \subseteq Row BY <1>t, <1>2, <2>7 DEF TypeOK
      <3> QED BY <1>t, <1>b, <2>2, <2>9, <3>1 DEF TypeOK
    <2>11. ASSUME NEW b \in budgets
           PROVE  /\ b.id \in Session /\ b.id # s /\ wrote'[b.id] = wrote[b.id]
                  /\ req'[b.id] = req[b.id]
                  /\ wrote[b.id].last \in wrote[b.id].by
                  /\ \A t \in wrote[b.id].by : t \in Session /\ req'[t] = req[t]
      <3>1. b.id \in Session /\ wrote[b.id].by \subseteq Session BY <1>t DEF TypeOK, Row
      <3>2. /\ req[b.id].pc \in Settled /\ wrote[b.id].last \in wrote[b.id].by
            /\ \A t \in wrote[b.id].by : req[t].pc \in Settled
        BY <1>t DEF Traced
      <3>3. req[s].pc \notin Settled BY <1>b DEF Settled
      <3>4. b.id # s BY <3>2, <3>3
      <3>5. \A t \in wrote[b.id].by : t # s BY <3>2, <3>3
      <3> QED BY <2>2, <2>9, <3>1, <3>2, <3>4, <3>5
    <2>12. RowsAsPosted'
      <3>1. ASSUME NEW b \in budgets
            PROVE  /\ wrote'[b.id].fresh => b.cols = req'[wrote'[b.id].last].cols
                   /\ \A c \in Column : \E t \in wrote'[b.id].by :
                        req'[t].scope = b.scope /\ req'[t].cols[c] = b.cols[c]
        BY <1>t, <2>11 DEF RowsAsPosted
      <3>2. /\ wrote'[b0.id].fresh => b0.cols = req'[wrote'[b0.id].last].cols
            /\ \A c \in Column : \E t \in wrote'[b0.id].by :
                 req'[t].scope = b0.scope /\ req'[t].cols[c] = b0.cols[c]
        BY <2>2, <2>7, <2>8, <2>9
      <3> QED BY <1>2, <3>1, <3>2 DEF RowsAsPosted
    <2>13. Traced'
      <3>1. \A b, c \in budgets' : b.id = c.id => b = c
        BY <1>t, <1>2, <2>7, <2>11 DEF Traced
      <3>2. \A b \in budgets : /\ req'[b.id].pc \in Settled
                               /\ wrote'[b.id].last \in wrote'[b.id].by
                               /\ \A t \in wrote'[b.id].by : req'[t].pc \in Settled
        BY <1>t, <2>11 DEF Traced
      <3>3. /\ req'[b0.id].pc \in Settled /\ wrote'[b0.id].last \in wrote'[b0.id].by
            /\ \A t \in wrote'[b0.id].by : req'[t].pc \in Settled
        BY <2>2, <2>7, <2>8, <2>9 DEF Settled
      <3>4. \A t \in Session : req'[t].pc = "update" =>
              /\ req'[t].found \in Row
              /\ \E b \in budgets' : b.id = req'[t].found.id /\ b.scope = req'[t].scope
        BY <1>t, <1>2, <2>2 DEF Traced
      <3> QED BY <1>2, <3>1, <3>2, <3>3, <3>4 DEF Traced
    <2> QED BY <2>5, <2>6, <2>10, <2>12, <2>13 DEF CInv
  <1> QED BY <1>1, <1>2 DEF UpsertInsert

(* The UPDATE of a budget: a column is posted anew, or has not been        *)
(* changed since it was posted before.                                     *)
LEMMA UpsertUpdateKeeps ==
  ASSUME CInv, NEW s \in Session, UpsertUpdate(s)
  PROVE  CInv'
  <1>t. TypeOK /\ Phases /\ RowsAsPosted /\ Traced BY DEF CInv
  <1>b. req[s].pc = "update" /\ Goto(s, "refresh") /\ UNCHANGED <<agents, keys, data, lost>>
    BY DEF UpsertUpdate
  <1> DEFINE found == req[s].found
             cols(row) == Updated(row.cols, found.cols, req[s].cols)
             new(row) == [row EXCEPT !.cols = cols(row)]
             rec(row) == [by |-> wrote[row.id].by \cup {s}, last |-> s, fresh |-> row = found]
  <1>p. PICK row \in budgets :
          /\ row.id = found.id
          /\ budgets' = (budgets \ {row}) \cup {new(row)}
          /\ wrote' = [wrote EXCEPT ![row.id] = rec(row)]
    BY DEF UpsertUpdate
  <1>1. "refresh" \in PC BY DEF PC
  <1>2. /\ req' \in [Session -> Request]
        /\ \A t \in Session : t # s => req'[t] = req[t]
        /\ req'[s].pc = "refresh" /\ req'[s].code = req[s].code /\ req'[s].name = req[s].name
        /\ req'[s].scope = req[s].scope /\ req'[s].cols = req[s].cols
    BY <1>t, <1>b, <1>1, GotoFacts DEF TypeOK
  <1>3. OwnStep(s) BY <1>b, <1>2 DEF OwnStep, Settled
  <1>4. req[s].code = 0 /\ req[s].name = Null BY <1>t, <1>b DEF Phases
  <1>5. Phases' BY <1>2, <1>3, <1>4, PhasesKept
  <1>6. AgentsWhole' /\ Reserved' BY <1>b, <1>2, <1>3, <1>4, AgentsStay
  <1>7. /\ found \in Row
        /\ row \in Row /\ row.scope = req[s].scope /\ req[s].cols \in Columns
    <2>1. found \in Row /\ \E b \in budgets : b.id = found.id /\ b.scope = req[s].scope
      BY <1>t, <1>b DEF Traced
    <2>2. \A b \in budgets : b.id = row.id => b = row BY <1>t DEF Traced
    <2> QED BY <1>t, <1>p, <2>1, <2>2 DEF TypeOK, Request
  <1>8. /\ cols(row) \in Columns
        /\ row.cols = found.cols => cols(row) = req[s].cols
        /\ \A c \in Column : cols(row)[c] \in {req[s].cols[c], row.cols[c]}
    <2>1. row.cols \in Columns /\ found.cols \in Columns BY <1>7 DEF Row
    <2> QED BY <1>7, <2>1, UpdatedFacts
  <1>9. /\ new(row) \in Row /\ new(row).id = row.id /\ new(row).scope = row.scope
        /\ new(row).cols = cols(row) /\ row.id \in Session
    <2> HIDE DEF cols
    <2> QED BY <1>7, <1>8 DEF Row
  <1>10. /\ rec(row) \in [by : SUBSET Session, last : Session \cup {Null}, fresh : BOOLEAN]
         /\ rec(row).by = wrote[row.id].by \cup {s} /\ rec(row).last = s
         /\ rec(row).fresh => row = found
    <2>1. wrote[row.id].by \subseteq Session BY <1>t, <1>9 DEF TypeOK
    <2>2. (row = found) \in BOOLEAN OBVIOUS
    <2> DEFINE same == row = found
               by == wrote[row.id].by \cup {s}
    <2>3. rec(row) = [by |-> by, last |-> s, fresh |-> same] OBVIOUS
    <2>4. by \in SUBSET Session /\ same \in BOOLEAN BY <2>1, <2>2
    <2>5. same => row = found OBVIOUS
    <2> HIDE DEF same, by, rec
    <2>6. /\ rec(row) \in [by : SUBSET Session, last : Session \cup {Null}, fresh : BOOLEAN]
          /\ rec(row).by = by /\ rec(row).last = s /\ rec(row).fresh = same
      BY <2>3, <2>4
    <2> QED BY <2>5, <2>6 DEF by
  <1> DEFINE b0 == new(row)
             w0 == rec(row)
  <1>11. /\ b0 \in Row /\ b0.id = row.id /\ b0.scope = row.scope /\ b0.cols = cols(row)
         /\ w0 \in [by : SUBSET Session, last : Session \cup {Null}, fresh : BOOLEAN]
         /\ w0.by = wrote[row.id].by \cup {s} /\ w0.last = s
         /\ w0.fresh => row = found
         /\ budgets' = (budgets \ {row}) \cup {b0}
         /\ wrote' = [wrote EXCEPT ![row.id] = w0]
    BY <1>p, <1>9, <1>10
  <1> HIDE DEF b0, w0, new, rec, cols
  <1>12. /\ wrote' \in [Session -> [by : SUBSET Session, last : Session \cup {Null},
                                     fresh : BOOLEAN]]
         /\ wrote'[row.id] = w0 /\ \A t \in Session : t # row.id => wrote'[t] = wrote[t]
    BY <1>t, <1>9, <1>11 DEF TypeOK
  <1>13. TypeOK'
    <2>1. budgets' \subseteq Row BY <1>t, <1>11 DEF TypeOK
    <2> QED BY <1>t, <1>b, <1>2, <1>12, <2>1 DEF TypeOK
  <1>14. ASSUME NEW b \in budgets
         PROVE  /\ b.id \in Session
                /\ req'[b.id].pc \in Settled
                /\ wrote[b.id].last \in wrote[b.id].by
                /\ \A t \in wrote[b.id].by :
                     t \in Session /\ req'[t] = req[t] /\ req'[t].pc \in Settled
                /\ b # row => b.id # row.id /\ wrote'[b.id] = wrote[b.id]
    <2>1. b.id \in Session /\ wrote[b.id].by \subseteq Session BY <1>t DEF TypeOK, Row
    <2>2. /\ req[b.id].pc \in Settled /\ wrote[b.id].last \in wrote[b.id].by
          /\ \A t \in wrote[b.id].by : req[t].pc \in Settled
          /\ b # row => b.id # row.id
      BY <1>t DEF Traced
    <2>3. req[s].pc \notin Settled BY <1>b DEF Settled
    <2>4. b.id # s /\ \A t \in wrote[b.id].by : t # s BY <2>2, <2>3
    <2> QED BY <1>2, <1>12, <2>1, <2>2, <2>4
  <1>15. RowsAsPosted'
    <2>1. ASSUME NEW b \in budgets, b # row
          PROVE  /\ wrote'[b.id].fresh => b.cols = req'[wrote'[b.id].last].cols
                 /\ \A c \in Column : \E t \in wrote'[b.id].by :
                      req'[t].scope = b.scope /\ req'[t].cols[c] = b.cols[c]
      BY <1>t, <1>14, <2>1 DEF RowsAsPosted
    <2>2. wrote'[b0.id].fresh => b0.cols = req'[wrote'[b0.id].last].cols
      BY <1>2, <1>8, <1>11, <1>12
    <2>3. ASSUME NEW c \in Column
          PROVE  \E t \in wrote'[b0.id].by : req'[t].scope = b0.scope /\ req'[t].cols[c] = b0.cols[c]
      <3>1. CASE cols(row)[c] = req[s].cols[c] BY <1>2, <1>7, <1>11, <1>12, <3>1
      <3>2. CASE cols(row)[c] = row.cols[c]
        <4>1. PICK t \in wrote[row.id].by : req[t].scope = row.scope /\ req[t].cols[c] = row.cols[c]
          BY <1>t DEF RowsAsPosted
        <4>2. t \in wrote'[b0.id].by /\ req'[t] = req[t] BY <1>11, <1>12, <1>14
        <4> QED BY <1>11, <3>2, <4>1, <4>2
      <3> QED BY <1>8, <3>1, <3>2
    <2> QED BY <1>11, <2>1, <2>2, <2>3 DEF RowsAsPosted
  <1>16. Traced'
    <2>1. \A b, c \in budgets' : b.id = c.id => b = c BY <1>t, <1>11, <1>14 DEF Traced
    <2>2. \A b \in budgets : b # row =>
            /\ req'[b.id].pc \in Settled
            /\ wrote'[b.id].last \in wrote'[b.id].by
            /\ \A t \in wrote'[b.id].by : req'[t].pc \in Settled
      BY <1>14
    <2>3. /\ req'[b0.id].pc \in Settled /\ wrote'[b0.id].last \in wrote'[b0.id].by
          /\ \A t \in wrote'[b0.id].by : req'[t].pc \in Settled
      BY <1>2, <1>11, <1>12, <1>14 DEF Settled
    <2>4. ASSUME NEW t \in Session, req'[t].pc = "update"
          PROVE  /\ req'[t].found \in Row
                 /\ \E b \in budgets' : b.id = req'[t].found.id /\ b.scope = req'[t].scope
      <3>1. t # s /\ req'[t] = req[t] BY <1>2, <2>4
      <3>2. req[t].found \in Row /\ \E b \in budgets : b.id = req[t].found.id /\ b.scope = req[t].scope
        BY <1>t, <2>4, <3>1 DEF Traced
      <3> QED BY <1>11, <3>1, <3>2
    <2> QED BY <1>11, <2>1, <2>2, <2>3, <2>4 DEF Traced
  <1> QED BY <1>5, <1>6, <1>13, <1>15, <1>16 DEF CInv

(* The gateway's reload. *)
LEMMA RefreshKeeps ==
  ASSUME CInv, Refresh
  PROVE  CInv'
  <1>1. data' \in Snapshots /\ UNCHANGED <<agents, keys, budgets, req, lost, wrote>>
    BY DEF Refresh, tables
  <1>2. data' \in [{CacheKey(b.scope) : b \in budgets} -> {Limits(b) : b \in budgets}]
    BY <1>1 DEF Snapshots
  <1>3. {Limits(b) : b \in budgets} \subseteq [Column -> Limit \cup {0}]
    <2>1. budgets \subseteq Row BY DEF CInv, TypeOK
    <2> QED BY <2>1, LimitsType
  <1>4. \A k \in DOMAIN data' : data'[k] \in [Column -> Limit \cup {0}] BY <1>2, <1>3
  <1>5. TypeOK' BY <1>1, <1>4 DEF CInv, TypeOK
  <1>6. Phases' /\ Traced' /\ RowsAsPosted' BY <1>1 DEF CInv, Phases, Traced, RowsAsPosted
  <1>7. Reserved' /\ AgentsWhole' BY <1>1 DEF CInv, Reserved, AgentsWhole, Registered
  <1> QED BY <1>5, <1>6, <1>7 DEF CInv

(* Every statement of every session keeps the invariant. *)
LEMMA NextCInv ==
  ASSUME CInv, [Next]_vars
  PROVE  CInv'
  <1>1. ASSUME NEW s \in Session, NEW scope \in Scopes, NEW cols \in Posts,
               UpsertSelect(s, scope, cols)
        PROVE  CInv'
    BY <1>1, UpsertSelectKeeps
  <1>2. ASSUME NEW s \in Session, NEW name \in Name, AgentSelect(s, name) PROVE CInv'
    BY <1>2, AgentSelectKeeps
  <1>3. ASSUME NEW s \in Session, Step(s) PROVE CInv'
    BY <1>3, UpsertInsertKeeps, UpsertUpdateKeeps, AgentFlushKeeps, AgentCommitKeeps, AnswerKeeps
       DEF Step
  <1>4. ASSUME NEW s \in Session, Disconnect(s) PROVE CInv'
    <2>1. lost' \in 0 .. MaxLost
      <3>1. lost \in 0 .. MaxLost BY DEF CInv, TypeOK
      <3> QED BY <1>4, <3>1, ControlPlaneAssumption DEF Disconnect
    <2>2. Respond(s, 500) /\ UNCHANGED <<agents, keys, budgets, data, wrote>>
      BY <1>4 DEF Disconnect, tables
    <2> QED BY <2>1, <2>2, RespondKeeps
  <1>5. CASE Refresh BY <1>5, RefreshKeeps
  <1>6. CASE UNCHANGED vars
    BY <1>6 DEF vars, CInv, TypeOK, Phases, AgentsWhole, Reserved, Registered, RowsAsPosted, Traced
  <1> QED BY <1>1, <1>2, <1>3, <1>4, <1>5, <1>6 DEF Next

-----------------------------------------------------------------------------
(* The invariant holds of every behaviour of the control plane. *)
THEOREM ControlPlaneInductive == Spec => []CInv
  <1>1. Init => CInv BY InitCInv
  <1>2. CInv /\ [Next]_vars => CInv' BY NextCInv
  <1> QED BY <1>1, <1>2, PTL DEF Spec

(* The tables and the requests keep to their types, and no limit that is   *)
(* NULL reaches the gateway's cache (configcache.go:83-89).                *)
THEOREM ControlPlaneTypeCorrect == Spec => []TypeOK
  <1>1. CInv => TypeOK BY DEF CInv
  <1> QED BY <1>1, ControlPlaneInductive, PTL

(* Registering an agent is all or nothing (agents.py:34-59). *)
THEOREM RegistrationAtomic == Spec => []AgentsWhole
  <1>1. CInv => AgentsWhole BY DEF CInv
  <1> QED BY <1>1, ControlPlaneInductive, PTL

(* A budget's row holds what was posted for its scope, by one request if   *)
(* no two updates of it overlapped (budgets.py:81-98).                     *)
THEOREM RowsHoldPosts == Spec => []RowsAsPosted
  <1>1. CInv => RowsAsPosted BY DEF CInv
  <1> QED BY <1>1, ControlPlaneInductive, PTL

=============================================================================

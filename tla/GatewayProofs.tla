---------------------------- MODULE GatewayProofs ----------------------------
(***************************************************************************)
(* What is proved of the gateway for every table, every set of requests,   *)
(* bodies, usages and answers of the LLM, and every set of faults.         *)
(*                                                                         *)
(* First the operators: what the handler passes to the enforcer satisfies  *)
(* the enforcer's assumption, so that the theorems of EnforcerProofs apply *)
(* to the instance P.  Then the inductive invariant GInv, which ties each  *)
(* handler to its reservation and its event; every step that preserves it  *)
(* is a step of the enforcer, and GInv implies what Gateway states.        *)
(***************************************************************************)
EXTENDS Gateway, FoldProofs, TLAPS

(* A price is a natural number, and so is the cost of a call. *)
LEMMA CostType ==
  ASSUME NEW model, NEW in \in Nat, NEW cached \in Nat, NEW out \in Nat
  PROVE  CostUSD(model, in, cached, out) \in Nat
  <1>1. CASE model \notin DOMAIN PricingTable BY <1>1 DEF CostUSD
  <1>2. CASE model \in DOMAIN PricingTable
    <2> DEFINE p == PricingTable[model]
               uncached == IF in < cached THEN 0 ELSE in - cached
    <2>1. p.input \in Nat /\ p.cached \in Nat /\ p.output \in Nat
      BY <1>2, PolicyAssumption
    <2>2. uncached \in Nat OBVIOUS
    <2>3. CostUSD(model, in, cached, out)
            = uncached * p.input + cached * p.cached + out * p.output
      BY <1>2 DEF CostUSD
    <2> HIDE DEF p, uncached
    <2>4. uncached * p.input \in Nat /\ cached * p.cached \in Nat /\ out * p.output \in Nat
      BY <2>1, <2>2
    <2> QED BY <2>3, <2>4
  <1> QED BY <1>1, <1>2

(* What Decide returns is a rejection, or a change that is acceptable by   *)
(* the gateway's own figures, whatever the suggestions are.                *)
LEMMA DecideFacts ==
  ASSUME NEW model, NEW requested \in Int, NEW remaining \in Int,
         NEW suggestions \in Seq(Suggestion),
         NEW o, o = Decide(model, requested, remaining, suggestions)
  PROVE  \/ o.action = "reject"
         \/ /\ o.action = "retry_with_model"
            /\ o.model \in CheaperAlternatives(model)
         \/ /\ o.action = "partial_allowance"
            /\ o.max \in MinAllowance .. requested - 1
            /\ o.max <= remaining
  <1> DEFINE good == {i \in DOMAIN suggestions :
                        Acceptable(suggestions[i], model, requested, remaining)}
             least == CHOOSE i \in good : \A j \in good : i <= j
             s == suggestions[least]
  <1>1. CASE good = {}
    <2>1. o = [action |-> "reject"] BY <1>1 DEF Decide
    <2> QED BY <2>1
  <1>2. CASE good # {}
    <2>1. good \subseteq Nat OBVIOUS
    <2>2. least \in good BY <1>2, <2>1, LeastExists
    <2>3. s \in Suggestion /\ Acceptable(s, model, requested, remaining) BY <2>2
    <2> HIDE DEF least
    <2>4. CASE s.type = "switch_model"
      <3>1. o = [action |-> "retry_with_model", model |-> s.model]
        BY <1>2, <2>4 DEF Decide, least
      <3>2. s.model \in CheaperAlternatives(model) BY <2>3, <2>4 DEF Acceptable
      <3> QED BY <3>1, <3>2
    <2>5. CASE s.type # "switch_model"
      <3>1. o = [action |-> "partial_allowance", max |-> Allowance(s, remaining)]
        BY <1>2, <2>5 DEF Decide, least
      <3>2. /\ Allowance(s, remaining) >= MinAllowance
            /\ Allowance(s, remaining) < requested
        BY <2>3, <2>5 DEF Acceptable
      <3>3. s.max \in Int BY <2>3 DEF Suggestion
      <3>4. Allowance(s, remaining) \in Int /\ Allowance(s, remaining) <= remaining
        BY <3>3 DEF Allowance
      <3>5. MinAllowance \in Nat BY PolicyAssumption
      <3> QED BY <3>1, <3>2, <3>4, <3>5
    <2> QED BY <2>4, <2>5
  <1> QED BY <1>1, <1>2

-----------------------------------------------------------------------------
(* Bodies whose numbers are ints. *)
Fit == {b \in Body : b.in <= MaxInt /\ b.max <= MaxInt}

(* The estimate of a body wraps around to a negative number or is exact.   *)
LEMMA EstimateFacts ==
  ASSUME NEW b \in Fit
  PROVE  /\ Estimate(b) \in Amount
         /\ Estimate(b)["tokens"] <= MaxInt
         /\ Estimate(b)["tokens"] >= 0 => Estimate(b)["tokens"] = b.in + OutTokens(b)
         /\ Estimate(b)["usd"] = CostUSD(b.model, b.in, 0, OutTokens(b))
         /\ OutTokens(b) \in Nat
  <1>1. MaxInt \in Nat \ {0} /\ DefaultOut \in 1 .. MaxInt BY GatewayAssumption
  <1>2. b.in \in Nat /\ b.max \in Int /\ b.in <= MaxInt /\ b.max <= MaxInt
    BY DEF Fit, Body
  <1>3. OutTokens(b) \in 1 .. MaxInt BY <1>1, <1>2 DEF OutTokens
  <1>4. CostUSD(b.model, b.in, 0, OutTokens(b)) \in Nat BY <1>2, <1>3, CostType
  <1> DEFINE x == b.in + OutTokens(b)
             m == MaxInt + 1
  <1>5. x \in 1 .. 2 * MaxInt BY <1>1, <1>2, <1>3
  <1>6. Wrap(x) = ((x + m) % (2 * m)) - m BY <1>1, <1>5 DEF Wrap
  <1>7. m \in Nat \ {0} /\ x \in Nat /\ x < 2 * m BY <1>1, <1>5
  <1> HIDE DEF x, m
  <1>8. (x + m) % (2 * m) = IF x < m THEN x + m ELSE x - m
    <2> DEFINE w == 2 * m
               q == (x + m) \div w
    <2>1. w \in Nat \ {0} /\ x + m \in Nat BY <1>7
    <2>2. CASE x < m
      <3>1. x + m \in 0 .. w - 1 BY <1>7, <2>2
      <3> QED BY <2>1, <2>2, <3>1
    <2>3. CASE x >= m
      <3>1. x - m \in 0 .. w - 1 /\ x + m = 1 * w + (x - m) BY <1>7, <2>3
      <3> QED BY <1>7, <2>1, <2>3, <3>1
    <2> QED BY <1>7, <2>2, <2>3
  <1>10. Wrap(x) \in Int /\ Wrap(x) < m /\ (Wrap(x) >= 0 => Wrap(x) = x)
    BY <1>6, <1>7, <1>8
  <1>11. Estimate(b)["tokens"] = Wrap(x)
         /\ Estimate(b)["usd"] = CostUSD(b.model, b.in, 0, OutTokens(b))
    BY DEF Estimate, Dim, x
  <1>12. Estimate(b) \in Amount BY <1>4, <1>10 DEF Estimate, Amount, Dim, x
  <1> QED BY <1>1, <1>3, <1>10, <1>11, <1>12 DEF x, m

(* The bodies that the policy engine makes are fit, too. *)
LEMMA BodyFacts == Bodies \subseteq Fit /\ AllBodies \subseteq Fit
  <1>1. Bodies \subseteq Fit BY GatewayAssumption DEF Fit
  <1>2. ASSUME NEW b \in Bodies, NEW c \in Retries(b) PROVE c \in Fit
    <2>1. b \in Fit BY <1>1
    <2>2. b \in Body /\ b.in <= MaxInt /\ b.max <= MaxInt BY <2>1 DEF Fit
    <2>3. CASE \E m \in CheaperAlternatives(b.model) : c = [b EXCEPT !.model = m]
      <3>1. PICK m \in CheaperAlternatives(b.model) : c = [b EXCEPT !.model = m] BY <2>3
      <3>2. m \in Model BY PolicyAssumption DEF CheaperAlternatives
      <3>3. c \in Body /\ c.in = b.in /\ c.max = b.max BY <2>2, <3>1, <3>2 DEF Body
      <3> QED BY <2>2, <3>3 DEF Fit
    <2>4. CASE \E n \in MinAllowance .. Estimate(b)["tokens"] - 1 : c = [b EXCEPT !.max = n]
      <3>1. PICK n \in MinAllowance .. Estimate(b)["tokens"] - 1 : c = [b EXCEPT !.max = n]
        BY <2>4
      <3>2. Estimate(b)["tokens"] <= MaxInt /\ Estimate(b)["tokens"] \in Int
        BY <2>1, EstimateFacts DEF Amount, Dim
      <3>3. n \in Int /\ n <= MaxInt
        BY <3>1, <3>2, PolicyAssumption, GatewayAssumption
      <3>4. c \in Body /\ c.in = b.in /\ c.max = n BY <2>2, <3>1, <3>3 DEF Body
      <3> QED BY <2>2, <3>3, <3>4 DEF Fit
    <2> QED BY <2>3, <2>4 DEF Retries
  <1> QED BY <1>1, <1>2 DEF AllBodies

(* Estimates are amounts, and actual usages are never negative. *)
LEMMA AmountFacts == AllEstimates \subseteq Amount /\ AllActuals \subseteq [Dim -> Nat]
  <1>1. AllEstimates \subseteq Amount BY BodyFacts, EstimateFacts DEF AllEstimates
  <1>2. NoAmount \in [Dim -> Nat] BY DEF NoAmount
  <1>3. ASSUME NEW b \in AllBodies, NEW u \in Usages PROVE Actual(b, u) \in [Dim -> Nat]
    <2>1. u.in \in Nat /\ u.cached \in Nat /\ u.out \in Nat BY GatewayAssumption DEF Usage
    <2>2. \A c \in Nat : CostUSD(b.model, u.in, c, u.out) \in Nat BY <2>1, CostType
    <2>3. \A c \in Nat : Cost(b, u, c) \in [Dim -> Nat] BY <2>1, <2>2 DEF Cost, Dim
    <2> QED BY <2>1, <2>3 DEF Actual, FullCost
  <1> QED BY <1>1, <1>2, <1>3 DEF AllActuals

-----------------------------------------------------------------------------
(* The joining of three lists of at most one reference each. *)
LEMMA JoinFacts ==
  ASSUME NEW a \in Seq(BucketRef), NEW b \in Seq(BucketRef), NEW c \in Seq(BucketRef),
         Len(a) <= 1, Len(b) <= 1, Len(c) <= 1
  PROVE  /\ a \o b \o c \in Seq(BucketRef)
         /\ \A i \in DOMAIN (a \o b \o c) :
              \/ Len(a) = 1 /\ i = 1 /\ (a \o b \o c)[i] = a[1]
              \/ Len(b) = 1 /\ i = Len(a) + 1 /\ (a \o b \o c)[i] = b[1]
              \/ Len(c) = 1 /\ i = Len(a) + Len(b) + 1 /\ (a \o b \o c)[i] = c[1]
  <1> DEFINE s == a \o b \o c
  <1>1. s \in Seq(BucketRef) /\ Len(s) = Len(a) + Len(b) + Len(c) OBVIOUS
  <1>2. ASSUME NEW i \in DOMAIN s
        PROVE  \/ Len(a) = 1 /\ i = 1 /\ s[i] = a[1]
               \/ Len(b) = 1 /\ i = Len(a) + 1 /\ s[i] = b[1]
               \/ Len(c) = 1 /\ i = Len(a) + Len(b) + 1 /\ s[i] = c[1]
    <2> DEFINE ab == a \o b
    <2>1. ab \in Seq(BucketRef) /\ Len(ab) = Len(a) + Len(b) OBVIOUS
    <2>2. i \in 1 .. Len(a) + Len(b) + Len(c) BY <1>1
    <2>3. s[i] = IF i <= Len(ab) THEN ab[i] ELSE c[i - Len(ab)] BY <2>1, <2>2
    <2>4. i <= Len(ab) => ab[i] = IF i <= Len(a) THEN a[i] ELSE b[i - Len(a)]
      BY <2>1, <2>2
    <2>n. Len(a) \in {0, 1} /\ Len(b) \in {0, 1} /\ Len(c) \in {0, 1}
      <3>1. Len(a) \in Nat /\ Len(b) \in Nat /\ Len(c) \in Nat OBVIOUS
      <3>2. \A n \in Nat : n <= 1 => n \in {0, 1} OBVIOUS
      <3> QED BY <3>1, <3>2
    <2> HIDE DEF ab, s
    <2>5. CASE i <= Len(a)
      <3>1. i = 1 /\ Len(a) = 1 BY <2>n, <2>2, <2>5
      <3> QED BY <2>1, <2>n, <2>3, <2>4, <3>1
    <2>6. CASE i > Len(a) /\ i <= Len(a) + Len(b)
      <3>1. i - Len(a) = 1 /\ Len(b) = 1 BY <2>n, <2>2, <2>6
      <3> QED BY <2>n, <2>1, <2>2, <2>3, <2>4, <2>6, <3>1
    <2>7. CASE i > Len(a) + Len(b)
      <3>1. i - Len(ab) = 1 /\ Len(c) = 1 BY <2>n, <2>1, <2>2, <2>7
      <3> QED BY <2>n, <2>1, <2>2, <2>3, <2>7, <3>1
    <2> QED BY <2>n, <2>2, <2>5, <2>6, <2>7
  <1> QED BY <1>1, <1>2

(* What a row configures: natural limits and rates. *)
LEMMA LimitsType ==
  ASSUME NEW row \in ConfigRow
  PROVE  LimitsOf(row).limit \in [Dim -> Nat] /\ LimitsOf(row).rate \in [Dim -> Nat]
  <1> DEFINE tok == StoredOr(row.token_limit, 0)
             usd == StoredOr(row.dollar_limit, 0)
  <1>1. tok \in Nat /\ usd \in Nat /\ row.refill \in Nat BY DEF ConfigRow, StoredOr
  <1> HIDE DEF tok, usd
  <1>2. tok > 0 => (row.refill * usd) \div tok \in Nat
    <2>1. row.refill * usd \in Nat BY <1>1
    <2> QED BY <1>1, <2>1
  <1>3. LimitsOf(row).limit = [d \in Dim |-> IF d = "tokens" THEN tok ELSE usd]
    BY DEF LimitsOf, tok, usd
  <1>4. LimitsOf(row).rate = [d \in Dim |->
          CASE d = "tokens" -> IF row.token_limit = Nil THEN 0 ELSE row.refill
            [] d = "usd" -> IF tok > 0 THEN (row.refill * usd) \div tok ELSE usd]
    BY DEF LimitsOf, tok, usd
  <1>5. LimitsOf(row).rate \in [Dim -> Nat] BY <1>1, <1>2, <1>4 DEF Dim
  <1> QED BY <1>1, <1>3, <1>5

(* The reference of a caller in one scope: none, or one whose limits are   *)
(* those of the row of its bucket.                                         *)
LEMMA RefsAtFacts ==
  ASSUME NEW t \in Tables, NEW id, NEW scope \in Scope,
         id \in DOMAIN t => KeyFor(id, scope) = BucketOf(id),
         NEW s, s = RefsAt(Load(t), id, scope)
  PROVE  /\ s \in Seq(BucketRef) /\ Len(s) <= 1
         /\ Len(s) = 1 =>
              /\ "-" \notin {id[2], id[3]}
              /\ s[1].key = KeyFor(id, scope)
              /\ \A d \in Dim : /\ s[1].limit[d] <= Cap[s[1].key][d]
                                /\ s[1].rate[d] <= Rate[s[1].key][d]
  <1>1. CASE id \notin DOMAIN t
    <2>1. s = <<>> BY <1>1 DEF RefsAt, Load
    <2> QED BY <2>1
  <1>2. CASE id \in DOMAIN t
    <2> DEFINE l == LimitsOf(t[id])
               ref == [scope |-> scope, key |-> KeyFor(id, scope),
                       limit |-> l.limit, rate |-> l.rate]
    <2>1. s = <<ref>> BY <1>2 DEF RefsAt, Load
    <2>2. /\ "-" \notin {id[2], id[3]} /\ t[id] \in ConfigRow /\ KeyFor(id, scope) \in Key
          /\ \A d \in Dim : /\ l.limit[d] <= Cap[KeyFor(id, scope)][d]
                            /\ l.rate[d] <= Rate[KeyFor(id, scope)][d]
      BY <1>2, GatewayAssumption
    <2>3. l.limit \in [Dim -> Nat] /\ l.rate \in [Dim -> Nat] BY <2>2, LimitsType
    <2>4. ref \in BucketRef BY <2>2, <2>3 DEF BucketRef
    <2> HIDE DEF l
    <2> QED BY <2>1, <2>2, <2>4
  <1> QED BY <1>1, <1>2

(* What Resolve returns is fit for the enforcer: well typed references to  *)
(* different buckets, within the largest limits and rates.                 *)
LEMMA ResolveFacts ==
  ASSUME NEW t \in Tables, NEW id \in Callers, NEW s, s = Resolve(Load(t), id)
  PROVE  /\ s \in Seq(BucketRef)
         /\ \A i, j \in DOMAIN s : s[i].key = s[j].key => i = j
         /\ \A i \in DOMAIN s : \A d \in Dim :
              /\ s[i].limit[d] <= Cap[s[i].key][d]
              /\ s[i].rate[d] <= Rate[s[i].key][d]
  <1> DEFINE ida == <<id[1], id[2], None>>
             idt == <<id[1], None, None>>
             a == IF id[3] # None THEN RefsAt(Load(t), id, "task") ELSE <<>>
             b == IF id[2] # None THEN RefsAt(Load(t), ida, "agent") ELSE <<>>
             c == RefsAt(Load(t), idt, "tenant")
             Fine(q, from, key) ==
               /\ q \in Seq(BucketRef) /\ Len(q) <= 1
               /\ Len(q) = 1 =>
                    /\ q[1].key = key /\ "-" \notin {from[2], from[3]}
                    /\ \A d \in Dim : /\ q[1].limit[d] <= Cap[q[1].key][d]
                                      /\ q[1].rate[d] <= Rate[q[1].key][d]
  <1>1. id = <<id[1], id[2], id[3]>> BY GatewayAssumption, ConfigAssumption
  <1>e. \A from, key : Fine(<<>>, from, key) OBVIOUS
  <1>2. Fine(a, id, id)
    <2>1. CASE id[3] = None BY <1>e, <2>1
    <2>2. CASE id[3] # None
      <3>1. BucketOf(id) = KeyFor(id, "task") /\ KeyFor(id, "task") = id
        BY <2>2 DEF BucketOf, KeyFor
      <3>2. "task" \in Scope BY DEF Scope
      <3>3. a = RefsAt(Load(t), id, "task") BY <2>2
      <3> QED BY <3>1, <3>2, <3>3, RefsAtFacts
    <2> QED BY <2>1, <2>2
  <1>3. Fine(b, ida, <<id[1], id[2], "-">>)
    <2>1. CASE id[2] = None BY <1>e, <2>1
    <2>2. CASE id[2] # None
      <3>1. BucketOf(ida) = KeyFor(ida, "agent")
            /\ KeyFor(ida, "agent") = <<id[1], id[2], "-">>
        BY <2>2 DEF BucketOf, KeyFor
      <3>2. "agent" \in Scope BY DEF Scope
      <3>3. b = RefsAt(Load(t), ida, "agent") BY <2>2
      <3> QED BY <3>1, <3>2, <3>3, RefsAtFacts
    <2> QED BY <2>1, <2>2
  <1>4. Fine(c, idt, <<id[1], "-", "-">>)
    <2>1. BucketOf(idt) = KeyFor(idt, "tenant")
          /\ KeyFor(idt, "tenant") = <<id[1], "-", "-">>
      BY DEF BucketOf, KeyFor
    <2>2. "tenant" \in Scope BY DEF Scope
    <2> QED BY <2>1, <2>2, RefsAtFacts
  <1>5. s = a \o b \o c BY DEF Resolve
  <1> HIDE DEF a, b, c
  <1>6. /\ s \in Seq(BucketRef)
        /\ \A i \in DOMAIN s :
              \/ Len(a) = 1 /\ i = 1 /\ s[i] = a[1]
              \/ Len(b) = 1 /\ i = Len(a) + 1 /\ s[i] = b[1]
              \/ Len(c) = 1 /\ i = Len(a) + Len(b) + 1 /\ s[i] = c[1]
    <2>1. a \in Seq(BucketRef) /\ Len(a) <= 1 BY <1>2
    <2>2. b \in Seq(BucketRef) /\ Len(b) <= 1 BY <1>3
    <2>3. c \in Seq(BucketRef) /\ Len(c) <= 1 BY <1>4
    <2> QED BY <1>5, <2>1, <2>2, <2>3, JoinFacts
  <1> DEFINE ka == <<id[1], id[2], "-">>
             kt == <<id[1], "-", "-">>
  <1>7. (Len(a) = 1 => id # ka /\ id # kt) /\ (Len(b) = 1 => ka # kt)
    <2>1. Len(a) = 1 => id[3] # "-" BY <1>2
    <2>2. Len(b) = 1 => id[2] # "-" BY <1>3
    <2> QED BY <1>1, <2>1, <2>2
  <1>n. Len(a) \in Nat /\ Len(b) \in Nat BY <1>2, <1>3
  <1>8. ASSUME NEW i \in DOMAIN s, NEW j \in DOMAIN s, s[i].key = s[j].key PROVE i = j
    <2>1. \/ Len(a) = 1 /\ i = 1 /\ s[i].key = id
          \/ Len(b) = 1 /\ i = Len(a) + 1 /\ s[i].key = ka
          \/ i = Len(a) + Len(b) + 1 /\ s[i].key = kt
      BY <1>2, <1>3, <1>4, <1>6
    <2>2. \/ Len(a) = 1 /\ j = 1 /\ s[j].key = id
          \/ Len(b) = 1 /\ j = Len(a) + 1 /\ s[j].key = ka
          \/ j = Len(a) + Len(b) + 1 /\ s[j].key = kt
      BY <1>2, <1>3, <1>4, <1>6
    <2> HIDE DEF ka, kt
    <2> QED BY <1>7, <1>8, <1>n, <2>1, <2>2
  <1>9. ASSUME NEW i \in DOMAIN s, NEW d \in Dim
        PROVE  s[i].limit[d] <= Cap[s[i].key][d] /\ s[i].rate[d] <= Rate[s[i].key][d]
    BY <1>2, <1>3, <1>4, <1>6
  <1> QED BY <1>6, <1>8, <1>9

(* Rows of one table have different buckets. *)
LEMMA BucketsDistinct ==
  ASSUME NEW t \in Tables, NEW x \in DOMAIN t, NEW y \in DOMAIN t, BucketOf(x) = BucketOf(y)
  PROVE  x = y
  <1>1. /\ x = <<x[1], x[2], x[3]>> /\ "-" \notin {x[2], x[3]}
        /\ y = <<y[1], y[2], y[3]>> /\ "-" \notin {y[2], y[3]}
    BY GatewayAssumption, ConfigAssumption
  <1>2. ASSUME NEW z
        PROVE  BucketOf(z) = IF z[3] # None THEN z ELSE IF z[2] # None
                             THEN <<z[1], z[2], "-">> ELSE <<z[1], "-", "-">>
    BY DEF BucketOf, KeyFor
  <1>3. x[1] = y[1] /\ x[2] = y[2] /\ x[3] = y[3]
    BY <1>1, <1>2
  <1> QED BY <1>1, <1>3

(* A reference that Resolve returns is for the bucket of a row, with the   *)
(* limits of that row.                                                     *)
LEMMA ResolveRows ==
  ASSUME NEW t \in Tables, NEW id \in Callers, NEW s, s = Resolve(Load(t), id),
         NEW i \in DOMAIN s
  PROVE  \E x \in DOMAIN t : s[i].key = BucketOf(x) /\ s[i].limit = LimitsOf(t[x]).limit
  <1> DEFINE ida == <<id[1], id[2], None>>
             idt == <<id[1], None, None>>
             a == IF id[3] # None THEN RefsAt(Load(t), id, "task") ELSE <<>>
             b == IF id[2] # None THEN RefsAt(Load(t), ida, "agent") ELSE <<>>
             c == RefsAt(Load(t), idt, "tenant")
             Fine(q) ==
               /\ q \in Seq(BucketRef) /\ Len(q) <= 1
               /\ Len(q) = 1 =>
                    \E x \in DOMAIN t : /\ q[1].key = BucketOf(x)
                                       /\ q[1].limit = LimitsOf(t[x]).limit
  <1>1. Fine(<<>>) OBVIOUS
  <1>2. ASSUME NEW x, NEW scope \in Scope, KeyFor(x, scope) = BucketOf(x)
        PROVE  Fine(RefsAt(Load(t), x, scope))
    <2> DEFINE q == RefsAt(Load(t), x, scope)
    <2>1. q \in Seq(BucketRef) /\ Len(q) <= 1 BY <1>2, RefsAtFacts
    <2>2. CASE x \notin DOMAIN t
      <3>1. q = <<>> BY <2>2 DEF RefsAt, Load
      <3> QED BY <1>1, <3>1
    <2>3. CASE x \in DOMAIN t
      <3>1. q = <<[scope |-> scope, key |-> KeyFor(x, scope),
                   limit |-> LimitsOf(t[x]).limit, rate |-> LimitsOf(t[x]).rate]>>
        BY <2>3 DEF RefsAt, Load
      <3>2. q[1].key = BucketOf(x) /\ q[1].limit = LimitsOf(t[x]).limit BY <1>2, <3>1
      <3> HIDE DEF q
      <3>3. Fine(q) BY <2>1, <2>3, <3>2
      <3> QED BY <3>3 DEF q
    <2> QED BY <2>2, <2>3
  <1> HIDE DEF Fine
  <1>3. Fine(a)
    <2>1. id[3] # None => BucketOf(id) = KeyFor(id, "task") BY DEF BucketOf
    <2> QED BY <1>1, <1>2, <2>1 DEF Scope
  <1>4. Fine(b)
    <2>1. id[2] # None => BucketOf(ida) = KeyFor(ida, "agent") BY DEF BucketOf
    <2> QED BY <1>1, <1>2, <2>1 DEF Scope
  <1>5. Fine(c)
    <2>1. BucketOf(idt) = KeyFor(idt, "tenant") BY DEF BucketOf
    <2> QED BY <1>2, <2>1 DEF Scope
  <1>6. s = a \o b \o c BY DEF Resolve
  <1> HIDE DEF a, b, c
  <1>7. \/ Len(a) = 1 /\ s[i] = a[1]
        \/ Len(b) = 1 /\ s[i] = b[1]
        \/ Len(c) = 1 /\ s[i] = c[1]
    <2>1. a \in Seq(BucketRef) /\ Len(a) <= 1 BY <1>3 DEF Fine
    <2>2. b \in Seq(BucketRef) /\ Len(b) <= 1 BY <1>4 DEF Fine
    <2>3. c \in Seq(BucketRef) /\ Len(c) <= 1 BY <1>5 DEF Fine
    <2> QED BY <1>6, <2>1, <2>2, <2>3, JoinFacts
  <1> QED BY <1>3, <1>4, <1>5, <1>7 DEF Fine

(* One table gives each bucket one limit. *)
LEMMA OneLimit ==
  ASSUME \A s, t \in Tables : s = t,
         NEW l \in AllRefLists, NEW m \in AllRefLists,
         NEW i \in DOMAIN l, NEW j \in DOMAIN m, l[i].key = m[j].key
  PROVE  l[i].limit = m[j].limit
  <1>1. PICK t \in Tables, c \in Callers : l = Resolve(Load(t), c) BY DEF AllRefLists
  <1>2. PICK u \in Tables, b \in Callers : m = Resolve(Load(u), b) BY DEF AllRefLists
  <1>3. u = t OBVIOUS
  <1>4. PICK x \in DOMAIN t : l[i].key = BucketOf(x) /\ l[i].limit = LimitsOf(t[x]).limit
    BY <1>1, ResolveRows
  <1>5. PICK y \in DOMAIN t : m[j].key = BucketOf(y) /\ m[j].limit = LimitsOf(t[y]).limit
    BY <1>2, <1>3, ResolveRows
  <1>6. x = y BY <1>4, <1>5, BucketsDistinct
  <1> QED BY <1>4, <1>5, <1>6

-----------------------------------------------------------------------------
(* The theorems of the enforcer, for the lists, estimates and usages that  *)
(* come up in the gateway.                                                 *)
P == INSTANCE EnforcerProofs
       WITH RefLists <- AllRefLists, Wants <- AllEstimates, Actuals <- AllActuals

(* They apply, because what the handler passes to the enforcer satisfies   *)
(* the enforcer's assumption on its constants.                             *)
LEMMA FitClient ==
  /\ AllRefLists \subseteq Seq(BucketRef)
  /\ \A refs \in AllRefLists : \A i, j \in DOMAIN refs : refs[i].key = refs[j].key => i = j
  /\ AllEstimates \subseteq Amount
  /\ AllActuals \subseteq [Dim -> Nat]
  /\ TTL \in Nat \ {0}
  /\ Cap \in [Key -> [Dim -> Nat]]
  /\ Rate \in [Key -> [Dim -> Nat]]
  /\ \A refs \in AllRefLists : \A i \in DOMAIN refs : \A d \in Dim :
       /\ refs[i].limit[d] <= Cap[refs[i].key][d]
       /\ refs[i].rate[d] <= Rate[refs[i].key][d]
  /\ MaxFaults \in Nat
  /\ MaxUptime \in Nat
  <1>1. ASSUME NEW refs \in AllRefLists
        PROVE  /\ refs \in Seq(BucketRef)
               /\ \A i, j \in DOMAIN refs : refs[i].key = refs[j].key => i = j
               /\ \A i \in DOMAIN refs : \A d \in Dim :
                    /\ refs[i].limit[d] <= Cap[refs[i].key][d]
                    /\ refs[i].rate[d] <= Rate[refs[i].key][d]
    <2>1. PICK t \in Tables, c \in Callers : refs = Resolve(Load(t), c) BY DEF AllRefLists
    <2> QED BY <2>1, ResolveFacts
  <1> QED BY <1>1, AmountFacts, GatewayAssumption

(* P and E are the same instance of Enforcer. *)
LEMMA SameInit == E!Init <=> P!Init
  BY DEF E!NoReservation, P!NoReservation, E!Init, P!Init, E!Dim, P!Dim, E!NoAmount,
         P!NoAmount

(* The enforcer inside Gateway and the one the proofs are instantiated     *)
(* with have the same parameters, so their invariants say the same.        *)
LEMMA SameInv == (E!IInv <=> P!IInv) /\ (E!SpendBound <=> P!SpendBound)
  BY DEF E!IInv, P!IInv, E!TypeOK, P!TypeOK, E!TodoOK, P!TodoOK, E!NoOverspend,
         P!NoOverspend, E!Backed, P!Backed, E!Untouched, P!Untouched, E!Reservation,
         P!Reservation, E!ResvState, P!ResvState, E!SpendBound, P!SpendBound, E!Dim,
         P!Dim, E!Amount, P!Amount, E!NoAmount, P!NoAmount, E!Elapsed, P!Elapsed,
         E!ResvOK, P!ResvOK, E!Commands, P!Commands, E!CmdRef, P!CmdRef, E!CmdDim,
         P!CmdDim, E!Delta, P!Delta, E!Enforced, P!Enforced

(* For the same reason they take the same steps. *)
LEMMA SameNext == E!Next <=> P!Next
  BY DEF E!Next, P!Next, E!Reserve, P!Reserve, E!Debit, P!Debit, E!Settle, P!Settle,
         E!Increment, P!Increment, E!Settled, P!Settled, E!Replay, P!Replay,
         E!Abandon, P!Abandon, E!LoseReply, P!LoseReply, E!Tick, P!Tick, E!Flush,
         P!Flush, E!StepBack, P!StepBack, E!Forget, P!Forget, E!Fault, P!Fault,
         E!Dim, P!Dim, E!Amount, P!Amount, E!NoAmount, P!NoAmount, E!BucketRef,
         P!BucketRef, E!Scope, P!Scope, E!Enforced, P!Enforced, E!KeysOf, P!KeysOf,
         E!RefOf, P!RefOf, E!Elapsed, P!Elapsed, E!StoredOr, P!StoredOr, E!Refilled,
         P!Refilled, E!Lacks, P!Lacks, E!Lacking, P!Lacking, E!Sufficient,
         P!Sufficient, E!Debited, P!Debited, E!Stamped, P!Stamped, E!CmdRef,
         P!CmdRef, E!CmdDim, P!CmdDim, E!Delta, P!Delta, E!Commands, P!Commands

(* The enforcer's invariant holds at first and is preserved by its steps.  *)
LEMMA EnforcerInit == E!Init => P!IInv
  BY FitClient, BucketAssumption, P!InitIInv, SameInit
  DEF Dim, Amount, BucketRef, Scope, P!Dim, P!Amount, P!BucketRef, P!Scope

(* A step of the enforcer, or one that leaves Redis alone, keeps the       *)
(* enforcer's invariant; the handlers are among the clients it allows.     *)
LEMMA EnforcerNext == P!IInv /\ [E!Next]_redis => P!IInv'
  <1>1. P!IInv /\ [P!Next]_(P!vars) => P!IInv'
    BY FitClient, BucketAssumption, P!NextIInv
    DEF Dim, Amount, BucketRef, Scope, P!Dim, P!Amount, P!BucketRef, P!Scope
  <1>2. redis = P!vars /\ (redis' = redis <=> P!vars' = P!vars) BY DEF redis, P!vars
  <1> QED BY <1>1, <1>2, SameNext

-----------------------------------------------------------------------------
(* What an advised body may be, given the denial that led to it. *)
Changed(body, asked, dec) ==
  \/ /\ body.model \in CheaperAlternatives(asked.model)
     /\ body = [asked EXCEPT !.model = body.model]
  \/ /\ body.max \in MinAllowance .. dec.remaining["tokens"]
     /\ body.max < Estimate(asked)["tokens"]
     /\ body = [asked EXCEPT !.max = body.max]

(* The inductive invariant, for the handler, the reservation and the event *)
(* of one request: where the handler is says what it has reserved, which   *)
(* request it will dispatch and what it has reported.                      *)
InStep(hr, v, e) ==
  /\ hr.pc = "new" => hr = NewHandler(NoBody)
  /\ hr.pc \in {"check", "advise", "retry", "upstream"} =>
       hr.refs \in AllRefLists /\ hr.asked \in Bodies /\ hr.body \in AllBodies
  /\ hr.pc \in {"check", "advise"} => hr.body = hr.asked
  /\ hr.pc \in {"new", "check", "advise", "retry"} => v.st = "free"
  /\ hr.pc = "upstream" => /\ v.st = "held" /\ v.refs = hr.refs
                           /\ v.est = Estimate(hr.body)
                           /\ \A d \in Dim : v.est[d] >= 0
  /\ hr.pc = "settle" => v.st \in {"settling", "settled", "abandoned"}
  /\ hr.pc = "done" => v.st \in {"free", "settled", "abandoned"}
  /\ v.st = "abandoned" => "abandon" \in Faults
  /\ hr.body # hr.asked => /\ Changed(hr.body, hr.asked, hr.dec)
                           /\ hr.label # "allowed"
                           /\ e.label # "allowed"
  /\ hr.pc # "done" => e = NoEvent
  /\ hr.pc = "done" /\ v.st = "settled" => e.cost = v.act

Event == [label : {"none", "allowed", "advised_retry", "rejected"}, cost : AllActuals]

Handlers ==
  /\ table \in Tables
  /\ data \in AllSnapshots
  /\ h \in [Req -> Handler]
  /\ ev \in [Req -> Event]
  /\ \A r \in Req : InStep(h[r], resv[r], ev[r])

GInv == P!IInv /\ Handlers

(* The reservations are well typed. *)
LEMMA ResvType ==
  ASSUME P!IInv
  PROVE  resv \in [Req -> [st : {"free", "held", "settling", "settled", "abandoned"},
                           refs : AllRefLists \cup {<<>>},
                           est : AllEstimates \cup {NoAmount},
                           act : AllActuals \cup {NoAmount}, todo : SUBSET Nat]]
  BY DEF P!IInv, P!TypeOK, P!Reservation, P!ResvState, P!NoAmount, P!Dim, NoAmount, Dim

(* What a step of the enforcer does to the reservations. *)
LEMMA ResvSteps ==
  ASSUME P!IInv, NEW r \in Req
  PROVE  /\ \A refs, want : E!Reserve(r, refs, want) =>
              /\ resv'[r].st = "held" /\ resv'[r].refs = refs /\ resv'[r].est = want
              /\ \A d \in Dim : want[d] >= 0
              /\ \A q \in Req \ {r} : resv'[q] = resv[q]
         /\ \A act : E!Settle(r, act) =>
              /\ resv'[r].st \in {"settling", "settled"}
              /\ \A q \in Req \ {r} : resv'[q] = resv[q]
         /\ E!Increment(r) \/ E!Replay(r) =>
              /\ resv[r].st = "settling" /\ resv'[r].st = "settling"
              /\ \A q \in Req \ {r} : resv'[q] = resv[q]
         /\ E!Settled(r) =>
              /\ resv[r].st = "settling" /\ resv'[r].st = "settled"
              /\ \A q \in Req \ {r} : resv'[q] = resv[q]
         /\ E!Abandon(r) =>
              /\ resv[r].st = "settling" /\ resv'[r].st = "abandoned"
              /\ "abandon" \in Faults
              /\ \A q \in Req \ {r} : resv'[q] = resv[q]
  <1> DEFINE R == [st : {"free", "held", "settling", "settled", "abandoned"},
                   refs : AllRefLists \cup {<<>>}, est : AllEstimates \cup {NoAmount},
                   act : AllActuals \cup {NoAmount}, todo : SUBSET Nat]
  <1>1. resv \in [Req -> R] BY ResvType
  <1>2. ASSUME NEW refs, NEW want, E!Reserve(r, refs, want)
        PROVE  /\ resv'[r].st = "held" /\ resv'[r].refs = refs /\ resv'[r].est = want
               /\ \A d \in Dim : want[d] >= 0
               /\ \A q \in Req \ {r} : resv'[q] = resv[q]
    BY <1>1, <1>2 DEF E!Reserve, E!Debit, E!Sufficient, E!Dim, Dim
  <1>3. ASSUME NEW act, E!Settle(r, act)
        PROVE  /\ resv'[r].st \in {"settling", "settled"}
               /\ \A q \in Req \ {r} : resv'[q] = resv[q]
    BY <1>1, <1>3 DEF E!Settle
  <1>4. E!Increment(r) \/ E!Replay(r) =>
          /\ resv[r].st = "settling" /\ resv'[r].st = "settling"
          /\ \A q \in Req \ {r} : resv'[q] = resv[q]
    <2>1. ASSUME E!Increment(r)
          PROVE  resv[r].st = "settling" /\ \E j : resv' = [resv EXCEPT ![r].todo = @ \ {j}]
      BY <2>1 DEF E!Increment
    <2>2. ASSUME E!Replay(r)
          PROVE  /\ resv[r].st = "settling"
                 /\ \E c : resv' = [resv EXCEPT ![r].todo = c]
      BY <2>2 DEF E!Replay
    <2> QED BY <1>1, <2>1, <2>2
  <1>5. E!Settled(r) =>
          /\ resv[r].st = "settling" /\ resv'[r].st = "settled"
          /\ \A q \in Req \ {r} : resv'[q] = resv[q]
    BY <1>1 DEF E!Settled
  <1>6. E!Abandon(r) =>
          /\ resv[r].st = "settling" /\ resv'[r].st = "abandoned"
          /\ "abandon" \in Faults
          /\ \A q \in Req \ {r} : resv'[q] = resv[q]
    BY <1>1 DEF E!Abandon
  <1> QED BY <1>2, <1>3, <1>4, <1>5, <1>6

(* The values of the fields of a handler. *)
Asked == Bodies \cup {NoBody}
Sent == AllBodies \cup {NoBody}
Refs == AllRefLists \cup {<<>>}
Denial == [allowed : {FALSE}, index : Int, remaining : Amount]
Label == {"allowed", "advised_retry", "rejected"}
Code == {0, 200, 400, 401, 403, 429, 502, 503}

(* Handler with the types of its fields named, so that each can be         *)
(* reasoned about without expanding the others.                            *)
LEMMA HandlerFields ==
  Handler = [pc : PC, asked : Asked, body : Sent, refs : Refs, dec : Denial,
             label : Label, code : Code, cancelled : BOOLEAN, dead : BOOLEAN]
  BY DEF Handler, Asked, Sent, Refs, Denial, Label, Code

(* The handler of a new request is well typed. *)
LEMMA NewHandlerType ==
  ASSUME NEW b \in Bodies \cup {NoBody}
  PROVE  NewHandler(b) \in Handler
  <1>1. NoDecision \in Denial BY DEF Denial, NoDecision, NoAmount, Amount
  <1>2. "new" \in PC /\ "allowed" \in Label /\ 0 \in Code BY DEF PC, Label, Code
  <1>3. b \in Asked /\ b \in Sent /\ <<>> \in Refs BY DEF Asked, Sent, Refs, AllBodies
  <1> QED BY <1>1, <1>2, <1>3, HandlerFields DEF NewHandler

(* A step of one handler keeps the invariant of the others. *)
LEMMA OneHandler ==
  ASSUME Handlers, NEW r \in Req, NEW hr \in Handler, NEW e \in Event,
         h' = [h EXCEPT ![r] = hr],
         ev' = [ev EXCEPT ![r] = e] \/ (ev' = ev /\ e = ev[r]),
         UNCHANGED config,
         \A q \in Req \ {r} : resv'[q] = resv[q],
         InStep(hr, resv'[r], e)
  PROVE  Handlers'
  <1>1. table' \in Tables /\ data' \in AllSnapshots BY DEF Handlers, config
  <1>2. h \in [Req -> Handler] /\ ev \in [Req -> Event] BY DEF Handlers
  <1>3. h' \in [Req -> Handler] /\ h'[r] = hr /\ \A q \in Req \ {r} : h'[q] = h[q]
    BY <1>2
  <1>4. ev' \in [Req -> Event] /\ ev'[r] = e /\ \A q \in Req \ {r} : ev'[q] = ev[q]
    BY <1>2
  <1>5. ASSUME NEW q \in Req PROVE InStep(h'[q], resv'[q], ev'[q])
    <2>1. CASE q = r BY <1>3, <1>4, <2>1
    <2>2. CASE q # r
      <3>1. h'[q] = h[q] /\ ev'[q] = ev[q] /\ resv'[q] = resv[q] BY <1>3, <1>4, <2>2
      <3>2. InStep(h[q], resv[q], ev[q]) BY DEF Handlers
      <3> QED BY <3>1, <3>2
    <2> QED BY <2>1, <2>2
  <1> QED BY <1>1, <1>3, <1>4, <1>5 DEF Handlers

-----------------------------------------------------------------------------
(* A denial as the handler keeps it is well typed. *)
LEMMA DenialType ==
  ASSUME P!IInv, NEW refs \in AllRefLists, NEW want \in Amount,
         NEW dec, dec = Decision(bal, ts, refs, now, want), ~dec.allowed
  PROVE  dec \in [allowed : {FALSE}, index : Int, remaining : Amount]
  <1>1. /\ bal \in [Key -> [Dim -> Int \cup {Nil}]] /\ ts \in [Key -> Nat \cup {Nil}]
        /\ now \in Nat
    BY DEF P!IInv, P!TypeOK, P!Dim, Dim
  <1> DEFINE short == Lacking(bal, ts, refs, now, want)
             first == CHOOSE i \in short : \A j \in short : i <= j
             ref == refs[first]
             left(d) == Refilled(bal[ref.key], ts[ref.key], ref, now, d)
  <1>2. CASE \E d \in Dim : want[d] < 0
    <2>1. dec = [allowed |-> FALSE, index |-> -1, remaining |-> NoAmount]
      BY <1>2 DEF Decision, Amount
    <2> QED BY <2>1 DEF NoAmount, Amount
  <1>3. CASE (\A d \in Dim : want[d] >= 0) /\ short # {}
    <2>1. refs \in Seq(BucketRef) BY FitClient
    <2>2. short \subseteq Nat /\ short \subseteq DOMAIN refs BY <2>1 DEF Lacking
    <2> HIDE DEF short
    <2>3. first \in short BY <1>3, <2>2, LeastExists
    <2>5. dec = [allowed |-> FALSE, index |-> first,
                 remaining |-> [d \in Dim |-> Whole(left(d), d)]]
      <3>1. ~(\E d \in Dim : want[d] < 0) BY <1>3 DEF Amount
      <3> QED BY <1>3, <3>1 DEF Decision, short
    <2> HIDE DEF first
    <2>4. first \in Nat /\ ref \in BucketRef BY <2>1, <2>2, <2>3
    <2>6. ASSUME NEW d \in Dim PROVE Whole(left(d), d) \in Int
      <3>1. ref.key \in Key /\ ref.limit[d] \in Nat /\ ref.rate[d] \in Nat
        BY <2>4 DEF BucketRef
      <3>2. bal[ref.key][d] \in Int \cup {Nil} /\ ts[ref.key] \in Nat \cup {Nil}
        BY <1>1, <3>1
      <3>3. Elapsed(ts[ref.key], now) \in Nat BY <1>1, <3>2 DEF Elapsed
      <3>4. StoredOr(bal[ref.key][d], ref.limit[d]) \in Int BY <3>1, <3>2 DEF StoredOr
      <3>5. Elapsed(ts[ref.key], now) * ref.rate[d] \in Int BY <3>1, <3>3
      <3>6. left(d) \in Int BY <3>1, <3>4, <3>5 DEF Refilled
      <3>7. Unit[d] \in Nat \ {0} BY BucketAssumption
      <3> HIDE DEF left
      <3> QED BY <3>6, <3>7 DEF Whole
    <2> HIDE DEF left
    <2>7. [d \in Dim |-> Whole(left(d), d)] \in Amount BY <2>6 DEF Amount
    <2> QED BY <2>4, <2>5, <2>7
  <1>4. CASE ~(\E d \in Dim : want[d] < 0) /\ short = {}
    <2>1. dec.allowed BY <1>4 DEF Decision
    <2> QED BY <2>1
  <1>5. \/ \E d \in Dim : want[d] < 0
        \/ \A d \in Dim : want[d] >= 0
    BY DEF Amount
  <1> HIDE DEF short
  <1> QED BY <1>2, <1>3, <1>4, <1>5

(* Advice is a list of suggestions. *)
LEMMA AdviceType ==
  ASSUME NEW hr, NEW advice \in Advices(hr)
  PROVE  advice \in Seq(Suggestion)
  <1>1. \A q : Received(q) \in Seq(Suggestion) BY DEF Received
  <1>2. <<>> \in Seq(Suggestion) OBVIOUS
  <1>3. advice = <<>> \/ \E q : advice = Received(q) BY Zenon DEF Advices
  <1> QED BY <1>1, <1>2, <1>3

(* The advisor: lists of suggestions that passed the validation of the     *)
(* service, and those of them that also pass its guardrails.               *)
Valid(s) == WellFormed(s) /\ CrossFieldsValid(s)
ValidLists(D) == {q \in Seq(D) : \A i \in DOMAIN q : Valid(q[i])}
FitFor(model, D) ==
  {q \in ValidLists(D) :
     /\ \A i, j \in DOMAIN q : q[i].type = q[j].type => i = j
     /\ \A i \in DOMAIN q :
          q[i].type = "switch_model" => q[i].model \in CheaperAlternatives(model)}

(* Whatever the LLM's list is, the service reads at most three valid       *)
(* suggestions out of it.                                                  *)
LEMMA ParseFacts ==
  ASSUME NEW D, NEW text \in Seq(D)
  PROVE  LET q == parse_llm_output(text) IN q \in ValidLists(D) /\ Len(q) <= 3
  <1> DEFINE n == Len(text)
             V == ValidLists(D)
             valid(out, s) == IF CrossFieldsValid(s) THEN Append(out, s) ELSE out
             Folds(g) == g = [s \in SUBSET (1 .. n) |->
                                IF s = {} THEN <<>>
                                ELSE valid(g[s \ {Max(s)}], text[Max(s)])]
             g == CHOOSE g : Folds(g)
  <1>1. n \in Nat /\ DOMAIN text = 1 .. n /\ \A i \in 1 .. n : text[i] \in D OBVIOUS
  <1>2. <<>> \in V /\ Len(<<>>) = 0 BY DEF ValidLists
  <1>c. CASE text = Unparsable \/ n > 3 \/ \E i \in DOMAIN text : ~WellFormed(text[i])
    <2>1. parse_llm_output(text) = <<>> BY <1>c DEF parse_llm_output
    <2> QED BY <1>2, <2>1
  <1>3. SUFFICES ASSUME n <= 3, \A i \in 1 .. n : WellFormed(text[i]), text # Unparsable
                 PROVE  parse_llm_output(text) \in V /\ Len(parse_llm_output(text)) <= 3
    BY <1>c, <1>1
  <1>4. parse_llm_output(text) = g[1 .. n]
    BY <1>1, <1>3 DEF parse_llm_output, FoldLeft, MapThenFoldSet
  <1>5. ASSUME NEW out \in V, NEW i \in 1 .. n PROVE valid(out, text[i]) \in V
    <2>1. CASE CrossFieldsValid(text[i])
      <3>1. out \in Seq(D) /\ text[i] \in D BY <1>1 DEF ValidLists
      <3>2. Append(out, text[i]) \in Seq(D) BY <3>1
      <3>3. ASSUME NEW j \in DOMAIN Append(out, text[i])
            PROVE  Valid(Append(out, text[i])[j])
        <4>1. \/ j \in DOMAIN out /\ Append(out, text[i])[j] = out[j]
              \/ Append(out, text[i])[j] = text[i]
          BY <3>1
        <4> QED BY <1>3, <2>1, <4>1 DEF ValidLists, Valid
      <3> QED BY <2>1, <3>2, <3>3 DEF ValidLists
    <2>2. CASE ~ CrossFieldsValid(text[i]) BY <2>2
    <2> QED BY <2>1, <2>2
  <1>6. \E f : Folds(f)
    <2> DEFINE F == [p \in (1 .. n) \X V |-> valid(p[2], text[p[1]])]
    <2>1. /\ F \in [(1 .. n) \X V -> V]
          /\ \A i \in 1 .. n, out \in V : F[<<i, out>>] = valid(out, text[i])
      BY <1>5
    <2> HIDE DEF F, V, valid, n
    <2>4. PICK f : LeftFolds(f, n, V, F) BY <1>1, <1>2, <2>1, LeftFoldExists
    <2>2. /\ f \in [SUBSET (1 .. n) -> V]
          /\ \A s \in SUBSET (1 .. n) :
               f[s] = IF s = {} THEN <<>> ELSE F[<<Max(s), f[s \ {Max(s)}]>>]
      BY <2>4 DEF LeftFolds
    <2>3. ASSUME NEW s \in SUBSET (1 .. n), s # {}
          PROVE  f[s] = valid(f[s \ {Max(s)}], text[Max(s)])
      <3>1. Max(s) \in 1 .. n BY <1>1, <2>3, MaxChooses
      <3>2. f[s \ {Max(s)}] \in V BY <2>2
      <3> QED BY <2>1, <2>2, <2>3, <3>1, <3>2
    <2> QED BY <2>2, <2>3
  <1>7. Folds(g) BY <1>6
  <1> HIDE DEF g
  <1>8. ASSUME NEW s \in SUBSET (1 .. n), s # {}, g[s \ {Max(s)}] \in V
        PROVE  /\ g[s] \in V
               /\ g[s] = g[s \ {Max(s)}] \/ g[s] = Append(g[s \ {Max(s)}], text[Max(s)])
    <2>1. Max(s) \in 1 .. n BY <1>1, <1>8, MaxChooses
    <2>2. g[s] = valid(g[s \ {Max(s)}], text[Max(s)]) BY <1>7, <1>8
    <2> QED BY <1>5, <1>8, <2>1, <2>2
  <1>9. g[{}] = <<>> BY <1>7
  <1>10. V \subseteq Seq(D) BY DEF ValidLists
  <1> HIDE DEF V, n
  <1>11. g[1 .. n] \in V /\ Len(g[1 .. n]) <= n
    <2>1. Filters(g, n, text, V) BY <1>8, <1>9 DEF Filters
    <2> QED BY <1>1, <1>2, <1>10, <2>1, FilterFold
  <1>12. Len(g[1 .. n]) \in Nat BY <1>10, <1>11
  <1> QED BY <1>1, <1>3, <1>4, <1>11, <1>12

(* The guardrails leave suggestions of different types, and among them     *)
(* only switches to cheaper models by the gateway's own rule.              *)
LEMMA GuardFacts ==
  ASSUME NEW D, NEW model, NEW q \in ValidLists(D)
  PROVE  LET k == apply_guardrails(model, q) IN k \in FitFor(model, D) /\ Len(k) <= Len(q)
  <1> DEFINE n == Len(q)
             V == FitFor(model, D)
             keep(out, s) ==
               IF \/ \E i \in DOMAIN out : out[i].type = s.type
                  \/ s.type = "switch_model" /\ s.model \notin cheaper_alternatives(model)
                 THEN out ELSE Append(out, s)
             Folds(g) == g = [s \in SUBSET (1 .. n) |->
                                IF s = {} THEN <<>>
                                ELSE keep(g[s \ {Max(s)}], q[Max(s)])]
             g == CHOOSE g : Folds(g)
  <1>1. /\ n \in Nat /\ DOMAIN q = 1 .. n
        /\ \A i \in 1 .. n : q[i] \in D /\ Valid(q[i])
    BY DEF ValidLists
  <1>2. <<>> \in V BY DEF ValidLists, FitFor
  <1>3. apply_guardrails(model, q) = g[1 .. n]
    BY <1>1 DEF apply_guardrails, FoldLeft, MapThenFoldSet
  <1>4. cheaper_alternatives(model) = CheaperAlternatives(model)
    BY DEF cheaper_alternatives, CheaperAlternatives
  <1>5. ASSUME NEW out \in V, NEW i \in 1 .. n PROVE keep(out, q[i]) \in V
    <2>1. CASE keep(out, q[i]) = out BY <2>1
    <2>2. CASE keep(out, q[i]) # out
      <3> DEFINE new == Append(out, q[i])
      <3>1. /\ keep(out, q[i]) = new
            /\ \A j \in DOMAIN out : out[j].type # q[i].type
            /\ q[i].type = "switch_model" => q[i].model \in CheaperAlternatives(model)
        BY <1>4, <2>2
      <3>2. out \in Seq(D) /\ q[i] \in D BY <1>1 DEF FitFor, ValidLists
      <3>3. new \in Seq(D) BY <3>2
      <3>4. ASSUME NEW j \in DOMAIN new
            PROVE  \/ j \in DOMAIN out /\ new[j] = out[j]
                   \/ j = Len(out) + 1 /\ new[j] = q[i]
        BY <3>2
      <3> HIDE DEF new
      <3>5. \A j \in DOMAIN new : Valid(new[j]) BY <1>1, <3>4 DEF FitFor, ValidLists
      <3>6. ASSUME NEW j \in DOMAIN new, NEW k \in DOMAIN new, new[j].type = new[k].type
            PROVE  j = k
        BY <3>1, <3>4, <3>6 DEF FitFor
      <3>7. ASSUME NEW j \in DOMAIN new, new[j].type = "switch_model"
            PROVE  new[j].model \in CheaperAlternatives(model)
        BY <3>1, <3>4, <3>7 DEF FitFor
      <3> QED BY <3>1, <3>3, <3>5, <3>6, <3>7 DEF FitFor, ValidLists
    <2> QED BY <2>1, <2>2
  <1>6. \E f : Folds(f)
    <2> DEFINE F == [p \in (1 .. n) \X V |-> keep(p[2], q[p[1]])]
    <2>1. /\ F \in [(1 .. n) \X V -> V]
          /\ \A i \in 1 .. n, out \in V : F[<<i, out>>] = keep(out, q[i])
      BY <1>5
    <2> HIDE DEF F, V, keep, n
    <2>2. PICK f : LeftFolds(f, n, V, F) BY <1>1, <1>2, <2>1, LeftFoldExists
    <2>3. /\ f \in [SUBSET (1 .. n) -> V]
          /\ \A s \in SUBSET (1 .. n) :
               f[s] = IF s = {} THEN <<>> ELSE F[<<Max(s), f[s \ {Max(s)}]>>]
      BY <2>2 DEF LeftFolds
    <2>4. ASSUME NEW s \in SUBSET (1 .. n), s # {}
          PROVE  f[s] = keep(f[s \ {Max(s)}], q[Max(s)])
      <3>1. Max(s) \in 1 .. n BY <1>1, <2>4, MaxChooses
      <3>2. f[s \ {Max(s)}] \in V BY <2>3
      <3> QED BY <2>1, <2>3, <2>4, <3>1, <3>2
    <2> QED BY <2>3, <2>4
  <1>7. Folds(g) BY <1>6
  <1> HIDE DEF g
  <1>8. ASSUME NEW s \in SUBSET (1 .. n), s # {}, g[s \ {Max(s)}] \in V
        PROVE  /\ g[s] \in V
               /\ g[s] = g[s \ {Max(s)}] \/ g[s] = Append(g[s \ {Max(s)}], q[Max(s)])
    <2>1. Max(s) \in 1 .. n BY <1>1, <1>8, MaxChooses
    <2>2. g[s] = keep(g[s \ {Max(s)}], q[Max(s)]) BY <1>7, <1>8
    <2> QED BY <1>5, <1>8, <2>1, <2>2
  <1>9. g[{}] = <<>> BY <1>7
  <1>10. V \subseteq Seq(D) BY DEF FitFor, ValidLists
  <1> HIDE DEF V, n
  <1>11. g[1 .. n] \in V /\ Len(g[1 .. n]) <= n
    <2>1. Filters(g, n, q, V) BY <1>8, <1>9 DEF Filters
    <2> QED BY <1>1, <1>2, <1>10, <2>1, FilterFold
  <1> QED BY <1>3, <1>11 DEF V, n

(* What AdviceFit says of one piece of advice. *)
FitAdvice(advice, model) ==
  /\ Len(advice) <= 3
  /\ \A i, j \in DOMAIN advice : advice[i].type = advice[j].type => i = j
  /\ \A i \in DOMAIN advice :
       CASE advice[i].type = "switch_model" -> advice[i].model \in CheaperAlternatives(model)
         [] advice[i].type = "reduce_max_tokens" -> advice[i].max > 0
         [] OTHER -> TRUE

(* Decoding by the gateway's client does not change what they suggest. *)
LEMMA ReceivedFacts ==
  ASSUME NEW T, NEW M, NEW N, NEW C, NEW model,
         NEW q \in FitFor(model, [type : T, model : M, max : N, confidence : C]), Len(q) <= 3
  PROVE  FitAdvice(Received(q), model)
  <1> DEFINE D == [type : T, model : M, max : N, confidence : C]
             parsed == [i \in DOMAIN q |-> Decoded(q[i])]
  <1>1. CASE Received(q) = <<>> BY <1>1 DEF FitAdvice
  <1>2. CASE Received(q) # <<>>
    <2>1. Received(q) = parsed BY <1>2 DEF Received
    <2>2. q \in Seq(D) BY DEF FitFor, ValidLists
    <2>3. Len(parsed) = Len(q) /\ DOMAIN parsed = DOMAIN q BY <2>2
    <2>4. ASSUME NEW i \in DOMAIN q
          PROVE  /\ parsed[i].type = q[i].type /\ parsed[i].model = q[i].model
                 /\ q[i].max # Nil => parsed[i].max = q[i].max
      <3>1. q[i] \in D
        <4> HIDE DEF D
        <4> QED BY <2>2
      <3> QED BY <3>1 DEF Decoded
    <2>5. \A i \in DOMAIN q : Valid(q[i]) BY DEF FitFor, ValidLists
    <2> HIDE DEF parsed
    <2>6. ASSUME NEW i \in DOMAIN q, q[i].type = "reduce_max_tokens"
          PROVE  parsed[i].max > 0
      BY <2>4, <2>5, <2>6 DEF Valid, WellFormed, CrossFieldsValid
    <2>7. ASSUME NEW i \in DOMAIN q
          PROVE  CASE parsed[i].type = "switch_model" ->
                        parsed[i].model \in CheaperAlternatives(model)
                   [] parsed[i].type = "reduce_max_tokens" -> parsed[i].max > 0
                   [] OTHER -> TRUE
      BY <2>4, <2>6 DEF FitFor
    <2>8. \A i, j \in DOMAIN q : parsed[i].type = parsed[j].type => i = j
      BY <2>4 DEF FitFor
    <2> QED BY <2>1, <2>3, <2>7, <2>8 DEF FitAdvice
  <1> QED BY <1>1, <1>2

(* What the gateway receives for an answer that is a list of records, that *)
(* cannot be read or that never comes.                                     *)
LEMMA ServiceFacts ==
  ASSUME NEW T, NEW M, NEW N, NEW C, NEW model,
         NEW answer, answer # Raises =>
                       answer \in Seq([type : T, model : M, max : N, confidence : C])
                       \/ answer = Unparsable
  PROVE  FitAdvice(Received(get_suggestions(model, answer)), model)
  <1> DEFINE D == [type : T, model : M, max : N, confidence : C]
             q == get_suggestions(model, answer)
  <1>1. q \in FitFor(model, D) /\ Len(q) <= 3
    <2>1. CASE answer = Raises
      <3>1. q = <<>> BY <2>1 DEF get_suggestions
      <3>2. <<>> \in FitFor(model, D) /\ Len(<<>>) <= 3 BY DEF FitFor, ValidLists
      <3> QED BY <3>1, <3>2
    <2>2. CASE answer # Raises
      <3>1. parse_llm_output(answer) \in ValidLists(D) /\ Len(parse_llm_output(answer)) <= 3
        <4>1. CASE answer = Unparsable
          <5>1. parse_llm_output(answer) = <<>> BY <4>1 DEF parse_llm_output
          <5>2. <<>> \in ValidLists(D) /\ Len(<<>>) <= 3 BY DEF ValidLists
          <5> QED BY <5>1, <5>2
        <4>2. CASE answer # Unparsable
          <5>1. answer \in Seq(D) BY <2>2, <4>2
          <5> HIDE DEF D
          <5> QED BY <5>1, ParseFacts
        <4> QED BY <4>1, <4>2
      <3>2. q = apply_guardrails(model, parse_llm_output(answer)) BY <2>2 DEF get_suggestions
      <3> DEFINE p == parse_llm_output(answer)
      <3>3. p \in Seq(D) /\ Len(p) <= 3 BY <3>1 DEF ValidLists
      <3> HIDE DEF D, p
      <3>4. p \in ValidLists(D) BY <3>1 DEF p
      <3>5. q \in FitFor(model, D) /\ Len(q) <= Len(p)
        BY <3>2, <3>4, GuardFacts DEF p
      <3>6. q \in Seq(D) BY <3>5 DEF FitFor, ValidLists
      <3>7. Len(q) \in Nat /\ Len(p) \in Nat BY <3>3, <3>6
      <3> QED BY <3>3, <3>5, <3>7
    <2> QED BY <2>1, <2>2
  <1> HIDE DEF q
  <1>2. FitAdvice(Received(q), model) BY <1>1, ReceivedFacts
  <1> QED BY <1>2 DEF q

(* The mock answers with a list of records. *)
LEMMA MockType ==
  ASSUME NEW model, NEW estimated, NEW remaining, NEW growing
  PROVE  \E T, M, N, C : MockComplete(model, estimated, remaining, growing)
                         \in Seq([type : T, model : M, max : N, confidence : C])
  <1> DEFINE alts == cheaper_alternatives(model)
             best == CHOOSE m \in alts :
                       \A n \in alts : PricingTable[m].output <= PricingTable[n].output
             reduced == (remaining["tokens"] * 9) \div 10
             T == {"switch_model", "reduce_max_tokens", "summarize_first"}
             M == {best, None}
             N == {reduced, Nil}
             C == {85, 55, 70, 65}
             D == [type : T, model : M, max : N, confidence : C]
  <1>1. \A c \in {85, 55} : <<Says("switch_model", best, Nil, c)>> \in Seq(D)
    BY DEF Says
  <1>2. <<Says("reduce_max_tokens", None, reduced, 70)>> \in Seq(D) BY DEF Says
  <1>3. <<Says("summarize_first", None, Nil, 65)>> \in Seq(D) BY DEF Says
  <1>4. <<>> \in Seq(D) OBVIOUS
  <1> HIDE DEF D
  <1>5. \A x, y, z \in Seq(D) : (x \o y) \o z \in Seq(D) OBVIOUS
  <1>6. MockComplete(model, estimated, remaining, growing) \in Seq(D)
    BY <1>1, <1>2, <1>3, <1>4, <1>5 DEF MockComplete
  <1> QED BY <1>6 DEF D

(* All advice there can be is fit for the model of the request. *)
LEMMA AdviceFacts ==
  ASSUME NEW hr, NEW advice \in Advices(hr)
  PROVE  FitAdvice(advice, hr.body.model)
  <1>1. CASE advice = <<>> BY <1>1 DEF FitAdvice
  <1>2. CASE advice # <<>>
    <2>1. PICK a \in Answers(hr) : advice = Received(get_suggestions(hr.body.model, a))
      BY <1>2 DEF Advices
    <2>2. CASE a \in LLMAnswers \ {Mock}
      <3>1. a = Raises \/ a = Unparsable \/ a \in Seq(LLMSuggestion)
        BY <2>2, GatewayAssumption
      <3> QED BY <2>1, <3>1, ServiceFacts DEF LLMSuggestion
    <2>3. CASE a \notin LLMAnswers \ {Mock}
      <3>1. PICK growing : a = MockComplete(hr.body.model, Estimate(hr.body)["tokens"],
                                            hr.dec.remaining, growing)
        BY <2>1, <2>3 DEF Answers
      <3>2. PICK T, M, N, C : a \in Seq([type : T, model : M, max : N, confidence : C])
        BY <3>1, MockType
      <3> QED BY <2>1, <3>2, ServiceFacts
    <2> QED BY <2>2, <2>3
  <1> QED BY <1>1, <1>2

-----------------------------------------------------------------------------
(* Every step of the gateway is a step of the enforcer or leaves Redis     *)
(* alone.                                                                  *)
LEMMA NextImplements ==
  ASSUME GInv, [Next]_vars
  PROVE  [E!Next]_redis
  <1>1. CASE UNCHANGED vars BY <1>1 DEF vars, redis
  <1>i. ASSUME NEW r \in Req PROVE InStep(h[r], resv[r], ev[r]) BY DEF GInv, Handlers
  <1>b. ASSUME NEW r \in Req, h[r].pc \in {"check", "retry"}
        PROVE  h[r].refs \in AllRefLists /\ Estimate(h[r].body) \in AllEstimates
    BY <1>i, <1>b DEF InStep, AllEstimates
  <1>u. ASSUME NEW r \in Req, NEW u \in Usages, h[r].pc = "upstream"
        PROVE  Actual(h[r].body, u) \in AllActuals
    BY <1>i, <1>u DEF InStep, AllActuals
  <1>n. NoAmount \in AllActuals BY DEF AllActuals
  <1>3. ASSUME NEW r \in Req, Admit(r) PROVE E!Next
    <2>1. E!Reserve(r, h[r].refs, Estimate(h[r].body)) BY <1>3 DEF Admit
    <2>2. h[r].refs \in AllRefLists /\ Estimate(h[r].body) \in AllEstimates
      BY <1>3, <1>b DEF Admit, Checking
    <2> QED BY <2>1, <2>2 DEF E!Next
  <1>4. ASSUME NEW r \in Req, LoseReply(r) PROVE E!Next
    <2>1. E!LoseReply(r, h[r].refs, Estimate(h[r].body)) BY <1>4 DEF LoseReply
    <2>2. h[r].refs \in AllRefLists /\ Estimate(h[r].body) \in AllEstimates
      BY <1>4, <1>b DEF LoseReply, Checking
    <2> QED BY <2>1, <2>2 DEF E!Next
  <1>5. ASSUME NEW r \in Req,
               (\E u \in Usages : Complete(r, u)) \/ ProviderError(r) \/ StreamBreaks(r)
        PROVE  E!Next
    <2>1. \E act \in AllActuals : E!Settle(r, act)
      BY <1>5, <1>u, <1>n DEF Complete, ProviderError, StreamBreaks, Reconcile
    <2> QED BY <2>1 DEF E!Next
  <1>6. ASSUME NEW r \in Req, Apply(r) \/ Applied(r) \/ Resend(r) \/ GiveUp(r) PROVE E!Next
    BY <1>6 DEF Apply, Applied, Resend, GiveUp, E!Next
  <1>7. ASSUME NEW r \in Req,
               \/ Unauthorized(r) \/ Malformed(r)
               \/ \E c \in Callers, b \in Bodies : ArriveUnbudgeted(r, c, b) \/ Arrive(r, c, b)
               \/ Deny(r) \/ CheckFails(r)
               \/ \E advice \in Advices(h[r]) : Advise(r, advice)
               \/ Finish(r) \/ Cancel(r) \/ Crash(r)
        PROVE  UNCHANGED redis
    BY <1>7 DEF Unauthorized, Malformed, ArriveUnbudgeted, Arrive, Deny, CheckFails,
                Advise, Finish, Cancel, Crash
  <1>8. CASE SaveBudget \/ Refresh BY <1>8 DEF SaveBudget, Refresh
  <1>9. CASE Server BY <1>9 DEF Server, E!Next
  <1> QED BY <1>1, <1>3, <1>4, <1>5, <1>6, <1>7, <1>8, <1>9 DEF Next, Step

(* The invariant holds at first. *)
LEMMA InitGInv == Init => GInv
  <1> SUFFICES ASSUME Init PROVE Handlers BY EnforcerInit DEF Init, GInv
  <1>1. table \in Tables /\ data \in AllSnapshots BY DEF Init, AllSnapshots
  <1>2. NewHandler(NoBody) \in Handler
    BY NewHandlerType
  <1>3. NoEvent \in Event BY DEF NoEvent, Event, AllActuals
  <1>4. ASSUME NEW r \in Req PROVE resv[r].st = "free" BY DEF Init, E!Init, E!NoReservation
  <1>5. ASSUME NEW r \in Req PROVE InStep(h[r], resv[r], ev[r])
    <2>1. h[r] = NewHandler(NoBody) /\ ev[r] = NoEvent BY DEF Init
    <2>2. h[r].pc = "new" /\ h[r].body = h[r].asked BY <2>1 DEF NewHandler
    <2> QED BY <1>4, <2>1, <2>2 DEF InStep
  <1> QED BY <1>1, <1>2, <1>3, <1>5 DEF Init, Handlers

(* Every step keeps every handler in step. *)
LEMMA NextHandlers ==
  ASSUME GInv, [Next]_vars
  PROVE  Handlers'
  <1>i. /\ P!IInv /\ Handlers
        /\ \A r \in Req : h[r] \in Handler /\ ev[r] \in Event /\ InStep(h[r], resv[r], ev[r])
    BY DEF GInv, Handlers
  <1>n. NoAmount \in AllActuals BY DEF AllActuals
  <1>x. [label |-> "rejected", cost |-> NoAmount] \in Event BY <1>n DEF Event
  <1>p. /\ "check" \in PC /\ "advise" \in PC /\ "retry" \in PC /\ "upstream" \in PC
        /\ "settle" \in PC /\ "done" \in PC /\ "crashed" \in PC
    BY DEF PC
  <1>l. "advised_retry" \in Label /\ "rejected" \in Label BY DEF Label
  \* The conclusion of every case about one request.
  <1>h. ASSUME NEW r \in Req, NEW hr \in Handler, h' = [h EXCEPT ![r] = hr],
               ev' = ev, UNCHANGED config, \A q \in Req \ {r} : resv'[q] = resv[q],
               InStep(hr, resv'[r], ev[r])
        PROVE  Handlers'
    BY <1>h, <1>i, OneHandler
  <1>0. CASE UNCHANGED vars BY <1>0, <1>i DEF vars, Handlers
  <1>1. ASSUME NEW r \in Req, Unauthorized(r) \/ Malformed(r) PROVE Handlers'
    <2>1. PICK code \in Code :
                 h' = [h EXCEPT ![r] = [h[r] EXCEPT !.pc = "done", !.code = code]]
      BY <1>1 DEF Unauthorized, Malformed, Answer, Code
    <2>2. h[r].pc = "new" /\ ev' = ev /\ resv' = resv /\ UNCHANGED config
      BY <1>1 DEF Unauthorized, Malformed, redis
    <2> DEFINE hr == [h[r] EXCEPT !.pc = "done", !.code = code]
    <2>3. h[r] \in Handler BY <1>i
    <2>4. hr \in Handler BY <1>p, <2>3, HandlerFields
    <2>5. hr.pc = "done" /\ hr.body = h[r].body /\ hr.asked = h[r].asked
      BY <2>3, HandlerFields
    <2>6. h[r].body = h[r].asked /\ resv[r].st = "free"
      BY <1>i, <2>2 DEF InStep, NewHandler
    <2>7. InStep(hr, resv'[r], ev[r]) BY <2>2, <2>5, <2>6 DEF InStep
    <2>8. h' = [h EXCEPT ![r] = hr] BY <2>1
    <2> HIDE DEF hr
    <2> QED BY <1>h, <2>2, <2>4, <2>7, <2>8
  <1>2. ASSUME NEW r \in Req, NEW c \in Callers, NEW b \in Bodies, ArriveUnbudgeted(r, c, b)
        PROVE  Handlers'
    <2> DEFINE status == 403
               hr == [NewHandler(b) EXCEPT !.pc = "done", !.code = status]
               e == [label |-> "rejected", cost |-> NoAmount]
    <2>1. /\ h' = [h EXCEPT ![r] = hr] /\ ev' = [ev EXCEPT ![r] = e]
          /\ h[r].pc = "new" /\ resv' = resv /\ UNCHANGED config
      BY <1>2 DEF ArriveUnbudgeted, Answer, Emit, redis
    <2>2. NewHandler(b) \in Handler BY NewHandlerType
    <2>c. status \in Code BY DEF Code
    <2> HIDE DEF status
    <2>3. hr \in Handler BY <1>p, <2>c, <2>2, HandlerFields
    <2>4. hr.pc = "done" /\ hr.body = hr.asked BY DEF NewHandler
    <2>5. resv[r].st = "free" BY <1>i, <2>1 DEF InStep
    <2>6. InStep(hr, resv'[r], e) BY <2>1, <2>4, <2>5 DEF InStep
    <2> HIDE DEF hr, e
    <2> QED BY <1>i, <1>x, <2>1, <2>3, <2>6, OneHandler DEF e
  <1>3. ASSUME NEW r \in Req, NEW c \in Callers, NEW b \in Bodies, Arrive(r, c, b)
        PROVE  Handlers'
    <2> DEFINE refs == Resolve(data, c)
               hr == [NewHandler(b) EXCEPT !.pc = "check", !.refs = refs]
    <2>1. /\ h' = [h EXCEPT ![r] = hr] /\ ev' = ev
          /\ h[r].pc = "new" /\ resv' = resv /\ UNCHANGED config
          /\ refs # <<>>
      BY <1>3 DEF Arrive, redis
    <2>2. b \in AllBodies BY DEF AllBodies
    <2>3. refs \in AllRefLists
      <3>1. PICK t \in Tables : data = Load(t) BY <1>i DEF Handlers, AllSnapshots
      <3> QED BY <2>1, <3>1 DEF AllRefLists
    <2>4. refs \in Refs BY <2>3 DEF Refs
    <2> HIDE DEF refs
    <2>5. NewHandler(b) \in Handler BY NewHandlerType
    <2>6. hr \in Handler BY <1>p, <2>4, <2>5, HandlerFields
    <2>7. hr.pc = "check" /\ hr.body = b /\ hr.asked = b /\ hr.refs = refs BY DEF NewHandler
    <2>8. resv[r].st = "free" /\ ev[r] = NoEvent BY <1>i, <2>1 DEF InStep
    <2>9. InStep(hr, resv'[r], ev[r]) BY <2>1, <2>2, <2>3, <2>7, <2>8 DEF InStep
    <2> HIDE DEF hr
    <2> QED BY <1>h, <2>1, <2>6, <2>9
  <1>4. ASSUME NEW r \in Req, Admit(r) PROVE Handlers'
    <2> DEFINE hr == [h[r] EXCEPT !.pc = "upstream"]
    <2>1. /\ E!Reserve(r, h[r].refs, Estimate(h[r].body))
          /\ h[r].pc \in {"check", "retry"}
          /\ h' = [h EXCEPT ![r] = hr] /\ ev' = ev /\ UNCHANGED config
      BY <1>4 DEF Admit, Checking
    <2>2. h[r] \in Handler BY <1>i
    <2>3. hr \in Handler BY <1>p, <2>2, HandlerFields
    <2>4. /\ hr.pc = "upstream" /\ hr.refs = h[r].refs /\ hr.body = h[r].body
          /\ hr.asked = h[r].asked /\ hr.dec = h[r].dec /\ hr.label = h[r].label
      BY <2>2, HandlerFields
    <2>5. /\ resv'[r].st = "held" /\ resv'[r].refs = h[r].refs
          /\ resv'[r].est = Estimate(h[r].body)
          /\ \A d \in Dim : Estimate(h[r].body)[d] >= 0
          /\ \A q \in Req \ {r} : resv'[q] = resv[q]
      BY <1>i, <2>1, ResvSteps
    <2>6. InStep(h[r], resv[r], ev[r]) BY <1>i
    <2>7. InStep(hr, resv'[r], ev[r]) BY <2>1, <2>4, <2>5, <2>6 DEF InStep
    <2> HIDE DEF hr
    <2> QED BY <1>h, <2>1, <2>3, <2>5, <2>7
  \* A rejection, after the advisor was asked or of a retry.
  <1>r. ASSUME NEW r \in Req, h[r].pc \in {"advise", "retry"}, Reject(r),
               UNCHANGED <<redis, config>>
        PROVE  Handlers'
    <2> DEFINE status == 429
               hr == [h[r] EXCEPT !.pc = "done", !.code = status]
               e == [label |-> "rejected", cost |-> NoAmount]
    <2>1. h' = [h EXCEPT ![r] = hr] /\ ev' = [ev EXCEPT ![r] = e] /\ resv' = resv
          /\ UNCHANGED config
      BY <1>r DEF Reject, Answer, Emit, redis
    <2>2. h[r] \in Handler BY <1>i
    <2>c. status \in Code BY DEF Code
    <2> HIDE DEF status
    <2>3. hr \in Handler BY <1>p, <2>c, <2>2, HandlerFields
    <2>4. /\ hr.pc = "done" /\ hr.body = h[r].body /\ hr.asked = h[r].asked
          /\ hr.dec = h[r].dec /\ hr.label = h[r].label /\ e.label = "rejected"
      BY <2>2, HandlerFields
    <2>5. InStep(h[r], resv[r], ev[r]) BY <1>i
    <2> HIDE DEF hr, e
    <2>6. InStep(hr, resv'[r], e) BY <1>r, <2>1, <2>4, <2>5 DEF InStep
    <2> QED BY <1>i, <1>x, <2>1, <2>3, <2>6, OneHandler DEF e
  <1>5. ASSUME NEW r \in Req, Deny(r) PROVE Handlers'
    <2> DEFINE dec == Decision(bal, ts, h[r].refs, now, Estimate(h[r].body))
               hr == [h[r] EXCEPT !.pc = "advise", !.dec = dec]
    <2>1. CASE h[r].pc = "retry"
      BY <1>5, <1>r, <2>1 DEF Deny
    <2>2. CASE h[r].pc = "check"
      <3>1. /\ ~dec.allowed /\ h' = [h EXCEPT ![r] = hr]
            /\ ev' = ev /\ resv' = resv /\ UNCHANGED config
        BY <1>5, <2>2 DEF Deny, redis
      <3>2. h[r] \in Handler /\ InStep(h[r], resv[r], ev[r]) BY <1>i
      <3>3. h[r].refs \in AllRefLists /\ h[r].body \in AllBodies BY <2>2, <3>2 DEF InStep
      <3>4. Estimate(h[r].body) \in Amount BY <3>3, BodyFacts, EstimateFacts
      <3>5. dec \in Denial BY <1>i, <3>1, <3>3, <3>4, DenialType DEF Denial
      <3> HIDE DEF dec
      <3>6. hr \in Handler BY <1>p, <3>2, <3>5, HandlerFields
      <3>7. /\ hr.pc = "advise" /\ hr.refs = h[r].refs /\ hr.body = h[r].body
            /\ hr.asked = h[r].asked /\ hr.label = h[r].label
        BY <3>2, HandlerFields
      <3> HIDE DEF hr
      <3>8. InStep(hr, resv'[r], ev[r]) BY <2>2, <3>1, <3>2, <3>7 DEF InStep
      <3> QED BY <1>h, <3>1, <3>6, <3>8
    <2> QED BY <1>5, <2>1, <2>2 DEF Deny, Checking
  <1>6. ASSUME NEW r \in Req, CheckFails(r) PROVE Handlers'
    <2> DEFINE status == 503
               hr == [h[r] EXCEPT !.pc = "done", !.code = status]
    <2>1. CASE h[r].pc = "retry"
      BY <1>6, <1>r, <2>1 DEF CheckFails
    <2>2. CASE h[r].pc = "check"
      <3>1. h' = [h EXCEPT ![r] = hr] /\ ev' = ev /\ resv' = resv /\ UNCHANGED config
        BY <1>6, <2>2 DEF CheckFails, Answer, redis
      <3>2. h[r] \in Handler /\ InStep(h[r], resv[r], ev[r]) BY <1>i
      <3>c. status \in Code BY DEF Code
      <3> HIDE DEF status
      <3>3. hr \in Handler BY <1>p, <3>c, <3>2, HandlerFields
      <3>4. hr.pc = "done" /\ hr.body = h[r].body /\ hr.asked = h[r].asked
        BY <3>2, HandlerFields
      <3> HIDE DEF hr
      <3>5. InStep(hr, resv'[r], ev[r]) BY <2>2, <3>1, <3>2, <3>4 DEF InStep
      <3> QED BY <1>h, <3>1, <3>3, <3>5
    <2> QED BY <1>6, <2>1, <2>2 DEF CheckFails
  <1>7. ASSUME NEW r \in Req, NEW advice \in Advices(h[r]), Advise(r, advice) PROVE Handlers'
    <2> DEFINE tokens == Estimate(h[r].body)["tokens"]
               left == h[r].dec.remaining["tokens"]
               o == Decide(h[r].body.model, tokens, left, advice)
    <2>2. h[r].pc = "advise" /\ resv' = resv /\ UNCHANGED config
      BY <1>7 DEF Advise, redis
    <2>3. h[r] \in Handler /\ InStep(h[r], resv[r], ev[r]) BY <1>i
    <2>4. /\ h[r].asked \in Bodies /\ h[r].body = h[r].asked /\ h[r].body \in AllBodies
          /\ h[r].refs \in AllRefLists /\ resv[r].st = "free" /\ ev[r] = NoEvent
      BY <2>2, <2>3 DEF InStep
    <2>5. tokens \in Int BY <2>4, BodyFacts, EstimateFacts DEF Amount, Dim
    <2>6. left \in Int
      <3>1. h[r].dec \in Denial BY <2>3, HandlerFields
      <3> QED BY <3>1 DEF Denial, Amount, Dim
    <2>7. \/ o.action = "reject"
          \/ /\ o.action = "retry_with_model"
             /\ o.model \in CheaperAlternatives(h[r].body.model)
          \/ /\ o.action = "partial_allowance"
             /\ o.max \in MinAllowance .. tokens - 1
             /\ o.max <= left
      BY <2>5, <2>6, AdviceType, DecideFacts
    <2>8. CASE o.action = "reject"
      <3>1. Reject(r) /\ UNCHANGED <<redis, config>> BY <1>7, <2>8 DEF Advise
      <3> QED BY <1>r, <2>2, <3>1
    \* The retry: what it sends is one of the bodies, and a change.
    <2>9. ASSUME NEW b \in AllBodies, Changed(b, h[r].asked, h[r].dec), ev' = ev,
                 h' = [h EXCEPT ![r].pc = "retry", ![r].label = "advised_retry",
                                ![r].body = b]
          PROVE  Handlers'
      <3> DEFINE hr == [h[r] EXCEPT !.pc = "retry", !.label = "advised_retry", !.body = b]
      <3>1. b \in Sent BY DEF Sent
      <3>2. hr \in Handler BY <1>p, <1>l, <2>3, <3>1, HandlerFields
      <3>3. /\ hr.pc = "retry" /\ hr.label = "advised_retry" /\ hr.body = b
            /\ hr.asked = h[r].asked /\ hr.dec = h[r].dec /\ hr.refs = h[r].refs
        BY <2>3, HandlerFields
      <3>4. h' = [h EXCEPT ![r] = hr] BY <2>9
      <3> HIDE DEF hr
      <3>5. ev[r].label = "none" BY <2>4 DEF NoEvent
      <3>6. InStep(hr, resv'[r], ev[r]) BY <2>2, <2>3, <2>4, <2>9, <3>3, <3>5 DEF InStep
      <3> QED BY <1>h, <2>2, <2>9, <3>2, <3>4, <3>6
    <2>10. CASE o.action = "retry_with_model"
      <3> DEFINE b == [h[r].body EXCEPT !.model = o.model]
      <3>1. /\ h' = [h EXCEPT ![r].pc = "retry", ![r].label = "advised_retry",
                              ![r].body = b]
            /\ ev' = ev
        BY <1>7, <2>10 DEF Advise
      <3>2. o.model \in CheaperAlternatives(h[r].asked.model) BY <2>4, <2>7, <2>10
      <3>3. b \in AllBodies
        <4>1. b \in Retries(h[r].asked) BY <2>4, <3>2 DEF Retries
        <4> QED BY <2>4, <4>1 DEF AllBodies
      <3>4. h[r].asked \in Body BY <2>4, GatewayAssumption
      <3>5. b.model = o.model BY <2>4, <3>4 DEF Body
      <3>6. Changed(b, h[r].asked, h[r].dec) BY <2>4, <3>2, <3>5 DEF Changed
      <3> HIDE DEF b
      <3> QED BY <2>9, <3>1, <3>3, <3>6
    <2>11. CASE o.action = "partial_allowance"
      <3> DEFINE b == [h[r].body EXCEPT !.max = o.max]
      <3>1. /\ h' = [h EXCEPT ![r].pc = "retry", ![r].label = "advised_retry",
                              ![r].body = b]
            /\ ev' = ev
        BY <1>7, <2>11 DEF Advise
      <3>2. o.max \in MinAllowance .. tokens - 1 /\ o.max <= left BY <2>7, <2>11
      <3>3. b \in AllBodies
        <4>1. b \in Retries(h[r].asked) BY <2>4, <3>2 DEF Retries
        <4> QED BY <2>4, <4>1 DEF AllBodies
      <3>4. h[r].asked \in Body BY <2>4, GatewayAssumption
      <3>5. b.max = o.max BY <2>4, <3>4 DEF Body
      <3>6. o.max \in MinAllowance .. left /\ o.max < tokens
        BY <2>5, <2>6, <3>2, PolicyAssumption
      <3>7. Changed(b, h[r].asked, h[r].dec) BY <2>4, <3>5, <3>6 DEF Changed
      <3> HIDE DEF b
      <3> QED BY <2>9, <3>1, <3>3, <3>7
    <2> QED BY <2>7, <2>8, <2>10, <2>11
  <1>8. ASSUME NEW r \in Req, NEW act, NEW l \in Label, NEW c \in Code,
               Reconcile(r, act, l, c), l = h[r].label \/ l = "rejected",
               UNCHANGED <<config, ev>>
        PROVE  Handlers'
    <2> DEFINE hr == [h[r] EXCEPT !.pc = "settle", !.label = l, !.code = c,
                                  !.dead = h[r].cancelled]
    <2>1. /\ h[r].pc = "upstream" /\ E!Settle(r, act) /\ h' = [h EXCEPT ![r] = hr]
          /\ ev' = ev /\ UNCHANGED config
      BY <1>8 DEF Reconcile
    <2>2. h[r] \in Handler /\ InStep(h[r], resv[r], ev[r]) BY <1>i
    <2>3. hr \in Handler BY <1>p, <2>2, HandlerFields
    <2>4. /\ hr.pc = "settle" /\ hr.label = l /\ hr.body = h[r].body
          /\ hr.asked = h[r].asked /\ hr.dec = h[r].dec
      BY <2>2, HandlerFields
    <2>5. /\ resv'[r].st \in {"settling", "settled"}
          /\ \A q \in Req \ {r} : resv'[q] = resv[q]
      BY <1>i, <2>1, ResvSteps
    <2> HIDE DEF hr
    <2>6. InStep(hr, resv'[r], ev[r]) BY <1>8, <2>1, <2>2, <2>4, <2>5 DEF InStep
    <2> QED BY <1>h, <2>1, <2>3, <2>5, <2>6
  <1>9. ASSUME NEW r \in Req,
               (\E u \in Usages : Complete(r, u)) \/ ProviderError(r) \/ StreamBreaks(r)
        PROVE  Handlers'
    <2>1. h[r].label \in Label BY <1>i, HandlerFields
    <2> DEFINE ok == 200
               bad == 502
    <2>2. ok \in Code /\ bad \in Code BY DEF Code
    <2>3. /\ \/ \E u \in Usages : Reconcile(r, Actual(h[r].body, u), h[r].label, ok)
             \/ Reconcile(r, NoAmount, "rejected", bad)
             \/ Reconcile(r, NoAmount, h[r].label, ok)
          /\ UNCHANGED <<config, ev>>
      BY <1>9 DEF Complete, ProviderError, StreamBreaks
    <2> HIDE DEF ok, bad
    <2> QED BY <1>8, <1>l, <2>1, <2>2, <2>3
  \* Steps of the pipeline: only the reservation changes.
  <1>10. ASSUME NEW r \in Req, Apply(r) \/ Applied(r) \/ Resend(r) \/ GiveUp(r)
         PROVE  Handlers'
    <2>1. /\ h[r].pc \in {"settle", "crashed"} /\ h' = h /\ ev' = ev /\ UNCHANGED config
          /\ E!Increment(r) \/ E!Replay(r) \/ E!Settled(r) \/ E!Abandon(r)
      BY <1>10 DEF Apply, Applied, Resend, GiveUp
    <2>2. h[r] \in Handler /\ InStep(h[r], resv[r], ev[r]) BY <1>i
    <2>3. /\ \A q \in Req \ {r} : resv'[q] = resv[q]
          /\ resv[r].st = "settling"
          /\ resv'[r].st \in {"settling", "settled", "abandoned"}
          /\ resv'[r].st = "abandoned" => "abandon" \in Faults
      BY <1>i, <2>1, ResvSteps
    <2>4. InStep(h[r], resv'[r], ev[r]) BY <2>1, <2>2, <2>3 DEF InStep
    <2>5. h' = [h EXCEPT ![r] = h[r]] BY <1>i, <2>1 DEF Handlers
    <2> QED BY <1>h, <2>1, <2>2, <2>3, <2>4, <2>5
  <1>11. ASSUME NEW r \in Req, LoseReply(r) PROVE Handlers'
    BY <1>11, <1>i DEF LoseReply, E!LoseReply, config, Handlers
  <1>12. ASSUME NEW r \in Req, Finish(r) PROVE Handlers'
    <2> DEFINE hr == [h[r] EXCEPT !.pc = "done", !.code = h[r].code]
               e == [label |-> h[r].label, cost |-> resv[r].act]
    <2>1. /\ h[r].pc = "settle" /\ resv[r].st \in {"settled", "abandoned"}
          /\ h' = [h EXCEPT ![r] = hr] /\ ev' = [ev EXCEPT ![r] = e]
          /\ resv' = resv /\ UNCHANGED config
      BY <1>12 DEF Finish, Answer, Emit, redis
    <2>2. h[r] \in Handler /\ InStep(h[r], resv[r], ev[r]) BY <1>i
    <2>3. hr \in Handler BY <1>p, <2>2, HandlerFields
    <2>4. h[r].label \in Label BY <2>2, HandlerFields
    <2>5. resv[r].act \in AllActuals BY <1>i, <1>n, ResvType
    <2>6. e \in Event BY <2>4, <2>5 DEF Event, Label
    <2>7. /\ hr.pc = "done" /\ hr.body = h[r].body /\ hr.label = h[r].label
          /\ hr.asked = h[r].asked /\ hr.dec = h[r].dec /\ e.label = h[r].label
          /\ e.cost = resv[r].act
      BY <2>2, HandlerFields
    <2> HIDE DEF hr, e
    <2>8. InStep(hr, resv'[r], e) BY <2>1, <2>2, <2>7 DEF InStep
    <2> QED BY <1>i, <2>1, <2>3, <2>6, <2>8, OneHandler
  <1>13. ASSUME NEW r \in Req, Cancel(r) PROVE Handlers'
    <2> DEFINE hr == [h[r] EXCEPT !.cancelled = TRUE]
    <2>1. /\ h[r].pc # "new" /\ h' = [h EXCEPT ![r] = hr]
          /\ ev' = ev /\ resv' = resv /\ UNCHANGED config
      BY <1>13 DEF Cancel, redis
    <2>2. h[r] \in Handler /\ InStep(h[r], resv[r], ev[r]) BY <1>i
    <2>3. hr \in Handler BY <2>2, HandlerFields
    <2>4. /\ hr.pc = h[r].pc /\ hr.body = h[r].body /\ hr.label = h[r].label
          /\ hr.asked = h[r].asked /\ hr.dec = h[r].dec /\ hr.refs = h[r].refs
      BY <2>2, HandlerFields
    <2> HIDE DEF hr
    <2>5. InStep(hr, resv'[r], ev[r]) BY <2>1, <2>2, <2>4 DEF InStep
    <2> QED BY <1>h, <2>1, <2>3, <2>5
  <1>14. ASSUME NEW r \in Req, Crash(r) PROVE Handlers'
    <2> DEFINE hr == [h[r] EXCEPT !.pc = "crashed"]
    <2>1. /\ h[r].pc # "done" /\ h' = [h EXCEPT ![r] = hr]
          /\ ev' = ev /\ resv' = resv /\ UNCHANGED config
      BY <1>14 DEF Crash, redis
    <2>2. h[r] \in Handler /\ InStep(h[r], resv[r], ev[r]) BY <1>i
    <2>3. hr \in Handler BY <1>p, <2>2, HandlerFields
    <2>4. /\ hr.pc = "crashed" /\ hr.body = h[r].body /\ hr.label = h[r].label
          /\ hr.asked = h[r].asked /\ hr.dec = h[r].dec
      BY <2>2, HandlerFields
    <2> HIDE DEF hr
    <2>5. InStep(hr, resv'[r], ev[r]) BY <2>1, <2>2, <2>4 DEF InStep
    <2> QED BY <1>h, <2>1, <2>3, <2>5
  <1>15. CASE SaveBudget \/ Refresh
    BY <1>15, <1>i DEF SaveBudget, Refresh, redis, AllSnapshots, Handlers
  <1>16. CASE Server
    BY <1>16, <1>i DEF Server, E!Tick, E!Flush, E!StepBack, config, Handlers
  <1> QED BY <1>0, <1>1, <1>2, <1>3, <1>4, <1>5, <1>6, <1>7, <1>9, <1>10, <1>11, <1>12,
             <1>13, <1>14, <1>15, <1>16 DEF Next, Step

-----------------------------------------------------------------------------
(* The invariant of the gateway is inductive. *)
LEMMA NextGInv == GInv /\ [Next]_vars => GInv'
  BY NextImplements, EnforcerNext, NextHandlers DEF GInv

(* It holds in every state: the handlers, the reservations in Redis and    *)
(* the spend events are in step, whatever the interleaving and the faults. *)
THEOREM GatewayInductive == Spec => []GInv
  BY InitGInv, NextGInv, PTL DEF Spec

(* The request handler implements the enforcer's specification: the        *)
(* buckets change only by checks for what Resolve and the estimate yield,  *)
(* by settlements, and by Redis itself.                                    *)
THEOREM HandlerImplementsEnforcer == Spec => Implements
  <1>1. Init => E!Init BY DEF Init
  <1>2. GInv /\ [Next]_vars => [E!Next]_(E!vars)
    <2>1. redis = E!vars BY DEF redis, E!vars
    <2>2. (redis' = redis) <=> (E!vars' = E!vars) BY DEF redis, E!vars
    <2> QED BY <2>2, NextImplements
  <1> QED BY <1>1, <1>2, GatewayInductive, PTL DEF Spec, Implements, E!Spec

(* What is proved of the enforcer therefore holds for the gateway: no      *)
(* bucket is overdrawn by admitted estimates, and what is taken from it is *)
(* bounded by its limit, the refill and the debits no check covered.       *)
THEOREM GatewayNeverOverdrawn == Spec => [](E!NoOverspend /\ E!SpendBound)
  <1>1. GInv => E!NoOverspend /\ E!SpendBound
    <2>1. P!IInv => P!SpendBound
      BY FitClient, BucketAssumption, P!IInvBound
      DEF Dim, Amount, BucketRef, Scope, P!Dim, P!Amount, P!BucketRef, P!Scope
    <2>2. E!IInv => E!NoOverspend BY DEF E!IInv
    <2> QED BY <2>1, <2>2, SameInv DEF GInv
  <1> QED BY <1>1, GatewayInductive, PTL

(* Type correctness of the gateway. *)
THEOREM GatewayTypeCorrect == Spec => []TypeOK
  <1>1. GInv => TypeOK
    <2>1. E!IInv => E!TypeOK BY DEF E!IInv
    <2> QED BY <2>1, SameInv DEF GInv, Handlers, TypeOK, Event
  <1> QED BY <1>1, GatewayInductive, PTL

(* A call goes upstream only under a reservation that is still held, in    *)
(* the buckets it was checked against, for exactly what the request as     *)
(* dispatched may use: an estimate that wrapped around is never admitted.  *)
THEOREM DispatchBacked == Spec => []BackedDispatch
  <1>1. GInv => BackedDispatch
    <2> SUFFICES ASSUME GInv, NEW r \in Req, h[r].pc = "upstream"
                 PROVE  /\ resv[r].st = "held"
                        /\ resv[r].refs = h[r].refs
                        /\ resv[r].est["tokens"] = h[r].body.in + OutTokens(h[r].body)
                        /\ resv[r].est["usd"] = CostUSD(h[r].body.model, h[r].body.in, 0,
                                                        OutTokens(h[r].body))
      BY DEF BackedDispatch
    <2>1. InStep(h[r], resv[r], ev[r]) BY DEF GInv, Handlers
    <2>2. /\ resv[r].st = "held" /\ resv[r].refs = h[r].refs
          /\ resv[r].est = Estimate(h[r].body) /\ Estimate(h[r].body)["tokens"] >= 0
          /\ h[r].body \in AllBodies
      BY <2>1 DEF InStep, Dim
    <2>3. h[r].body \in Fit BY <2>2, BodyFacts
    <2> QED BY <2>2, <2>3, EstimateFacts
  <1> QED BY <1>1, GatewayInductive, PTL

(* Advice changes at most one thing in a request, within the gateway's own *)
(* figures, and the spend event says so - whatever the LLM answers.        *)
THEOREM AdviceBounded == Spec => []AdvisedChange
  <1>1. GInv => AdvisedChange
    <2> SUFFICES ASSUME GInv, NEW r \in Req, h[r].body # h[r].asked
                 PROVE  /\ Changed(h[r].body, h[r].asked, h[r].dec)
                        /\ ev[r].label \in {"none", "advised_retry", "rejected"}
      BY DEF AdvisedChange, Changed
    <2>1. InStep(h[r], resv[r], ev[r]) /\ ev[r] \in Event BY DEF GInv, Handlers
    <2> QED BY <2>1 DEF InStep, Event
  <1> QED BY <1>1, GatewayInductive, PTL

(* Whatever the LLM says, what the policy engine is given is fit: the      *)
(* service's validation and guardrails (schemas.py, policy.py) hold for    *)
(* every answer, every price table and every request that was denied.      *)
THEOREM AdviceAlwaysFit == Spec => []AdviceFit
  <1>1. GInv => AdviceFit
    <2> SUFFICES ASSUME GInv PROVE AdviceFit OBVIOUS
    <2>1. ASSUME NEW r \in Req, h[r].pc = "advise", NEW advice \in Advices(h[r])
          PROVE  FitAdvice(advice, h[r].asked.model)
      <3>1. InStep(h[r], resv[r], ev[r]) BY DEF GInv, Handlers
      <3>2. h[r].body.model = h[r].asked.model BY <2>1, <3>1 DEF InStep
      <3>3. FitAdvice(advice, h[r].body.model) BY AdviceFacts
      <3> QED BY <3>2, <3>3
    <2> QED BY <2>1 DEF AdviceFit, FitAdvice
  <1> QED BY <1>1, GatewayInductive, PTL

(* Unless a pipeline of Reconcile can fail, an answered request holds      *)
(* nothing back; lost replies, replays, crashes, cancellations and losses  *)
(* of the data set cannot strand a reservation of a request that is done.  *)
THEOREM AnsweredHoldsNothing ==
  ASSUME "abandon" \notin Faults
  PROVE  Spec => []NothingStranded
  <1>1. GInv => NothingStranded
    BY DEF GInv, Handlers, InStep, NothingStranded
  <1> QED BY <1>1, GatewayInductive, PTL

(* An answer is final.  Once a request is answered its status, its spend   *)
(* event and what it accounts for in the buckets never change again:       *)
(* nothing that is still on its way in Redis, no pipeline sent again and   *)
(* no crash charges or refunds it a second time.                           *)
THEOREM AnswerFinal ==
  Spec => [][\A r \in Req : h[r].pc = "done" =>
               h'[r] = h[r] /\ ev'[r] = ev[r] /\ resv'[r] = resv[r]]_vars
  <1> DEFINE Same(r) == h'[r] = h[r] /\ ev'[r] = ev[r] /\ resv'[r] = resv[r]
  <1>1. ASSUME GInv, Next, NEW r \in Req, h[r].pc = "done" PROVE Same(r)
    <2> USE <1>1
    <2>t. h \in [Req -> Handler] /\ ev \in [Req -> Event] BY DEF GInv, Handlers
    <2>s. P!IInv BY DEF GInv
    <2>1. ASSUME NEW q \in Req, q # r, NEW hq, h' = [h EXCEPT ![q] = hq], ev' = ev,
                 resv'[r] = resv[r]
          PROVE  Same(r)
      BY <2>1, <2>t
    <2>3. ASSUME NEW q \in Req, Admit(q) PROVE Same(r)
      <3>1. q # r /\ ev' = ev /\ E!Reserve(q, h[q].refs, Estimate(h[q].body))
        BY <2>3 DEF Admit, Checking
      <3>2. \E hq : h' = [h EXCEPT ![q] = hq] BY <2>3 DEF Admit
      <3>3. resv'[r] = resv[r] BY <2>s, <3>1, ResvSteps
      <3> QED BY <2>1, <3>1, <3>2, <3>3
    <2>4. ASSUME NEW q \in Req,
                 (\E u \in Usages : Complete(q, u)) \/ ProviderError(q) \/ StreamBreaks(q)
          PROVE  Same(r)
      <3>1. PICK act, label, code : Reconcile(q, act, label, code) /\ ev' = ev
        BY <2>4 DEF Complete, ProviderError, StreamBreaks
      <3>2. q # r /\ E!Settle(q, act) BY <3>1 DEF Reconcile
      <3>3. \E hq : h' = [h EXCEPT ![q] = hq] BY <3>1 DEF Reconcile
      <3>4. resv'[r] = resv[r] BY <2>s, <3>2, ResvSteps
      <3> QED BY <2>1, <3>1, <3>2, <3>3, <3>4
    <2>5. ASSUME NEW q \in Req, Apply(q) \/ Applied(q) \/ Resend(q) \/ GiveUp(q) PROVE Same(r)
      <3>1. /\ q # r /\ h' = h /\ ev' = ev
            /\ E!Increment(q) \/ E!Settled(q) \/ E!Replay(q) \/ E!Abandon(q)
        BY <2>5 DEF Apply, Applied, Resend, GiveUp
      <3>2. resv'[r] = resv[r] BY <2>s, <3>1, ResvSteps
      <3> QED BY <3>1, <3>2
    <2>6. ASSUME NEW q \in Req, LoseReply(q) PROVE Same(r)
      BY <2>6 DEF LoseReply, E!LoseReply
    <2>7. ASSUME NEW q \in Req,
                 \/ Unauthorized(q) \/ Malformed(q)
                 \/ \E c \in Callers, b \in Bodies :
                      ArriveUnbudgeted(q, c, b) \/ Arrive(q, c, b)
                 \/ Deny(q) \/ CheckFails(q)
                 \/ \E advice \in Advices(h[q]) : Advise(q, advice)
                 \/ Finish(q) \/ Cancel(q) \/ Crash(q)
          PROVE  Same(r)
      <3>1. q # r /\ resv' = resv
        BY <2>7 DEF Unauthorized, Malformed, ArriveUnbudgeted, Arrive, Deny, CheckFails,
                    Checking, Advise, Finish, Cancel, Crash, redis
      <3>2. Reject(q) => h'[r] = h[r] /\ ev'[r] = ev[r]
        BY <2>t, <3>1 DEF Reject, Answer, Emit
      <3>3. CASE Deny(q) BY <2>t, <3>1, <3>2, <3>3 DEF Deny
      <3>4. CASE CheckFails(q) BY <2>t, <3>1, <3>2, <3>4 DEF CheckFails, Answer
      <3>5. ASSUME NEW advice, Advise(q, advice) PROVE Same(r)
        <4> DEFINE o == Decide(h[q].body.model, Estimate(h[q].body)["tokens"],
                               h[q].dec.remaining["tokens"], advice)
        <4>1. CASE o.action = "reject" BY <3>1, <3>2, <3>5, <4>1 DEF Advise
        <4>2. ASSUME NEW b, ev' = ev,
                     h' = [h EXCEPT ![q].pc = "retry", ![q].label = "advised_retry",
                                    ![q].body = b]
              PROVE  Same(r)
          BY <2>t, <3>1, <4>2
        <4>3. CASE o.action = "retry_with_model"
          <5> DEFINE b == [h[q].body EXCEPT !.model = o.model]
          <5>1. /\ h' = [h EXCEPT ![q].pc = "retry", ![q].label = "advised_retry",
                                  ![q].body = b]
                /\ ev' = ev
            BY <3>5, <4>3 DEF Advise
          <5> HIDE DEF b
          <5> QED BY <4>2, <5>1
        <4>4. CASE o.action = "partial_allowance"
          <5> DEFINE b == [h[q].body EXCEPT !.max = o.max]
          <5>1. /\ h' = [h EXCEPT ![q].pc = "retry", ![q].label = "advised_retry",
                                  ![q].body = b]
                /\ ev' = ev
            BY <3>5, <4>4 DEF Advise
          <5> HIDE DEF b
          <5> QED BY <4>2, <5>1
        <4> QED BY <3>5, <4>1, <4>3, <4>4 DEF Advise
      <3>6. CASE Finish(q) BY <2>t, <3>1, <3>6 DEF Finish, Answer, Emit
      <3>7. CASE Cancel(q) \/ Crash(q) BY <2>t, <3>1, <3>7 DEF Cancel, Crash
      <3>8. CASE Unauthorized(q) \/ Malformed(q)
        BY <2>t, <3>1, <3>8 DEF Unauthorized, Malformed, Answer
      <3>9. ASSUME NEW c, NEW b, ArriveUnbudgeted(q, c, b) PROVE Same(r)
        <4> DEFINE hq == [NewHandler(b) EXCEPT !.pc = "done", !.code = 403]
                   e == [label |-> "rejected", cost |-> NoAmount]
        <4>1. h' = [h EXCEPT ![q] = hq] /\ ev' = [ev EXCEPT ![q] = e]
          BY <3>9 DEF ArriveUnbudgeted, Answer, Emit
        <4> HIDE DEF hq, e
        <4> QED BY <2>t, <3>1, <4>1
      <3>10. ASSUME NEW c, NEW b, Arrive(q, c, b) PROVE Same(r)
        <4> DEFINE hq == [NewHandler(b) EXCEPT !.pc = "check", !.refs = Resolve(data, c)]
        <4>1. h' = [h EXCEPT ![q] = hq] /\ ev' = ev BY <3>10 DEF Arrive
        <4> HIDE DEF hq
        <4> QED BY <2>t, <3>1, <4>1
      <3> QED BY <2>7, <3>3, <3>4, <3>5, <3>6, <3>7, <3>8, <3>9, <3>10
    <2>8. CASE SaveBudget \/ Refresh \/ Server
      BY <2>8 DEF SaveBudget, Refresh, Server, redis, E!Tick, E!Flush, E!StepBack
    <2> QED BY <2>3, <2>4, <2>5, <2>6, <2>7, <2>8 DEF Next, Step
  <1>2. GInv /\ [Next]_vars =>
          [\A r \in Req : h[r].pc = "done" =>
             h'[r] = h[r] /\ ev'[r] = ev[r] /\ resv'[r] = resv[r]]_vars
    BY <1>1
  <1> QED BY <1>2, GatewayInductive, PTL DEF Spec

-----------------------------------------------------------------------------
(* The enforcer's ledger, for the requests of the gateway. *)
LEMMA EnforcerLedger ==
  ASSUME IsFiniteSet(Req)
  PROVE  /\ E!Init => P!Ledger
         /\ P!IInv /\ P!Ledger /\ [E!Next]_redis => P!Ledger'
  <1>f. P!IsFiniteSet(Req) BY DEF IsFiniteSet, P!IsFiniteSet
  <1>1. E!Init => P!Ledger
    <2>1. ASSUME P!Init, NEW k \in Key, NEW d \in P!Dim
          PROVE  spent[k][d] = 0 /\ P!Accounted(k, d) = 0
      BY <1>f, <2>1, FitClient, BucketAssumption, P!InitAccounted
      DEF Dim, Amount, BucketRef, Scope, P!Dim, P!Amount, P!BucketRef, P!Scope
    <2> QED BY <2>1, SameInit DEF P!Ledger
  <1>2. P!IInv /\ P!Ledger /\ [P!Next]_(P!vars) => P!Ledger'
    BY <1>f, FitClient, BucketAssumption, P!NextLedger
    DEF Dim, Amount, BucketRef, Scope, P!Dim, P!Amount, P!BucketRef, P!Scope
  <1>3. redis = P!vars /\ (redis' = redis <=> P!vars' = P!vars) BY DEF redis, P!vars
  <1> QED BY <1>1, <1>2, <1>3, SameNext

(* A reservation of a request that is not in progress accounts for what    *)
(* its spend event says.                                                   *)
LEMMA ChargedIsOutstanding ==
  ASSUME GInv, NEW r \in Req, h[r].pc \in {"new", "done"}, resv[r].st # "abandoned",
         NEW key \in Key, NEW d \in Dim
  PROVE  Charged(r, key, d) = P!Outstanding(resv[r], key, d)
  <1>1. P!ResvOK(resv[r]) /\ InStep(h[r], resv[r], ev[r])
    BY DEF GInv, Handlers, P!IInv, P!TodoOK
  <1>2. CASE resv[r].st = "free"
    <2>1. resv[r].refs = <<>> BY <1>1, <1>2 DEF P!ResvOK
    <2> QED BY <2>1 DEF Charged, P!Outstanding, P!Unexecuted, KeysOf, P!KeysOf
  <1>3. CASE resv[r].st = "settled" /\ h[r].pc = "done"
    <2>1. resv[r].todo = {} /\ ev[r].cost = resv[r].act
      BY <1>1, <1>3 DEF P!ResvOK, InStep
    <2> QED BY <1>3, <2>1
        DEF Charged, P!Outstanding, P!Unexecuted, KeysOf, P!KeysOf, RefOf, P!RefOf,
            Enforced, P!Enforced
  <1> QED BY <1>1, <1>2, <1>3 DEF InStep

(* When no request is in progress the buckets in Redis and the spend       *)
(* events agree, for every table, every usage and every interleaving.      *)
THEOREM BooksAgree ==
  ASSUME IsFiniteSet(Req)
  PROVE  Spec => []LedgersAgree
  <1>1. GInv /\ P!Ledger => LedgersAgree
    <2> SUFFICES ASSUME GInv, P!Ledger, faults = 0,
                        \A r \in Req : h[r].pc \in {"new", "done"} /\ resv[r].st # "abandoned",
                        NEW key \in Key, NEW d \in Dim, born[key] = 0
                 PROVE  spent[key][d] = SumFunction([r \in Req |-> Charged(r, key, d)])
      BY DEF LedgersAgree
    <2>1. spent[key][d] = P!Accounted(key, d) BY DEF P!Ledger, P!Dim, Dim
    <2>2. [r \in Req |-> Charged(r, key, d)] = [r \in Req |-> P!Outstanding(resv[r], key, d)]
      BY ChargedIsOutstanding
    <2>3. \A f : SumFunction(f) = P!SumFunction(f)
      BY DEF SumFunction, P!SumFunction, SumFunctionOnSet, P!SumFunctionOnSet,
             FoldFunctionOnSet, P!FoldFunctionOnSet, MapThenFoldSet, P!MapThenFoldSet
    <2> QED BY <2>1, <2>2, <2>3 DEF P!Accounted
  <1>2. Init => P!Ledger BY EnforcerLedger DEF Init
  <1>3. GInv /\ P!Ledger /\ [Next]_vars => P!Ledger'
    BY NextImplements, EnforcerLedger DEF GInv
  <1> QED BY <1>1, <1>2, <1>3, GatewayInductive, PTL DEF Spec

(* For the instance of the gateway, too, no step leaves a bucket charged   *)
(* for less than its requests account for, and so for what they have used  *)
(* but for what no increment has taken.                                    *)
LEMMA EnforcerCovered ==
  ASSUME IsFiniteSet(Req), "replay" \notin Faults, "flush" \notin Faults
  PROVE  /\ E!Init => P!Covered
         /\ P!IInv /\ P!Covered /\ [E!Next]_redis => P!Covered'
         /\ P!IInv /\ P!Covered => P!NeverUndercharged
  <1>f. P!IsFiniteSet(Req) BY DEF IsFiniteSet, P!IsFiniteSet
  <1>1. E!Init => P!Covered
    <2>1. ASSUME P!Init, NEW k \in Key, NEW d \in P!Dim
          PROVE  spent[k][d] = 0 /\ P!Accounted(k, d) = 0
      BY <1>f, <2>1, FitClient, BucketAssumption, P!InitAccounted
      DEF Dim, Amount, BucketRef, Scope, P!Dim, P!Amount, P!BucketRef, P!Scope
    <2> QED BY <2>1, SameInit DEF P!Covered
  <1>2. P!IInv /\ P!Covered /\ [P!Next]_(P!vars) => P!Covered'
    BY <1>f, FitClient, BucketAssumption, P!NextCovered
    DEF Dim, Amount, BucketRef, Scope, P!Dim, P!Amount, P!BucketRef, P!Scope
  <1>3. redis = P!vars /\ (redis' = redis <=> P!vars' = P!vars) BY DEF redis, P!vars
  <1>4. P!IInv /\ P!Covered => P!NeverUndercharged
    BY <1>f, FitClient, BucketAssumption, P!CoveredUsage
    DEF Dim, Amount, BucketRef, Scope, P!Dim, P!Amount, P!BucketRef, P!Scope
  <1> QED BY <1>1, <1>2, <1>3, <1>4, SameNext

(* Neither does one destroy budget, if the table is never edited. *)
LEMMA EnforcerDestroyed ==
  ASSUME IsFiniteSet(Req), "replay" \notin Faults, "flush" \notin Faults,
         \A s, t \in Tables : s = t
  PROVE  /\ E!Init => P!Present /\ P!NothingDestroyed
         /\ P!IInv /\ P!Covered /\ P!Present /\ P!NothingDestroyed
              /\ [E!Next]_redis => (P!Present /\ P!NothingDestroyed)'
  <1>f. P!IsFiniteSet(Req) BY DEF IsFiniteSet, P!IsFiniteSet
  <1>o. \A l, m \in AllRefLists : \A i \in DOMAIN l : \A j \in DOMAIN m :
          l[i].key = m[j].key => l[i].limit = m[j].limit
    BY OneLimit
  <1>1. E!Init => P!Present /\ P!NothingDestroyed
    BY SameInit, FitClient, BucketAssumption, P!InitDestroyed
    DEF Dim, Amount, BucketRef, Scope, P!Dim, P!Amount, P!BucketRef, P!Scope
  <1>2. P!IInv /\ P!Covered /\ P!Present /\ P!NothingDestroyed
          /\ [P!Next]_(P!vars) => P!Present' /\ P!NothingDestroyed'
    BY <1>f, <1>o, FitClient, BucketAssumption, P!NextDestroyed
    DEF Dim, Amount, BucketRef, Scope, P!Dim, P!Amount, P!BucketRef, P!Scope
  <1>3. redis = P!vars /\ (redis' = redis <=> P!vars' = P!vars) BY DEF redis, P!vars
  <1> QED BY <1>1, <1>2, <1>3, SameNext

(* The accounts of the two instances are the same. *)
LEMMA SameAccounts ==
  /\ E!NeverUndercharged <=> P!NeverUndercharged
  /\ E!NothingDestroyed <=> P!NothingDestroyed
  BY DEF E!NeverUndercharged, P!NeverUndercharged, E!NothingDestroyed, P!NothingDestroyed,
         E!Usage, P!Usage, E!Unbilled, P!Unbilled, E!Unexecuted, P!Unexecuted, E!KeysOf, P!KeysOf,
         E!RefOf, P!RefOf, E!Enforced, P!Enforced, E!CmdRef, P!CmdRef, E!CmdDim, P!CmdDim,
         E!Dim, P!Dim, E!SumFunction, P!SumFunction, E!SumFunctionOnSet,
         P!SumFunctionOnSet, E!FoldFunctionOnSet, P!FoldFunctionOnSet, E!MapThenFoldSet,
         P!MapThenFoldSet

(* Clients that leave, processes that die, lost replies and settlements    *)
(* that fail never give an estimate away: whatever the table is edited to, *)
(* a bucket is charged for all that its requests have used, save what      *)
(* exceeds the estimate of one whose settlement is not executed.           *)
THEOREM GatewayNoFreeCall ==
  ASSUME IsFiniteSet(Req), "replay" \notin Faults, "flush" \notin Faults
  PROVE  Spec => []E!NeverUndercharged
  <1>1. Init => P!Covered BY EnforcerCovered DEF Init
  <1>2. GInv /\ P!Covered /\ [Next]_vars => P!Covered'
    BY NextImplements, EnforcerCovered DEF GInv
  <1>3. GInv /\ P!Covered => P!NeverUndercharged BY EnforcerCovered DEF GInv
  <1> QED BY <1>1, <1>2, <1>3, SameAccounts, GatewayInductive, PTL DEF Spec

(* Nor do they destroy budget: as long as the table is not edited, balance *)
(* and spending of a bucket add up to its limit or more.                   *)
THEOREM GatewayConserves ==
  ASSUME IsFiniteSet(Req), "replay" \notin Faults, "flush" \notin Faults,
         \A s, t \in Tables : s = t
  PROVE  Spec => []E!NothingDestroyed
  <1>1. Init => P!Covered /\ P!Present /\ P!NothingDestroyed
    BY EnforcerCovered, EnforcerDestroyed DEF Init
  <1>2. GInv /\ P!Covered /\ P!Present /\ P!NothingDestroyed /\ [Next]_vars
          => P!Covered' /\ P!Present' /\ P!NothingDestroyed'
    BY NextImplements, EnforcerCovered, EnforcerDestroyed DEF GInv
  <1> QED BY <1>1, <1>2, SameAccounts, GatewayInductive, PTL DEF Spec

=============================================================================

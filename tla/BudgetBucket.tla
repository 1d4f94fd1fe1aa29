---------------------------- MODULE BudgetBucket ----------------------------
(***************************************************************************)
(* The arithmetic of a budget bucket: the three phases of                  *)
(* gateway/internal/budget/checkAndDecrement.lua and the delta computed by *)
(* Enforcer.Reconcile in bucket.go.  Everything here is a pure operator;   *)
(* Enforcer.tla owns the state the operators are applied to.               *)
(*                                                                         *)
(* Amounts are integers: one model unit stands for one token, or for one   *)
(* fraction of a dollar.  Whole() is the only place where the size of a    *)
(* unit matters, because Redis truncates the numbers a script returns.     *)
(***************************************************************************)
EXTENDS Integers, Sequences

CONSTANTS
  Key,      \* the Redis keys of the buckets
  Nil,      \* an absent hash field
  Unit      \* Unit[d]: model units in one whole token / one whole dollar

Dim == {"tokens", "usd"}
Scope == {"task", "agent", "tenant"}

ASSUME BucketAssumption ==
  /\ Nil \notin Int
  /\ Unit \in [Dim -> Nat \ {0}]

Amount == [Dim -> Int]
NoAmount == [d \in Dim |-> 0]

(* A BucketRef: a key, its scope and the limits cached for it. *)
BucketRef == [scope : Scope, key : Key, limit : [Dim -> Nat], rate : [Dim -> Nat]]

(* A limit of 0 means that the dimension is not enforced for this bucket.  *)
Enforced(ref, d) == ref.limit[d] > 0

KeysOf(refs) == {refs[i].key : i \in DOMAIN refs}

(* The reference to key k in refs; the keys of one list are distinct. *)
RefOf(refs, k) == refs[CHOOSE i \in DOMAIN refs : refs[i].key = k]

-----------------------------------------------------------------------------
(* Phase 1 of the script.  A missing balance reads as the limit, a missing *)
(* timestamp as "now"; a clock that went backwards counts as no time.      *)
Elapsed(ts, now) == IF ts = Nil THEN 0 ELSE IF now < ts THEN 0 ELSE now - ts

StoredOr(value, default) == IF value = Nil THEN default ELSE value

(* Mutants of Refilled: a fixed window that is full again as soon as time  *)
(* has passed, and a cap that is off by one.                               *)
RefilledByWindow(bal, ts, ref, now, d) ==
  IF Elapsed(ts, now) > 0 THEN ref.limit[d] ELSE StoredOr(bal[d], ref.limit[d])
RefilledBelowLimit(bal, ts, ref, now, d) ==
  LET topped == StoredOr(bal[d], ref.limit[d]) + Elapsed(ts, now) * ref.rate[d]
  IN  IF topped >= ref.limit[d] THEN ref.limit[d] - 1 ELSE topped

(* The balance of dimension d as of now: refilled for the elapsed time and *)
(* capped at the limit, but only where the dimension is enforced.          *)
Refilled(bal, ts, ref, now, d) ==
  LET stored == StoredOr(bal[d], ref.limit[d])
      topped == stored + Elapsed(ts, now) * ref.rate[d]
  IN  IF ~Enforced(ref, d) THEN stored
      ELSE IF topped > ref.limit[d] THEN ref.limit[d] ELSE topped

-----------------------------------------------------------------------------
(* Mutant of Lacks: a bucket with anything left covers any request. *)
LacksWhenEmpty(bal, ts, ref, now, want) ==
  \E d \in Dim : Enforced(ref, d) /\ Refilled(bal, ts, ref, now, d) <= 0

(* Phase 2.  The buckets whose refilled balance is too small, and the      *)
(* index reported for them: the most specific one, which comes first.      *)
Lacks(bal, ts, ref, now, want) ==
  \E d \in Dim : Enforced(ref, d) /\ Refilled(bal, ts, ref, now, d) < want[d]

Lacking(bal, ts, refs, now, want) ==
  {i \in DOMAIN refs : Lacks(bal[refs[i].key], ts[refs[i].key], refs[i], now, want)}

(* A number a script returns to its caller is truncated toward zero. *)
Whole(x, d) == IF x >= 0 THEN x \div Unit[d] ELSE -((-x) \div Unit[d])

(* The smallest balance left over the enforced buckets, 0 if none is. *)
MinRemaining(bal, ts, refs, now, want, d) ==
  LET left(i) == Refilled(bal[refs[i].key], ts[refs[i].key], refs[i], now, d) - want[d]
      I == {i \in DOMAIN refs : Enforced(refs[i], d)}
  IN  IF I = {} THEN 0 ELSE left(CHOOSE i \in I : \A j \in I : left(i) <= left(j))

(* The script's reply as the Go caller decodes it into a Decision.  An     *)
(* index of -1 stands for a request whose estimate is negative.            *)
Decision(bal, ts, refs, now, want) ==
  LET short == Lacking(bal, ts, refs, now, want)
      first == CHOOSE i \in short : \A j \in short : i <= j
  IN  CASE \E d \in Dim : want[d] < 0 ->
             [allowed |-> FALSE, index |-> -1, remaining |-> NoAmount]
        [] (\A d \in Dim : want[d] >= 0) /\ short # {} ->
             [allowed |-> FALSE, index |-> first,
              remaining |-> [d \in Dim |->
                 Whole(Refilled(bal[refs[first].key], ts[refs[first].key],
                                refs[first], now, d), d)]]
        [] OTHER ->
             [allowed |-> TRUE, index |-> 0,
              remaining |-> [d \in Dim |->
                 Whole(MinRemaining(bal, ts, refs, now, want, d), d)]]

(* Mutant of Sufficient: negative estimates are let through. *)
SufficientUnsigned(bal, ts, refs, now, want) == Lacking(bal, ts, refs, now, want) = {}

(* What makes the reply positive, without the numbers it carries. *)
Sufficient(bal, ts, refs, now, want) ==
  /\ \A d \in Dim : want[d] >= 0
  /\ Lacking(bal, ts, refs, now, want) = {}

-----------------------------------------------------------------------------
(* Phase 3.  Every bucket of the list is debited in every dimension, the   *)
(* ones that are not enforced too.                                         *)
Debited(bal, ts, refs, now, want) ==
  [k \in Key |->
     IF k \in KeysOf(refs)
       THEN [d \in Dim |-> Refilled(bal[k], ts[k], RefOf(refs, k), now, d) - want[d]]
       ELSE bal[k]]

(* Mutant of Stamped: a refill time, once set, is kept. *)
StampedOnce(ts, refs, now) ==
  [k \in Key |-> IF k \in KeysOf(refs) /\ ts[k] = Nil THEN now ELSE ts[k]]

Stamped(ts, refs, now) ==
  [k \in Key |-> IF k \in KeysOf(refs) THEN now ELSE ts[k]]

-----------------------------------------------------------------------------
(* Reconcile.  The pipeline holds up to two HINCRBYFLOAT per reference, in *)
(* the order of the references, tokens before dollars; command j belongs   *)
(* to reference (j+1) \div 2.                                              *)
CmdRef(refs, j) == refs[(j + 1) \div 2]
CmdDim(j) == IF j % 2 = 1 THEN "tokens" ELSE "usd"
(* Mutant of Delta: usage beyond the estimate is not charged. *)
DeltaRefundOnly(est, act) ==
  [d \in Dim |-> IF est[d] > act[d] THEN est[d] - act[d] ELSE 0]

Delta(est, act) == [d \in Dim |-> est[d] - act[d]]

(* Mutant of Commands: only the most specific bucket is settled. *)
CommandsOfFirst(refs, est, act) ==
  {j \in {1, 2} : Enforced(CmdRef(refs, j), CmdDim(j)) /\ Delta(est, act)[CmdDim(j)] # 0}

(* The commands that are put into the pipeline: none for a dimension that  *)
(* is not enforced, none for a delta of zero.                              *)
Commands(refs, est, act) ==
  {j \in 1 .. 2 * Len(refs) :
     Enforced(CmdRef(refs, j), CmdDim(j)) /\ Delta(est, act)[CmdDim(j)] # 0}

=============================================================================

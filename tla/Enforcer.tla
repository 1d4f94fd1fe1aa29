------------------------------ MODULE Enforcer ------------------------------
(***************************************************************************)
(* The budget enforcer: bucket hashes in Redis, the atomic script that     *)
(* reserves an estimate in every bucket of a request, and the pipeline of  *)
(* increments that settles a reservation against the actual usage          *)
(* (gateway/internal/budget/bucket.go, checkAndDecrement.lua).             *)
(*                                                                         *)
(* The clients here are the most general ones: any request may reserve any *)
(* estimate against any list of references and settle it for any actual    *)
(* usage.  Gateway.tla shows that the request handler is such a client.    *)
(* A denied check writes nothing, so it is a stuttering step of this       *)
(* module; Gateway.tla, where the reply matters, has it as an action.      *)
(*                                                                         *)
(* Redis is external.  It executes a script atomically and each command of *)
(* a plain pipeline separately; what can go wrong with it is in Faults:    *)
(*   "lost_reply"  a script ran but its reply never arrived; the client    *)
(*                 library sends it again or gives up                      *)
(*   "replay"      a pipeline's reply was lost and it is sent again        *)
(*   "abandon"     a pipeline fails with some of its commands not executed *)
(*   "flush"       the data set is lost (restart without persistence)      *)
(*   "clock_back"  the server clock steps back                             *)
(***************************************************************************)
EXTENDS BudgetBucket, Functions

CONSTANTS
  Req,        \* requests
  RefLists,   \* lists of references that a request may be checked against
  Wants,      \* estimates (Amounts; negative when the addition overflowed)
  Actuals,    \* actual usages
  TTL,        \* lifetime of a bucket key after a successful check
  Cap,        \* Cap[k][d]: the largest limit any list has for k
  Rate,       \* Rate[k][d]: the largest refill rate any list has for k
  Faults,     \* the faults that may happen
  MaxFaults,  \* how many of them in one behaviour ("abandon" is not counted)
  MaxUptime   \* bound on the clock

ASSUME EnforcerAssumption ==
  /\ RefLists \subseteq Seq(BucketRef)
  /\ \A refs \in RefLists : \A i, j \in DOMAIN refs : refs[i].key = refs[j].key => i = j
  /\ Wants \subseteq Amount
  /\ Actuals \subseteq [Dim -> Nat]
  /\ TTL \in Nat \ {0}
  /\ Cap \in [Key -> [Dim -> Nat]]
  /\ Rate \in [Key -> [Dim -> Nat]]
  /\ \A refs \in RefLists : \A i \in DOMAIN refs : \A d \in Dim :
       /\ refs[i].limit[d] <= Cap[refs[i].key][d]
       /\ refs[i].rate[d] <= Rate[refs[i].key][d]
  /\ MaxFaults \in Nat
  /\ MaxUptime \in Nat

VARIABLES
  bal,        \* bal[k][d]: fields tokens_remaining and usd_remaining of key k
  ts,         \* ts[k]: field last_refill_ts, Nil when absent
  now,        \* the Redis server clock
  resv,       \* resv[r]: the reservation of request r
  \* history, read by no action:
  uptime,     \* how far the clock has advanced, steps back not subtracted
  spent,      \* spent[k][d]: net debits of k since the key was last created
  unchecked,  \* unchecked[k][d]: the debits among them no check covered
  born,       \* born[k]: the uptime at which k was last lost
  faults      \* the number of counted faults so far

store == <<bal, ts>>
history == <<uptime, spent, unchecked, born>>
vars == <<bal, ts, now, resv, uptime, spent, unchecked, born, faults>>

ResvState == {"free", "held", "settling", "settled", "abandoned"}
Reservation ==
  [st : ResvState, refs : RefLists \cup {<<>>}, est : Wants \cup {NoAmount},
   act : Actuals \cup {NoAmount}, todo : SUBSET Nat]
NoReservation ==
  [st |-> "free", refs |-> <<>>, est |-> NoAmount, act |-> NoAmount, todo |-> {}]

Init ==
  /\ bal = [k \in Key |-> [d \in Dim |-> Nil]]
  /\ ts = [k \in Key |-> Nil]
  /\ now = 0
  /\ resv = [r \in Req |-> NoReservation]
  /\ uptime = 0
  /\ spent = [k \in Key |-> NoAmount]
  /\ unchecked = [k \in Key |-> NoAmount]
  /\ born = [k \in Key |-> 0]
  /\ faults = 0

-----------------------------------------------------------------------------
(* The writes of a successful run of the script. *)
Debit(refs, want) ==
  /\ Sufficient(bal, ts, refs, now, want)
  /\ bal' = Debited(bal, ts, refs, now, want)
  /\ ts' = Stamped(ts, refs, now)
  /\ spent' = [k \in Key |-> [d \in Dim |->
       spent[k][d] + (IF k \in KeysOf(refs) THEN want[d] ELSE 0)]]
  /\ unchecked' = [k \in Key |-> [d \in Dim |->
       unchecked[k][d] +
         (IF k \in KeysOf(refs) /\ ~Enforced(RefOf(refs, k), d) THEN want[d] ELSE 0)]]

(* CheckAndDecrement admits request r. *)
Reserve(r, refs, want) ==
  /\ resv[r].st = "free"
  /\ resv' = [resv EXCEPT ![r] = [st |-> "held", refs |-> refs, est |-> want,
                                  act |-> NoAmount, todo |-> {}]]
  /\ Debit(refs, want)
  /\ UNCHANGED <<now, uptime, born, faults>>

(* Reconcile is called with the actual usage: it fills the pipeline, and   *)
(* returns at once if there is nothing to adjust.                          *)
Settle(r, act) ==
  /\ resv[r].st = "held"
  /\ LET cmds == Commands(resv[r].refs, resv[r].est, act)
     IN  resv' = [resv EXCEPT ![r].st = IF cmds = {} THEN "settled" ELSE "settling",
                              ![r].act = act,
                              ![r].todo = cmds]
  /\ UNCHANGED <<bal, ts, now, uptime, spent, unchecked, born, faults>>

(* Redis executes the next HINCRBYFLOAT of r's pipeline.  An absent field  *)
(* counts as 0; neither the timestamp nor the lifetime of the key changes. *)
Increment(r) ==
  /\ resv[r].st = "settling"
  /\ \E j \in resv[r].todo :
       /\ \A i \in resv[r].todo : j <= i
       /\ LET k == CmdRef(resv[r].refs, j).key
              d == CmdDim(j)
              delta == Delta(resv[r].est, resv[r].act)[d]
          IN  /\ bal' = [bal EXCEPT ![k][d] = StoredOr(@, 0) + delta]
              /\ spent' = [spent EXCEPT ![k][d] = @ - delta]
              /\ unchecked' = [unchecked EXCEPT ![k][d] =
                                 @ + (IF delta < 0 THEN -delta ELSE 0)]
       /\ resv' = [resv EXCEPT ![r].todo = @ \ {j}]
  /\ UNCHANGED <<ts, now, uptime, born, faults>>

(* The replies of the whole pipeline have arrived. *)
Settled(r) ==
  /\ resv[r].st = "settling" /\ resv[r].todo = {}
  /\ resv' = [resv EXCEPT ![r].st = "settled"]
  /\ UNCHANGED <<bal, ts, now, uptime, spent, unchecked, born, faults>>

-----------------------------------------------------------------------------
(* The keys in K disappear.  The accounts of a key start afresh with it.   *)
Forget(K, up) ==
  /\ bal' = [k \in Key |-> IF k \in K THEN [d \in Dim |-> Nil] ELSE bal[k]]
  /\ ts' = [k \in Key |-> IF k \in K THEN Nil ELSE ts[k]]
  /\ spent' = [k \in Key |-> IF k \in K THEN NoAmount ELSE spent[k]]
  /\ unchecked' = [k \in Key |-> IF k \in K THEN NoAmount ELSE unchecked[k]]
  /\ born' = [k \in Key |-> IF k \in K THEN up ELSE born[k]]

(* Time passes; the keys whose EXPIRE has run out are gone.  Only a check  *)
(* sets a lifetime, and it sets last_refill_ts to the same instant.        *)
Tick ==
  /\ uptime < MaxUptime
  /\ now' = now + 1
  /\ uptime' = uptime + 1
  /\ Forget({k \in Key : ts[k] # Nil /\ now + 1 >= StoredOr(ts[k], 0) + TTL}, uptime + 1)
  /\ UNCHANGED <<resv, faults>>

(* One more fault of kind f. *)
Fault(f) == f \in Faults /\ faults < MaxFaults /\ faults' = faults + 1

(* The script ran for r, but the caller never learns of it. *)
LoseReply(r, refs, want) ==
  /\ Fault("lost_reply")
  /\ resv[r].st = "free"
  /\ Debit(refs, want)
  /\ UNCHANGED <<now, resv, uptime, born>>

(* The pipeline's replies are lost and the client sends it again. *)
Replay(r) ==
  /\ Fault("replay")
  /\ resv[r].st = "settling"
  /\ resv' = [resv EXCEPT ![r].todo = Commands(resv[r].refs, resv[r].est, resv[r].act)]
  /\ UNCHANGED <<bal, ts, now, uptime, spent, unchecked, born>>

(* The pipeline fails; what is left of it is never executed.  Reconcile    *)
(* returns the error, its callers log it and carry on.                     *)
Abandon(r) ==
  /\ "abandon" \in Faults
  /\ resv[r].st = "settling" /\ resv[r].todo # {}
  /\ resv' = [resv EXCEPT ![r].st = "abandoned"]
  /\ UNCHANGED <<bal, ts, now, uptime, spent, unchecked, born, faults>>

Flush ==
  /\ Fault("flush")
  /\ Forget(Key, uptime)
  /\ UNCHANGED <<now, resv, uptime>>

StepBack ==
  /\ Fault("clock_back")
  /\ now > 0
  /\ now' = now - 1
  /\ UNCHANGED <<bal, ts, resv, uptime, spent, unchecked, born>>

Next ==
  \/ \E r \in Req, refs \in RefLists, want \in Wants : Reserve(r, refs, want)
  \/ \E r \in Req, act \in Actuals : Settle(r, act)
  \/ \E r \in Req : Increment(r) \/ Settled(r) \/ Replay(r) \/ Abandon(r)
  \/ \E r \in Req, refs \in RefLists, want \in Wants : LoseReply(r, refs, want)
  \/ Tick
  \/ Flush
  \/ StepBack

Spec == Init /\ [][Next]_vars

-----------------------------------------------------------------------------
TypeOK ==
  /\ bal \in [Key -> [Dim -> Int \cup {Nil}]]
  /\ ts \in [Key -> Nat \cup {Nil}]
  /\ now \in Nat
  /\ resv \in [Req -> Reservation]
  /\ uptime \in Nat
  /\ spent \in [Key -> Amount]
  /\ unchecked \in [Key -> [Dim -> Nat]]
  /\ born \in [Key -> Nat]
  /\ faults \in Nat

(* No bucket is overdrawn by admitted estimates: a balance is below zero   *)
(* only by debits that no check covered, i.e. the part of an actual usage  *)
(* that exceeded its estimate (Reconcile) and estimates taken while the    *)
(* dimension was not enforced (phase 3 of the script).                     *)
NoOverspend ==
  \A k \in Key, d \in Dim : bal[k][d] # Nil => bal[k][d] >= -unchecked[k][d]

(* The guarantee a budget gives: what has been taken from a bucket since   *)
(* it was created never exceeds its limit, plus what the refill rate gives *)
(* for the time that has passed, plus the debits no check covered -        *)
(* whatever the interleaving of checks, settlements, lost replies, clock   *)
(* steps and configuration changes.                                        *)
SpendBound ==
  \A k \in Key, d \in Dim :
    spent[k][d] <= Cap[k][d] + Rate[k][d] * (uptime - born[k]) + unchecked[k][d]

(* The parts of the inductive invariant.  A balance never exceeds what the *)
(* limit and the clock justify, after what was taken and counting what the *)
(* next check will add for the time since last_refill_ts.                  *)
Backed ==
  \A k \in Key, d \in Dim : bal[k][d] # Nil =>
    bal[k][d] + spent[k][d] + Rate[k][d] * Elapsed(ts[k], now)
      <= Cap[k][d] + Rate[k][d] * (uptime - born[k])

(* A field that does not exist has nothing on its account, and a key with  *)
(* a refill time has both balances.                                        *)
Untouched ==
  /\ \A k \in Key, d \in Dim : bal[k][d] = Nil => spent[k][d] = 0 /\ unchecked[k][d] = 0
  /\ \A k \in Key : ts[k] # Nil => \A d \in Dim : bal[k][d] # Nil

(* A reservation that can come up: only an admitted request has one, for   *)
(* an estimate that is not negative, and what is left to execute is part   *)
(* of the pipeline that Reconcile fills for it.                            *)
ResvOK(v) ==
  /\ v.st = "free" => v.refs = <<>> /\ v.est = NoAmount
  /\ v.st # "free" => v.refs \in RefLists /\ \A d \in Dim : v.est[d] >= 0
  /\ v.st \in {"free", "held", "settled"} => v.todo = {}
  /\ v.todo \subseteq Commands(v.refs, v.est, v.act)

TodoOK == \A r \in Req : ResvOK(resv[r])

(* The inductive invariant of the enforcer: together these parts imply     *)
(* NoOverspend and SpendBound in every state, faults included.             *)
IInv ==
  /\ TypeOK
  /\ TodoOK
  /\ NoOverspend
  /\ Backed
  /\ Untouched
  /\ \A k \in Key : born[k] <= uptime

-----------------------------------------------------------------------------
(* What a reservation v accounts for in bucket k: the actual usage once    *)
(* the increment for it has been executed, the estimate until then.        *)
Unexecuted(v, k, d) == \E j \in v.todo : CmdRef(v.refs, j).key = k /\ CmdDim(j) = d
Outstanding(v, k, d) ==
  IF k \notin KeysOf(v.refs) THEN 0
  ELSE IF v.st = "held" \/ Unexecuted(v, k, d) \/ ~Enforced(RefOf(v.refs, k), d)
       THEN v.est[d] ELSE v.act[d]

Accounted(k, d) == SumFunction([r \in Req |-> Outstanding(resv[r], k, d)])

(* What v has used of bucket k: the actual usage from the moment Reconcile *)
(* is told of it, whatever becomes of the increment, the estimate before.  *)
(* Reconcile leaves a dimension that is not enforced as it is.             *)
Usage(v, k, d) ==
  IF k \notin KeysOf(v.refs) THEN 0
  ELSE IF v.st = "held" \/ ~Enforced(RefOf(v.refs, k), d) THEN v.est[d] ELSE v.act[d]

(* The part of it that no increment has taken yet, or that none will take  *)
(* if the pipeline has failed: what exceeds the estimate.                  *)
Unbilled(v, k, d) ==
  IF Unexecuted(v, k, d) /\ v.act[d] > v.est[d] THEN v.act[d] - v.est[d] ELSE 0

(* The three properties below are about the first life of a bucket: the    *)
(* accounts start afresh when its key is lost, while the requests that     *)
(* were charged to it may still be in progress.                            *)

(* Every unit missing from a bucket is accounted for by exactly one        *)
(* request, in every scope it was checked against, also while pipelines of *)
(* several requests are half executed or have failed half-way: nothing     *)
(* leaks and nothing is refunded twice (CheckAndDecrement and Reconcile,   *)
(* as long as no reply is lost and no data).                               *)
Ledger ==
  faults = 0 =>
    \A k \in Key, d \in Dim : born[k] = 0 => spent[k][d] = Accounted(k, d)

(* Lost replies and pipelines that are half executed or have failed charge *)
(* a bucket for all that its requests have used, except for what exceeds   *)
(* the estimate of a request whose increment is not executed: a failure of *)
(* Redis or of the connection costs that much at most, and never gives     *)
(* back an estimate (CheckAndDecrement, Reconcile: bucket.go:160-241).     *)
NeverUndercharged ==
  \A k \in Key, d \in Dim : born[k] = 0 =>
    spent[k][d] + SumFunction([r \in Req |-> Unbilled(resv[r], k, d)])
      >= SumFunction([r \in Req |-> Usage(resv[r], k, d)])

(* Budget is only lost to spending: with one unchanged configuration the   *)
(* balance and what was taken always add up to the limit or more, so       *)
(* requests that turn out to be free give everything back.                 *)
NothingDestroyed ==
  \A refs \in RefLists : \A i \in DOMAIN refs : \A d \in Dim :
    LET k == refs[i].key
    IN  born[k] = 0 /\ bal[k][d] # Nil => bal[k][d] + spent[k][d] >= refs[i].limit[d]

=============================================================================

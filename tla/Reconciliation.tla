--------------------------- MODULE Reconciliation ---------------------------
(***************************************************************************)
(* The reconciliation job (reconciliation/job.py, scheduler.py): once at   *)
(* the start of its container and once a day it compares what the gateway  *)
(* recorded for the previous day, per tenant, with what the provider       *)
(* reports, and stores the run and an incident per tenant that drifted.    *)
(* The statements it executes are not in a transaction, so the run row and *)
(* every incident become visible, and can fail, one by one.                *)
(*                                                                         *)
(* External: Observed and Reported stand for the spend_events table and    *)
(* the provider's cost API.  Faults: "lookup" (the provider's API fails),  *)
(* "insert" (an INSERT fails), "outage" (a query fails, or the INSERT that *)
(* would record a failure), "crash" (the container dies and restarts).     *)
(***************************************************************************)
EXTENDS Integers, Sequences, FiniteSets

CONSTANTS
  Tenant,
  Observed,    \* Observed[w]: tenant -> dollars, for the tenants with events
  Reported,    \* Reported[w]: tenant -> dollars
  Threshold,   \* drift threshold in percent
  MaxDay,      \* bound: days the job is followed for
  Faults,
  MaxFaults    \* bound on the number of faults

Window == 0 .. MaxDay

ASSUME JobAssumption ==
  /\ Threshold \in 0 .. 99
  /\ MaxDay \in Nat
  /\ MaxFaults \in Nat
  /\ \A w \in Window : /\ DOMAIN Observed[w] \subseteq Tenant
                       /\ \A t \in DOMAIN Observed[w] : Observed[w][t] \in Nat
                       /\ Reported[w] \in [Tenant -> Nat]

VARIABLES
  day,         \* today; the window of a run is the day before
  fired,       \* today's trigger, at 01:00, has fired or was missed
  pc,          \* "start", "sleep", "fetch", "lookup", "run_row", "drift", "failed"
  window,      \* the window of the run under way
  left,        \* tenants of the current loop that are still to be done
  results,     \* tenants found to exceed the threshold
  runs,        \* table reconciliation_runs
  drift,       \* table reconciliation_drift, as <<run, tenant>>
  faults       \* the faults so far (history)

vars == <<day, fired, pc, window, left, results, runs, drift, faults>>

Init ==
  /\ day = 1 /\ fired \in BOOLEAN
  /\ pc = "start"
  /\ window = 0 /\ left = {} /\ results = {}
  /\ runs = <<>> /\ drift = {}
  /\ faults = <<>>

(* detect_drift: a provider that reports nothing counts as 100% drift. *)
Abs(x) == IF x < 0 THEN -x ELSE x
Exceeds(observed, reported) ==
  IF reported = 0 THEN observed # 0
  ELSE 100 * Abs(observed - reported) > Threshold * reported

Drifted(w) == {t \in DOMAIN Observed[w] : Exceeds(Observed[w][t], Reported[w][t])}

-----------------------------------------------------------------------------
(* Mutant of RunOnce: the window is the day that has only begun. *)
RunOnceToday ==
  /\ \/ pc = "start" /\ UNCHANGED fired
     \/ pc = "sleep" /\ ~fired /\ fired' = TRUE
  /\ pc' = "fetch"
  /\ window' = day
  /\ UNCHANGED <<day, left, results, runs, drift, faults>>

(* run_once, at the start and from the cron trigger, takes the previous    *)
(* day as its window.                                                      *)
RunOnce ==
  /\ \/ pc = "start" /\ UNCHANGED fired
     \/ pc = "sleep" /\ ~fired /\ fired' = TRUE
  /\ pc' = "fetch"
  /\ window' = day - 1
  /\ UNCHANGED <<day, left, results, runs, drift, faults>>

(* Mutant of Fetch: the results of the run before are kept. *)
FetchStale ==
  /\ pc = "fetch"
  /\ left' = DOMAIN Observed[window]
  /\ pc' = "lookup"
  /\ UNCHANGED <<day, fired, window, results, runs, drift, faults>>

(* fetch_gateway_observed *)
Fetch ==
  /\ pc = "fetch"
  /\ left' = DOMAIN Observed[window]
  /\ results' = {}
  /\ pc' = "lookup"
  /\ UNCHANGED <<day, fired, window, runs, drift, faults>>

(* reconcile_window: one tenant after the other. *)
Lookup ==
  /\ pc = "lookup"
  /\ \/ \E t \in left :
          /\ left' = left \ {t}
          /\ results' = IF Exceeds(Observed[window][t], Reported[window][t])
                          THEN results \cup {t} ELSE results
          /\ UNCHANGED pc
     \/ /\ left = {}
        /\ pc' = "run_row"
        /\ UNCHANGED <<left, results>>
  /\ UNCHANGED <<day, fired, window, runs, drift, faults>>

(* persist_result: the row of the run, then a row per drifted tenant. *)
RunRow(completed, detected) ==
  [window |-> window, completed |-> completed, drift_detected |-> detected]

PersistRun ==
  /\ pc = "run_row"
  /\ runs' = Append(runs, RunRow(TRUE, results # {}))
  /\ left' = results
  /\ pc' = "drift"
  /\ UNCHANGED <<day, fired, window, results, drift, faults>>

(* Mutant of PersistDrift: the loop ends after its first row. *)
PersistDriftOne ==
  /\ pc = "drift"
  /\ pc' = "sleep"
  /\ \/ \E t \in left : drift' = drift \cup {<<Len(runs), t>>}
     \/ left = {} /\ UNCHANGED drift
  /\ UNCHANGED <<day, fired, window, left, results, runs, faults>>

PersistDrift ==
  /\ pc = "drift"
  /\ \/ \E t \in left :
          /\ left' = left \ {t}
          /\ drift' = drift \cup {<<Len(runs), t>>}
          /\ UNCHANGED pc
     \/ /\ left = {}
        /\ pc' = "sleep"
        /\ UNCHANGED <<left, drift>>
  /\ UNCHANGED <<day, fired, window, results, runs, faults>>

-----------------------------------------------------------------------------
Fault(f) == f \in Faults /\ Len(faults) < MaxFaults /\ faults' = Append(faults, f)

(* An exception in run_from_db; its handler inserts a row for the failed   *)
(* run, and the scheduler waits for its next trigger.                      *)
Fail ==
  /\ \/ pc = "fetch" /\ Fault("outage")
     \/ pc = "lookup" /\ left # {} /\ Fault("lookup")
     \/ pc = "run_row" /\ Fault("insert")
     \/ pc = "drift" /\ left # {} /\ Fault("insert")
  /\ pc' = "failed"
  /\ UNCHANGED <<day, fired, window, left, results, runs, drift>>

(* Mutant of RecordFailure: the handler only logs the failure. *)
RecordFailureInLog ==
  /\ pc = "failed"
  /\ pc' = "sleep"
  /\ left' = {}
  /\ UNCHANGED <<day, fired, window, results, runs, drift, faults>>

RecordFailure ==
  /\ pc = "failed"
  /\ runs' = Append(runs, RunRow(FALSE, FALSE))
  /\ pc' = "sleep"
  /\ left' = {}
  /\ UNCHANGED <<day, fired, window, results, drift, faults>>

(* Postgres cannot be reached at all: run_from_db fails before its handler *)
(* is in place.                                                            *)
ConnectFails ==
  /\ pc = "fetch" /\ Fault("outage")
  /\ pc' = "sleep"
  /\ UNCHANGED <<day, fired, window, left, results, runs, drift>>

(* The handler's own INSERT fails too. *)
FailureUnrecorded ==
  /\ pc = "failed" /\ Fault("outage")
  /\ pc' = "sleep"
  /\ left' = {}
  /\ UNCHANGED <<day, fired, window, results, runs, drift>>

(* The container dies, and is started again before or after 01:00. *)
Crash ==
  /\ Fault("crash")
  /\ pc' = "start"
  /\ fired' \in {fired, TRUE}
  /\ left' = {} /\ results' = {}
  /\ UNCHANGED <<day, window, runs, drift>>

(* Midnight; runs are far shorter than a day. *)
NewDay ==
  /\ day <= MaxDay
  /\ pc = "sleep" /\ fired
  /\ day' = day + 1
  /\ fired' = FALSE
  /\ UNCHANGED <<pc, window, left, results, runs, drift, faults>>

Job ==
  \/ RunOnce \/ Fetch \/ Lookup \/ PersistRun \/ PersistDrift
  \/ Fail \/ ConnectFails \/ RecordFailure \/ FailureUnrecorded

Next == Job \/ Crash \/ NewDay

Spec == Init /\ [][Next]_vars

(* The scheduler fires, statements and requests return, days pass. *)
FairSpec == Spec /\ WF_vars(Job) /\ WF_vars(NewDay)

-----------------------------------------------------------------------------
TypeOK ==
  /\ day \in 1 .. MaxDay + 1
  /\ fired \in BOOLEAN
  /\ pc \in {"start", "sleep", "fetch", "lookup", "run_row", "drift", "failed"}
  /\ window \in Window
  /\ left \in SUBSET Tenant /\ results \in SUBSET Tenant
  /\ runs \in Seq([window : Window, completed : BOOLEAN, drift_detected : BOOLEAN])
  /\ drift \in SUBSET ((1 .. Len(runs)) \X Tenant)
  /\ faults \in Seq(Faults)

Incidents(i) == {t \in Tenant : <<i, t>> \in drift}

(* An incident is never wrong: it belongs to a run that completed and      *)
(* found drift, and its tenant really exceeded the threshold in the window *)
(* of that run - also when another run failed or was cut off half-way.     *)
IncidentsTruthful ==
  \A i \in 1 .. Len(runs) :
    /\ Incidents(i) \subseteq Drifted(runs[i].window)
    /\ Incidents(i) # {} => runs[i].completed /\ runs[i].drift_detected

(* A run that ended with no fault has an incident for every tenant that    *)
(* drifted; only the row of the run under way may be ahead of them.        *)
IncidentsComplete ==
  faults = <<>> =>
    \A i \in 1 .. Len(runs) :
      \/ pc = "drift" /\ i = Len(runs)
      \/ Incidents(i) = Drifted(runs[i].window)

(* Every day is looked at: the window before today eventually has a row,   *)
(* completed or failed, although providers or single statements fail and   *)
(* the container dies at any point; only an outage of Postgres can keep it *)
(* from having one.                                                        *)
EveryDayReconciled ==
  \A w \in Window :
    day = w + 1 ~> \/ \E i \in 1 .. Len(runs) : runs[i].window = w
                   \/ \E i \in 1 .. Len(faults) : faults[i] = "outage"

=============================================================================

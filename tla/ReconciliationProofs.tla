------------------------ MODULE ReconciliationProofs ------------------------
(***************************************************************************)
(* What is proved of the reconciliation job for every set of tenants, all  *)
(* costs, every threshold, any number of days and any sequence of faults:  *)
(* no incident is wrong, and none is missing where nothing failed.         *)
(***************************************************************************)
EXTENDS Reconciliation, TLAPS

(* Where the run under way is.  The results are those tenants which have   *)
(* been looked up and drifted; behind the row of the run, the incidents of *)
(* the run are those results which are no longer to be stored.             *)
UnderWay ==
  /\ pc = "lookup" => left \subseteq DOMAIN Observed[window] /\ results = Drifted(window) \ left
  /\ pc \in {"run_row", "drift"} => results = Drifted(window)
  /\ pc = "drift" => /\ Len(runs) > 0
                     /\ runs[Len(runs)].window = window /\ runs[Len(runs)].completed
                     /\ results # {} => runs[Len(runs)].drift_detected
                     /\ left \subseteq results
                     /\ Incidents(Len(runs)) = results \ left
  /\ pc = "failed" => faults # <<>>

RInv == TypeOK /\ UnderWay /\ IncidentsTruthful /\ IncidentsComplete

-----------------------------------------------------------------------------
(* What detect_drift is asked: only tenants with events can drift. *)
LEMMA DriftedFacts ==
  ASSUME NEW d \in Window
  PROVE  /\ DOMAIN Observed[d] \subseteq Tenant
         /\ Drifted(d) \subseteq DOMAIN Observed[d]
         /\ \A t \in DOMAIN Observed[d] :
              t \in Drifted(d) <=> Exceeds(Observed[d][t], Reported[d][t])
  BY JobAssumption DEF Drifted

(* A fault is remembered. *)
LEMMA FaultFacts ==
  ASSUME TypeOK, NEW f, Fault(f)
  PROVE  faults' \in Seq(Faults) /\ faults' # <<>>
  <1>1. faults \in Seq(Faults) /\ f \in Faults /\ faults' = Append(faults, f) BY DEF TypeOK, Fault
  <1>2. Append(faults, f) \in Seq(Faults) /\ Append(faults, f) # <<>> BY <1>1
  <1> QED BY <1>1, <1>2

(* What the row of a run says. *)
LEMMA RunRowFacts ==
  ASSUME NEW c \in BOOLEAN, NEW d \in BOOLEAN, window \in Window
  PROVE  /\ RunRow(c, d) \in [window : Window, completed : BOOLEAN, drift_detected : BOOLEAN]
         /\ RunRow(c, d).window = window
         /\ RunRow(c, d).completed = c /\ RunRow(c, d).drift_detected = d
  BY DEF RunRow

(* The row of a run is added with no incident yet, and none of the runs    *)
(* before changes.                                                         *)
LEMMA RowFacts ==
  ASSUME TypeOK, NEW row \in [window : Window, completed : BOOLEAN, drift_detected : BOOLEAN],
         runs' = Append(runs, row), drift' = drift
  PROVE  /\ runs' \in Seq([window : Window, completed : BOOLEAN, drift_detected : BOOLEAN])
         /\ Len(runs') = Len(runs) + 1 /\ Len(runs) \in Nat
         /\ runs'[Len(runs')] = row
         /\ \A i \in 1 .. Len(runs) : runs'[i] = runs[i] /\ Incidents(i)' = Incidents(i)
         /\ Incidents(Len(runs))' = {}
         /\ drift' \in SUBSET ((1 .. Len(runs')) \X Tenant)
         /\ 1 .. Len(runs') = (1 .. Len(runs)) \cup {Len(runs')}
  <1> DEFINE R == [window : Window, completed : BOOLEAN, drift_detected : BOOLEAN]
  <1>1. runs \in Seq(R) /\ drift \in SUBSET ((1 .. Len(runs)) \X Tenant) BY DEF TypeOK
  <1> HIDE DEF R
  <1>2. row \in R BY DEF R
  <1>3. /\ runs' \in Seq(R) /\ Len(runs') = Len(runs) + 1 /\ Len(runs) \in Nat
        /\ runs'[Len(runs) + 1] = row
        /\ \A i \in 1 .. Len(runs) : runs'[i] = runs[i]
    BY <1>1, <1>2
  <1>4. 1 .. Len(runs') = (1 .. Len(runs)) \cup {Len(runs')} /\ Len(runs') \notin 1 .. Len(runs)
    BY <1>3
  <1>5. drift' \in SUBSET ((1 .. Len(runs')) \X Tenant) BY <1>1, <1>4
  <1>6. \A i : Incidents(i)' = Incidents(i) BY DEF Incidents
  <1>7. Incidents(Len(runs')) = {} BY <1>1, <1>4 DEF Incidents
  <1>8. Incidents(Len(runs))' = {} BY <1>7, <1>6 DEF Incidents
  <1> QED BY <1>3, <1>4, <1>5, <1>6, <1>8 DEF R

(* Before its first run the job has stored nothing. *)
LEMMA InitRInv ==
  ASSUME Init
  PROVE  RInv
  <1>1. Len(<<>>) = 0 /\ 1 .. 0 = {} OBVIOUS
  <1>2. day \in 1 .. MaxDay + 1 /\ window \in Window BY JobAssumption DEF Init, Window
  <1>3. TypeOK BY <1>2 DEF Init, TypeOK
  <1>4. UnderWay BY DEF Init, UnderWay
  <1>5. IncidentsTruthful /\ IncidentsComplete
    BY <1>1 DEF Init, IncidentsTruthful, IncidentsComplete
  <1> QED BY <1>3, <1>4, <1>5 DEF RInv

(* A step that changes no table keeps what is said of them, if it does not *)
(* forget a fault or declare the run under way to be done.                 *)
LEMMA TablesStay ==
  ASSUME RInv, UNCHANGED <<runs, drift>>, faults' = <<>> => faults = <<>>,
         faults' = <<>> /\ pc = "drift" => pc' = "drift"
  PROVE  IncidentsTruthful' /\ IncidentsComplete'
  <1>1. \A i : Incidents(i)' = Incidents(i) BY DEF Incidents
  <1>2. \A d : Drifted(d)' = Drifted(d) BY DEF Drifted
  <1>3. IncidentsTruthful' BY <1>1, <1>2 DEF RInv, IncidentsTruthful
  <1>4. IncidentsComplete' BY <1>1, <1>2 DEF RInv, IncidentsComplete
  <1> QED BY <1>3, <1>4

(* A run up to its row. *)
LEMMA RunKeepsRInv ==
  ASSUME RInv, RunOnce \/ Fetch \/ Lookup
  PROVE  RInv'
  <1>t. TypeOK /\ UnderWay BY DEF RInv
  <1>w. window \in Window /\ left \subseteq Tenant /\ results \subseteq Tenant BY <1>t DEF TypeOK
  <1>d. /\ DOMAIN Observed[window] \subseteq Tenant
        /\ Drifted(window) \subseteq DOMAIN Observed[window]
    BY <1>w, DriftedFacts
  <1>s. UNCHANGED <<day, runs, drift, faults>> BY DEF RunOnce, Fetch, Lookup
  <1>i. IncidentsTruthful' /\ IncidentsComplete'
    <2>1. pc # "drift" BY DEF RunOnce, Fetch, Lookup
    <2> QED BY <1>s, <2>1, TablesStay
  <1>1. CASE RunOnce
    <2>1. day \in 1 .. MaxDay + 1 /\ MaxDay \in Nat BY <1>t, JobAssumption DEF TypeOK
    <2>2. day - 1 \in Window BY <2>1 DEF Window
    <2>3. TypeOK' BY <1>1, <1>s, <1>t, <2>2 DEF RunOnce, TypeOK
    <2>4. UnderWay' BY <1>1 DEF RunOnce, UnderWay
    <2> QED BY <1>i, <2>3, <2>4 DEF RInv
  <1>2. CASE Fetch
    <2>1. TypeOK' BY <1>2, <1>s, <1>t, <1>d DEF Fetch, TypeOK
    <2>2. Drifted(window)' = Drifted(window) BY <1>2 DEF Fetch, Drifted
    <2>3. UnderWay' BY <1>2, <1>d, <2>2 DEF Fetch, UnderWay
    <2> QED BY <1>i, <2>1, <2>3 DEF RInv
  <1>3. CASE Lookup
    <2>0. pc = "lookup" /\ UNCHANGED <<window, fired>> BY <1>3 DEF Lookup
    <2>1. Drifted(window)' = Drifted(window) BY <2>0 DEF Drifted
    <2>2. left \subseteq DOMAIN Observed[window] /\ results = Drifted(window) \ left
      BY <1>t, <2>0 DEF UnderWay
    <2>3. CASE \E t \in left :
                 /\ left' = left \ {t}
                 /\ results' = IF Exceeds(Observed[window][t], Reported[window][t])
                                 THEN results \cup {t} ELSE results
                 /\ UNCHANGED pc
      <3>1. PICK t \in left :
                 /\ left' = left \ {t}
                 /\ results' = IF Exceeds(Observed[window][t], Reported[window][t])
                                 THEN results \cup {t} ELSE results
                 /\ UNCHANGED pc
        BY <2>3
      <3>2. t \in Drifted(window) <=> Exceeds(Observed[window][t], Reported[window][t])
        BY <1>w, <2>2, DriftedFacts
      <3>3. results' = Drifted(window) \ left' BY <2>2, <3>1, <3>2
      <3>4. left' \subseteq DOMAIN Observed[window] BY <2>2, <3>1
      <3>5. TypeOK' BY <1>s, <1>t, <1>d, <2>0, <3>1, <3>3, <3>4 DEF TypeOK
      <3>6. UnderWay' BY <2>0, <2>1, <3>1, <3>3, <3>4 DEF UnderWay
      <3> QED BY <1>i, <3>5, <3>6 DEF RInv
    <2>4. CASE left = {} /\ pc' = "run_row" /\ UNCHANGED <<left, results>>
      <3>1. TypeOK' BY <1>s, <1>t, <2>0, <2>4 DEF TypeOK
      <3>2. UnderWay' BY <2>1, <2>2, <2>4 DEF UnderWay
      <3> QED BY <1>i, <3>1, <3>2 DEF RInv
    <2> QED BY <1>3, <2>3, <2>4 DEF Lookup
  <1> QED BY <1>1, <1>2, <1>3

(* The row of the run, completed or failed. *)
LEMMA RowKeepsRInv ==
  ASSUME RInv, PersistRun \/ RecordFailure
  PROVE  RInv'
  <1>t. TypeOK /\ UnderWay /\ IncidentsTruthful /\ IncidentsComplete BY DEF RInv
  <1>s. UNCHANGED <<day, fired, window, results, drift, faults>> BY DEF PersistRun, RecordFailure
  <1>w. window \in Window BY <1>t DEF TypeOK
  <1>d. \A d : Drifted(d)' = Drifted(d) BY DEF Drifted
  <1>1. PICK c \in BOOLEAN, d \in BOOLEAN :
          /\ runs' = Append(runs, RunRow(c, d))
          /\ PersistRun => c = TRUE /\ d = (results # {})
    <2>1. CASE PersistRun
      <3>1. (results # {}) \in BOOLEAN /\ TRUE \in BOOLEAN OBVIOUS
      <3> QED BY <2>1, <3>1, Zenon DEF PersistRun
    <2>2. CASE ~PersistRun BY <2>2 DEF RecordFailure
    <2> QED BY <2>1, <2>2
  <1> DEFINE row == RunRow(c, d)
  <1>2. /\ row \in [window : Window, completed : BOOLEAN, drift_detected : BOOLEAN]
        /\ row.window = window /\ row.completed = c /\ row.drift_detected = d
    BY <1>w, RunRowFacts
  <1>3. runs' = Append(runs, row) BY <1>1
  <1> HIDE DEF row
  <1>r. /\ runs' \in Seq([window : Window, completed : BOOLEAN, drift_detected : BOOLEAN])
        /\ Len(runs') = Len(runs) + 1 /\ Len(runs) \in Nat
        /\ runs'[Len(runs')] = row
        /\ \A i \in 1 .. Len(runs) : runs'[i] = runs[i] /\ Incidents(i)' = Incidents(i)
        /\ Incidents(Len(runs))' = {}
        /\ drift' \in SUBSET ((1 .. Len(runs')) \X Tenant)
        /\ 1 .. Len(runs') = (1 .. Len(runs)) \cup {Len(runs')}
    BY <1>2, <1>3, <1>s, <1>t, RowFacts
  <1>4. IncidentsTruthful'
    <2> SUFFICES ASSUME NEW i \in 1 .. Len(runs')
                 PROVE  /\ Incidents(i)' \subseteq Drifted(runs'[i].window)
                        /\ Incidents(i)' # {} => runs'[i].completed /\ runs'[i].drift_detected
      BY <1>d DEF IncidentsTruthful
    <2>1. CASE i \in 1 .. Len(runs) BY <1>r, <1>t, <2>1 DEF IncidentsTruthful
    <2>2. CASE i = Len(runs')
      <3>1. Incidents(i)' = {} BY <1>r, <2>2 DEF Incidents
      <3> QED BY <3>1
    <2> QED BY <1>r, <2>1, <2>2
  <1>5. TypeOK'
    <2>1. left' \subseteq Tenant /\ pc' \in {"drift", "sleep"}
      BY <1>t DEF PersistRun, RecordFailure, TypeOK
    <2> QED BY <1>r, <1>s, <1>t, <2>1 DEF TypeOK
  <1>6. CASE PersistRun
    <2>1. pc = "run_row" /\ pc' = "drift" /\ left' = results BY <1>6 DEF PersistRun
    <2>2. results = Drifted(window) BY <1>t, <2>1 DEF UnderWay
    <2>3. /\ runs'[Len(runs')].window = window /\ runs'[Len(runs')].completed
          /\ results # {} => runs'[Len(runs')].drift_detected
      BY <1>1, <1>2, <1>r, <1>6
    <2>4. UnderWay'
      <3>1. Len(runs') > 0 /\ results \ left' = {} BY <1>r, <2>1
      <3> QED BY <1>r, <1>s, <1>d, <2>1, <2>2, <2>3, <3>1 DEF UnderWay
    <2>5. IncidentsComplete' BY <1>r, <1>t, <1>d, <1>s, <2>1 DEF IncidentsComplete
    <2> QED BY <1>4, <1>5, <2>4, <2>5 DEF RInv
  <1>7. CASE RecordFailure
    <2>1. pc = "failed" /\ pc' = "sleep" BY <1>7 DEF RecordFailure
    <2>2. faults' # <<>> BY <1>s, <1>t, <2>1 DEF UnderWay
    <2>3. UnderWay' BY <2>1 DEF UnderWay
    <2>4. IncidentsComplete' BY <2>2 DEF IncidentsComplete
    <2> QED BY <1>4, <1>5, <2>3, <2>4 DEF RInv
  <1> QED BY <1>6, <1>7

(* The incidents, one by one. *)
LEMMA IncidentKeepsRInv ==
  ASSUME RInv, PersistDrift
  PROVE  RInv'
  <1>t. TypeOK /\ UnderWay /\ IncidentsTruthful /\ IncidentsComplete BY DEF RInv
  <1>s. pc = "drift" /\ UNCHANGED <<day, fired, window, results, runs, faults>> BY DEF PersistDrift
  <1>d. \A d : Drifted(d)' = Drifted(d) BY DEF Drifted
  <1>n. Len(runs) \in Nat /\ Len(runs) > 0 /\ Len(runs) \in 1 .. Len(runs)
    BY <1>s, <1>t DEF UnderWay, TypeOK
  <1>r. /\ results = Drifted(window) /\ left \subseteq results
        /\ Incidents(Len(runs)) = results \ left
    BY <1>s, <1>t DEF UnderWay
  <1>w. /\ runs[Len(runs)].window = window /\ runs[Len(runs)].completed
        /\ results # {} => runs[Len(runs)].drift_detected
    BY <1>s, <1>t DEF UnderWay
  <1>1. CASE \E t \in left : /\ left' = left \ {t}
                             /\ drift' = drift \cup {<<Len(runs), t>>}
                             /\ UNCHANGED pc
    <2>1. PICK t \in left : /\ left' = left \ {t}
                            /\ drift' = drift \cup {<<Len(runs), t>>}
                            /\ UNCHANGED pc
      BY <1>1
    <2>2. t \in Tenant /\ t \in results /\ left \subseteq Tenant
          /\ drift \in SUBSET ((1 .. Len(runs)) \X Tenant)
      BY <1>r, <1>t DEF TypeOK
    <2>3. \A i \in 1 .. Len(runs) : i # Len(runs) => Incidents(i)' = Incidents(i)
      BY <2>1 DEF Incidents
    <2>4. Incidents(Len(runs))' = Incidents(Len(runs)) \cup {t}
      BY <1>s, <2>1, <2>2 DEF Incidents
    <2>5. Incidents(Len(runs))' = results \ left' BY <1>r, <2>1, <2>2, <2>4
    <2>6. TypeOK'
      <3>1. drift' \in SUBSET ((1 .. Len(runs)) \X Tenant) BY <1>n, <2>1, <2>2
      <3> QED BY <1>s, <1>t, <2>1, <2>2, <3>1 DEF TypeOK
    <2>7. UnderWay'
      <3>1. Incidents(Len(runs))' = (results \ left)' BY <1>s, <2>5
      <3> QED BY <1>s, <1>d, <1>n, <1>r, <1>w, <2>1, <3>1 DEF UnderWay
    <2>8. IncidentsTruthful'
      <3> SUFFICES ASSUME NEW i \in 1 .. Len(runs)
                   PROVE  /\ Incidents(i)' \subseteq Drifted(runs[i].window)
                          /\ Incidents(i)' # {} => runs[i].completed /\ runs[i].drift_detected
        BY <1>s, <1>d DEF IncidentsTruthful
      <3>1. CASE i # Len(runs) BY <1>t, <2>3, <3>1 DEF IncidentsTruthful
      <3>2. CASE i = Len(runs)
        <4>1. Incidents(i)' = Incidents(Len(runs))' BY <1>s, <3>2 DEF Incidents
        <4>2. Incidents(i)' \subseteq Drifted(runs[i].window) BY <1>r, <1>w, <2>5, <3>2, <4>1
        <4> QED BY <1>w, <2>2, <3>2, <4>2
      <3> QED BY <3>1, <3>2
    <2>9. IncidentsComplete' BY <1>s, <1>t, <1>d, <2>1, <2>3 DEF IncidentsComplete
    <2> QED BY <2>6, <2>7, <2>8, <2>9 DEF RInv
  <1>2. CASE left = {} /\ pc' = "sleep" /\ UNCHANGED <<left, drift>>
    <2>1. \A i : Incidents(i)' = Incidents(i) BY <1>2 DEF Incidents
    <2>2. TypeOK' BY <1>s, <1>t, <1>2 DEF TypeOK
    <2>3. UnderWay' BY <1>2 DEF UnderWay
    <2>4. IncidentsTruthful' BY <1>s, <1>d, <1>t, <2>1 DEF IncidentsTruthful
    <2>5. Incidents(Len(runs)) = Drifted(runs[Len(runs)].window) BY <1>r, <1>w, <1>2
    <2>6. IncidentsComplete' BY <1>s, <1>d, <1>t, <2>1, <2>5 DEF IncidentsComplete
    <2> QED BY <2>2, <2>3, <2>4, <2>6 DEF RInv
  <1> QED BY <1>1, <1>2 DEF PersistDrift

(* What goes wrong, and the night. *)
LEMMA FaultKeepsRInv ==
  ASSUME RInv, Fail \/ ConnectFails \/ FailureUnrecorded \/ Crash \/ NewDay
  PROVE  RInv'
  <1>t. TypeOK /\ UnderWay BY DEF RInv
  <1>s. UNCHANGED <<window, runs, drift>>
    BY DEF Fail, ConnectFails, FailureUnrecorded, Crash, NewDay
  <1>l. /\ left' \in {left, {}} /\ results' \in {results, {}}
        /\ pc' \in {"start", "sleep", "failed"}
        /\ pc # "drift" \/ ~NewDay
    BY DEF Fail, ConnectFails, FailureUnrecorded, Crash, NewDay
  <1>1. CASE NewDay
    <2>1. day' \in 1 .. MaxDay + 1
      BY <1>1, <1>t, JobAssumption DEF NewDay, TypeOK
    <2>2. TypeOK' BY <1>1, <1>s, <1>t, <2>1 DEF NewDay, TypeOK
    <2>3. UnderWay' BY <1>1 DEF NewDay, UnderWay
    <2>4. IncidentsTruthful' /\ IncidentsComplete' BY <1>1, <1>s, TablesStay DEF NewDay
    <2> QED BY <2>2, <2>3, <2>4 DEF RInv
  <1>2. CASE Fail \/ ConnectFails \/ FailureUnrecorded \/ Crash
    <2>1. \E f : Fault(f) BY <1>2 DEF Fail, ConnectFails, FailureUnrecorded, Crash
    <2>2. faults' \in Seq(Faults) /\ faults' # <<>> BY <1>t, <2>1, FaultFacts
    <2>3. day' = day /\ fired' \in BOOLEAN
      BY <1>2, <1>t DEF Fail, ConnectFails, FailureUnrecorded, Crash, TypeOK
    <2>4. TypeOK' BY <1>s, <1>l, <1>t, <2>2, <2>3 DEF TypeOK
    <2>5. UnderWay' BY <1>l, <2>2 DEF UnderWay
    <2>6. IncidentsTruthful' /\ IncidentsComplete' BY <1>s, <2>2, TablesStay
    <2> QED BY <2>4, <2>5, <2>6 DEF RInv
  <1> QED BY <1>1, <1>2

(* Every step of the job, of its container and of the calendar. *)
LEMMA NextRInv ==
  ASSUME RInv, [Next]_vars
  PROVE  RInv'
  <1>1. CASE RunOnce \/ Fetch \/ Lookup BY <1>1, RunKeepsRInv
  <1>2. CASE PersistRun \/ RecordFailure BY <1>2, RowKeepsRInv
  <1>3. CASE PersistDrift BY <1>3, IncidentKeepsRInv
  <1>4. CASE Fail \/ ConnectFails \/ FailureUnrecorded \/ Crash \/ NewDay BY <1>4, FaultKeepsRInv
  <1>5. CASE UNCHANGED vars
    <2>1. IncidentsTruthful' /\ IncidentsComplete' BY <1>5, TablesStay DEF vars
    <2>2. TypeOK' BY <1>5 DEF RInv, vars, TypeOK
    <2>3. UnderWay' BY <1>5 DEF RInv, vars, UnderWay, Drifted, Incidents
    <2> QED BY <2>1, <2>2, <2>3 DEF RInv
  <1> QED BY <1>1, <1>2, <1>3, <1>4, <1>5 DEF Next, Job

-----------------------------------------------------------------------------
(* The invariant holds of every behaviour of the job. *)
THEOREM ReconciliationInductive == Spec => []RInv
  <1>1. Init => RInv BY InitRInv
  <1>2. RInv /\ [Next]_vars => RInv' BY NextRInv
  <1> QED BY <1>1, <1>2, PTL DEF Spec

(* The job keeps to its types: its window is a day that is over, and every *)
(* incident refers to the row of a run (job.py:118-208).                   *)
THEOREM ReconciliationTypeCorrect == Spec => []TypeOK
  <1>1. RInv => TypeOK BY DEF RInv
  <1> QED BY <1>1, ReconciliationInductive, PTL

(* No incident is wrong, whichever statements fail and wherever the        *)
(* container dies (job.py:118-208).                                        *)
THEOREM NoFalseIncident == Spec => []IncidentsTruthful
  <1>1. RInv => IncidentsTruthful BY DEF RInv
  <1> QED BY <1>1, ReconciliationInductive, PTL

(* As long as nothing has failed, a run that has ended has an incident for *)
(* every tenant that drifted (job.py:118-208).                             *)
THEOREM NoMissingIncident == Spec => []IncidentsComplete
  <1>1. RInv => IncidentsComplete BY DEF RInv
  <1> QED BY <1>1, ReconciliationInductive, PTL

=============================================================================

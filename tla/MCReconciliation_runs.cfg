SPECIFICATION FairSpec
CONSTANTS
  t1 = t1
  t2 = t2
  t3 = t3
  Tenant = {t1, t2, t3}
  Observed <- MCObserved
  Reported <- MCReported
  Threshold = 5
  MaxDay = 2
  Faults = {"lookup", "insert", "outage", "crash"}
  MaxFaults = 2
CHECK_DEADLOCK FALSE
INVARIANT TypeOK
INVARIANT IncidentsTruthful
INVARIANT IncidentsComplete
PROPERTY EveryDayReconciled

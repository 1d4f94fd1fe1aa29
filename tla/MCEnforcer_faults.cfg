SPECIFICATION Spec
CONSTANTS
  Nil = Nil
  agent = agent
  tenant = tenant
  r1 = r1
  r2 = r2
  r3 = r3
  Key <- MCKey
  Unit <- MCUnit
  Req = {r1, r2}
  RefLists <- EditedLists
  Wants <- FewWants
  Actuals <- FewActuals
  TTL = 2
  Cap <- MCCap
  Rate <- MCRate
  Faults = {"lost_reply", "replay", "abandon", "flush", "clock_back"}
  MaxFaults = 2
  MaxUptime = 2
SYMMETRY Symmetry
CHECK_DEADLOCK FALSE
INVARIANT TypeOK
INVARIANT NoOverspend
INVARIANT SpendBound
INVARIANT IInv

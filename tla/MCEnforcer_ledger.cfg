SPECIFICATION Spec
CONSTANTS
  Nil = Nil
  agent = agent
  tenant = tenant
  r1 = r1
  r2 = r2
  r3 = r3
  Key <- MCKey
  Unit <- MCUnit
  Req = {r1, r2, r3}
  RefLists <- StableLists
  Wants <- MCWants
  Actuals <- FewActuals
  TTL = 9
  Cap <- MCCap
  Rate <- MCRate
  Faults = {"lost_reply", "abandon"}
  MaxFaults = 1
  MaxUptime = 2
SYMMETRY Symmetry
CHECK_DEADLOCK FALSE
INVARIANT Ledger
INVARIANT NeverUndercharged
INVARIANT NothingDestroyed

SPECIFICATION FairSpec
CONSTANTS
  Nil = Nil
  None = None
  Raises = Raises
  Mock = Mock
  Unparsable = Unparsable
  tenant1 = tenant1
  tenant2 = tenant2
  agent1 = agent1
  task1 = task1
  large = large
  small = small
  r1 = r1
  r2 = r2
  r3 = r3
  Key <- MCKey
  Unit <- MCUnit
  Ident <- MCIdent
  PricingTable <- MCPrices
  Family <- MCFamily
  MinConfidence = 60
  MinAllowance = 1
  Req = {r1, r2}
  Callers <- OneCaller
  Bodies <- OneBody
  Usages <- FewUsages
  LLMAnswers <- NoAnswer
  Tables <- TokenTable
  DefaultOut = 1
  MaxInt = 7
  TTL = 9
  Cap <- MCCap
  Rate <- MCRate
  Faults = {"lost_reply", "replay", "abandon", "flush", "clock_back", "redis_error", "cancel", "crash"}
  MaxFaults = 1
  MaxUptime = 1
PROPERTY Implements
PROPERTY Answered

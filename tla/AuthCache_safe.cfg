SPECIFICATION Spec
CONSTANTS
  Req = {r1, r2}
  ApiKey = {k1, k2}
  TTL = 2
  MaxLookup = 2
  MaxTime = 4
  Never = Never
INVARIANT TypeOK
INVARIANT RevocationBound
INVARIANT IInv

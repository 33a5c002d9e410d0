SPECIFICATION Spec
CONSTANTS
  Requests = {r1, r2}
  Keys = {k1}
  Codes = {c1, c2}
  Payloads = {p1, p2}
  Resolvable = {p1}
  NoKey = NoKey
  EmptyKey = EmptyKey
  NoRow = NoRow
  NoCode = NoCode
  NoRequest = NoRequest
  NoEntry = NoEntry
  Expired = Expired
INVARIANTS
  OneTaskPerKey
CHECK_DEADLOCK FALSE

SPECIFICATION Spec
CONSTANTS
  Requests = {r1, r2, r3}
  Keys = {k1}
  Codes = {c1, c2, c3}
  Payloads = {p1, p2}
  Resolvable = {p1}
  NoKey = NoKey
  EmptyKey = EmptyKey
  NoRow = NoRow
  NoCode = NoCode
  NoRequest = NoRequest
  NoEntry = NoEntry
  Expired = Expired
SYMMETRY SymRequestsCodes
INVARIANTS
  TypeOK
  CacheBacked
  AnswerOwnTask
  AnswersAgree
  RcsSpared
PROPERTIES
  ImplementsRegistry
CHECK_DEADLOCK FALSE

SPECIFICATION Spec
CONSTANTS
  Requests = {r1, r2}
  Keys = {k1}
  Codes = {c1, c2}
  Payloads = {get, post, bad}
  Allowed = {get, post}
  Gets = {get}
  Signed = {get, post}
  MaxAttempts = 2
  NoKey = NoKey
  EmptyKey = EmptyKey
  NoRow = NoRow
  NoCode = NoCode
  NoRequest = NoRequest
  NoEntry = NoEntry
  Silent = Silent
  Elsewhere = Elsewhere
SYMMETRY SymRequestsCodes
INVARIANTS
  TypeOK
  PersistedIsRow
  AnswerOwnSubmit
  PersistedAgree
  PostedOnce
  ErrorsFaithful
CHECK_DEADLOCK FALSE

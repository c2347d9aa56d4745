SPECIFICATION FairSpec
CONSTANTS
  page = page worker = worker d1 = d1 d2 = d2 d3 = d3 d4 = d4
  r1 = r1 r2 = r2 w1 = w1 w2 = w2 w3 = w3
  Contexts = {page}
  Databases = {d1, d2, d4}
  Transactions = {r1, r2, w1, w2}
  ContextOf <- OpenedBy
  DatabaseOf <- RunOn
  ReadOnly = {r1, r2}
  HasCallback = {r1, r2, w1, w2}
  HasErrorCallback = {w1, r2}
  HasStatementErrorCallback = {r2}
  Failing = {w1, r2}
  Workers = {}
  Stoppable = {}
  Deletable = {}
  MaxStatements = 1
  MaxRaises = 1
  None = None
INVARIANTS TypeOK OpenWritesAreAlone
PROPERTIES LockIsFair EveryTransactionEnds
CHECK_DEADLOCK FALSE

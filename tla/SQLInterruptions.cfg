SPECIFICATION FairSpec
CONSTANTS
  page = page worker = worker d1 = d1 d2 = d2 d3 = d3 d4 = d4
  r1 = r1 r2 = r2 w1 = w1 w2 = w2 w3 = w3
  Contexts = {page, worker}
  Databases = {d1,d3}
  Transactions = {r1, w1, w3}
  ContextOf <- OpenedBy
  DatabaseOf <- RunOn
  ReadOnly = {r1}
  HasCallback = {r1, w3}
  HasErrorCallback = {w1}
  HasStatementErrorCallback = {}
  Failing = {}
  Workers = {worker}
  Stoppable = {page, worker}
  Deletable = {d1}
  MaxStatements = 0
  MaxRaises = 1
  None = None
INVARIANTS AssertionsHold NothingLeaked
PROPERTIES EveryTransactionEnds DeletionReturns
CHECK_DEADLOCK FALSE

SPECIFICATION FairSpec
CONSTANTS
  page = page worker = worker d1 = d1 d2 = d2 d3 = d3 d4 = d4
  r1 = r1 r2 = r2 w1 = w1 w2 = w2 w3 = w3
  Contexts = {page}
  Databases = {d1, d4}
  Transactions = {w1, w2}
  ContextOf <- OpenedBy
  DatabaseOf <- RunOn
  ReadOnly = {}
  HasCallback = {w1, w2}
  HasErrorCallback = {}
  HasStatementErrorCallback = {}
  Failing = {}
  Workers = {}
  Stoppable = {page}
  Deletable = {}
  MaxStatements = 1
  MaxRaises = 0
  None = None
PROPERTY ThreadEnds
CHECK_DEADLOCK FALSE

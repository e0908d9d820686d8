\* Four of five calls: a job, a background transaction, a flush, two closers.
CONSTANTS
  j1 = j1
  t1 = t1
  f1 = f1
  s1 = s1
  s2 = s2
  NoTask = NoTask
  Jobs = {j1}
  Transactions = {t1}
  Flushes = {f1}
  Shutdowns = {s1, s2}
  Background = {t1}
  Capacity = 2
  MaxRetries = 1
  MayDie = TRUE
SPECIFICATION FairSpec
CONSTRAINT Calls
INVARIANTS
  TypeOK
  AnswerIsTruthful
  CountersExact
  SerialExecution
PROPERTIES
  NoAdmissionAfterClose
  ImplementsLedger
  EveryCallReturns
CHECK_DEADLOCK FALSE

\* One handler and two cron workers that may scan the same batch: refinement
\* and liveness, without symmetry.
CONSTANTS
  c1 = c1  c2 = c2  w1 = w1  w2 = w2  ann = ann  bob = bob
  NoProc = NoProc
  Users = {ann}
  Clients = {c1}
  Crons = {w1, w2}
  Amounts = {1, 2}
  MaxPoints = 3
  Year = 2
  Notice = 1
  MaxTime = 3
  MaxLedger = 2
  MaxCrashes = 1
SPECIFICATION FairSpec
PROPERTIES
  AccountSpec
  ExpiredCoinsLeave
CHECK_DEADLOCK FALSE

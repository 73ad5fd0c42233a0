\* One wallet, two concurrent handlers and one cron worker.
CONSTANTS
  c1 = c1  c2 = c2  w1 = w1  w2 = w2  ann = ann  bob = bob
  NoProc = NoProc
  Users = {ann}
  Clients = {c1, c2}
  Crons = {w1}
  Amounts = {0, 1, 2}
  MaxPoints = 3
  Year = 2
  Notice = 1
  MaxTime = 3
  MaxLedger = 3
  MaxCrashes = 1
SPECIFICATION Spec
SYMMETRY Symmetry
INVARIANTS
  WalletSafe
  LedgerExplainsPoints
  PointsBackedByBatches
  OldestCoinsFirst
  ExpiredOnce
  ReminderMatchesNotification
CHECK_DEADLOCK FALSE

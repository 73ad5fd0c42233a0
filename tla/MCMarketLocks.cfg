\* Two markets, each resolved while a referred player predicts on the other.
CONSTANTS
  m1 = m1  m2 = m2  c1 = c1  c2 = c2  a1 = a1  a2 = a2  j1 = j1
  yes = yes  no = no  maybe = maybe
  NoProc = NoProc
  Options = {yes, no}
  Payout <- Pay
  StartTime <- Starts
  LockTime <- Locks
  ResolutionTime <- Resolutions
  Stake = 1
  Coins <- SmallPurse
  Referrer <- ReferredByOne
  Users = {1, 2}
  Markets = {m1, m2}
  Seeded = {m1, m2}
  Answers = {yes, no}
  Category <- TwoCategories
  Clients = {c1}
  Resolvers = {a1}
  Admins = {a1}
  Jobs = {}
  Day = 1
  MaxTime = 0
SPECIFICATION FairSpec
INVARIANT DeadlocksNeedStats
PROPERTY TransactionsEnd
CHECK_DEADLOCK FALSE

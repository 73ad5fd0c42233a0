\* One market from creation to archive: two players, two resolvers, one of
\* them also moving the market by hand, and the minute job.
CONSTANTS
  m1 = m1  m2 = m2  c1 = c1  c2 = c2  a1 = a1  a2 = a2  j1 = j1
  yes = yes  no = no  maybe = maybe
  NoProc = NoProc
  Options = {yes, no}
  Payout <- Pay
  StartTime <- Starts
  LockTime <- Locks
  ResolutionTime <- Resolutions
  Stake = 1
  Coins <- Purse
  Referrer <- ReferredByOne
  Users = {1, 2}
  Markets = {m1}
  Seeded = {}
  Answers = {yes, no}
  Category <- OneCategory
  Clients = {c1}
  Resolvers = {a1, a2}
  Admins = {a2}
  Jobs = {j1}
  Day = 2
  MaxTime = 3
SPECIFICATION FairSpec
INVARIANTS
  StakesAndWinsOnce
  VolumeCountsBets
PROPERTIES
  BettingSpec
  MarketsLock
CHECK_DEADLOCK FALSE

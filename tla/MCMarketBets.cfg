\* Two requests of a player on a seeded market and a created one of the same
\* category, around midnight, and two resolvers of these markets.
CONSTANTS
  m1 = m1  m2 = m2  c1 = c1  c2 = c2  a1 = a1  a2 = a2  j1 = j1
  yes = yes  no = no  maybe = maybe
  NoProc = NoProc
  Options = {yes, no}
  Payout <- Pay
  StartTime <- Starts
  LockTime <- Locks
  ResolutionTime <- Resolutions
  Stake = 1
  Coins <- Purse
  Referrer <- ReferredByOne
  Users = {1}
  Markets = {m1, m2}
  Seeded = {m1}
  Answers = {yes, no, maybe}
  Category <- OneCategory
  Clients = {c1, c2}
  Resolvers = {a1, a2}
  Admins = {}
  Jobs = {j1}
  Day = 1
  MaxTime = 2
SPECIFICATION Spec
SYMMETRY Symmetry
INVARIANTS
  OneBetPerCategoryADay
  StatsMatchBets
CHECK_DEADLOCK FALSE

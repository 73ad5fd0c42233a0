\* Two referred users race for the cap of one referrer while events are paid.
CONSTANTS
  h1 = h1  h2 = h2  c1 = c1  c2 = c2
  NoProc = NoProc
  Users = {1, 2, 3}
  Newcomers = {3}
  Code <- ByOne
  Milestones = {"signed_up", "first_prediction", "first_deposit"}
  Goals <- Goal
  Earnings <- Coins
  MaxReferralRewards = 1
  Handlers = {h1, h2}
  Crons = {c1, c2}
  MaxFails = 1
SPECIFICATION FairSpec
INVARIANT ReferralInv
PROPERTIES BonusSpec PendingIsPaid
CHECK_DEADLOCK FALSE

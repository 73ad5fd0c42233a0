\* Two sessions of a user, a deposit of another, room for one more event.
CONSTANTS
  h1 = h1  h2 = h2  c1 = c1  s1 = s1  s2 = s2
  NoProc = NoProc  NoSession = NoSession
  Users = {1, 2, 3}
  Newcomers = {}
  Code <- ByOne
  Milestones = {"signed_up", "kyc_completed", "first_deposit"}
  Goals <- Goal
  Earnings <- Coins
  MaxReferralRewards = 1
  Handlers = {h1, h2}
  Crons = {c1}
  MaxFails = 1
  Sessions = {s1, s2}
  Owner <- Twos
SPECIFICATION KycSpec
INVARIANT KycInv
PROPERTY BonusSpec
CHECK_DEADLOCK FALSE

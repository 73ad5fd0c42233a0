\* Two racing requests over four days.
CONSTANTS
  ann = ann  r1 = r1  r2 = r2
  NoProc = NoProc
  Users = {ann}
  Requests = {r1, r2}
  BaseCoins = 1
  Milestones = {2, 4}
  Bonus <- Rewarded
  Day = 2
  MaxTime = 7
SPECIFICATION Spec
SYMMETRY Symmetry
INVARIANTS
  StreakInv
  OneRewardADayUnlessLate
  StreakTellsHistory
  BonusesEarned
CHECK_DEADLOCK FALSE

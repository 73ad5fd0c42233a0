\* Everybody's requests against one user's account.
CONSTANTS
  h1 = h1  h2 = h2  boss = boss  adm = adm
  t1 = t1  t2 = t2  l1 = l1  l2 = l2  r1 = r1  r2 = r2
  NoProc = NoProc  NoOne = NoOne
  Users = {boss, adm}
  Targets = {adm}
  Tokens = {t1, t2}
  Links = {l1, l2}
  Holder <- LoggedIn
  Rank <- Ranks
  Handlers = {h1, h2}
  MaxCalls = 4
  Reports = {r1, r2}
  Subject <- About
SPECIFICATION ModerationSpec
SYMMETRY Symmetry
INVARIANTS ModerationInv NobodyStuck
PROPERTIES EachLinkOnce ReportsDecidedOnce 
CHECK_DEADLOCK FALSE

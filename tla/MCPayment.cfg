\* An order paid twice and one of another user of the same referrer.
CONSTANTS
  h1 = h1  h2 = h2  o1 = o1  o2 = o2  p1 = p1  p1b = p1b  p2 = p2
  NoProc = NoProc  NoPayment = NoPayment
  Users = {1, 2, 3}
  Orders = {o1, o2}
  Payments = {p1, p1b, p2}
  Owner <- Owners
  OrderOf <- Paying
  Amount <- Rupees
  Referrer <- ReferredByOne
  MaxReferralRewards = 1
  Handlers = {h1, h2}
  MaxFails = 2
SPECIFICATION FairSpec
INVARIANTS
  SettlementsSafe
  AnswersAreTrue
  FirstDepositsReferred
PROPERTIES
  DepositSpec
  CapturedIsCredited
CHECK_DEADLOCK FALSE

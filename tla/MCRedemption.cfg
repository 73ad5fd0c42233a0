\* Two users, two pieces of a reward, an unlimited reward, a voucher; two requests at once.
CONSTANTS
  h1 = h1  h2 = h2  u1 = u1  u2 = u2  mug = mug  sticker = sticker  silver = silver
  r1 = r1  r2 = r2  r3 = r3  r4 = r4  r5 = r5
  NoProc = NoProc
  Users = {u1, u2}
  Items = {mug, sticker, silver}
  Vouchers = {silver}
  Requests = {r1, r2, r3, r4, r5}
  Buyer <- Buyers
  ItemOf <- Wanted
  Cost <- Prices
  Purse <- Coins
  Stock <- Shelf
  Handlers = {h1, h2}
SPECIFICATION FairSpec
INVARIANT RedemptionsSafe
PROPERTIES FulfilmentSpec HandlersEnd
CHECK_DEADLOCK FALSE

\* One cart under the requests of two web workers.
CONSTANTS
  Products = {a, b}
  a = a
  b = b
  LineIds = {1, 2}
  Requests = {1, 2}
  InitialStock <- TwoOfA
  Items <- JustA
  GuestCarts <- BothOrders
  Changing = {a}
  None = None
  Unborn = Unborn
  Gone = Gone
SPECIFICATION FairSpec
INVARIANTS TypeOK WithinStock
PROPERTIES Honoured RemovedStaysRemoved RequestsEnd

\* One customer's transactions on two workers, row lock by row lock.
CONSTANTS
  Products = {a, b}
  a = a
  b = b
  OrderIds = {1, 2}
  PaymentIds = {1, 2}
  Workers = {w1, w2}
  w1 = w1
  w2 = w2
  Catalogue = {a}
  InitialStock <- OneUnit
  Carts <- BothOrders
  Answers = {"succeeded"}
  None = None
  Unborn = Unborn
  Gone = Gone
SPECIFICATION FairSpec
INVARIANTS TypeOK ItemsKept ExpiryNeverDeadlocked
PROPERTIES SoldOnce TransactionsEnd

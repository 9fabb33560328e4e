\* One customer on two web workers starts checkouts over one another (Stripe).
CONSTANTS
  Users = {u1}
  Products = {a}
  OrderIds = {1, 2}
  PaymentIds = {1, 2}
  Providers = {"stripe"}
  Requests = {r1, r2}
  r1 = r1
  r2 = r2
  InitialStock <- OneUnit
  MaxQuantity = 1
  LegacyRows <- NoLegacyRows
  Endpoints = {"initiate", "verify", "cancel", "cart"}
  Simulated = {}
  Unsigned = {}
  None = None
SPECIFICATION Spec
SYMMETRY WorkerSymmetry
INVARIANTS LocksHold SucceededIsPaid
PROPERTIES PaidStaysPaid SoldOnce

\* Staff edit products and orders while one customer checks out on two web workers.
CONSTANTS
  Users = {u1}
  Products = {a}
  OrderIds = {1, 2}
  PaymentIds = {1, 2}
  Providers = {"stripe"}
  Requests = {r1, r2}
  r1 = r1
  r2 = r2
  InitialStock <- OneUnit
  MaxQuantity = 1
  LegacyRows <- NoLegacyRows
  Endpoints = {"initiate", "cart", "cancel", "products", "admin_orders"}
  Simulated = {}
  Unsigned = {}
  None = None
SPECIFICATION Spec
SYMMETRY WorkerSymmetry
INVARIANTS TypeOK LocksHold
PROPERTIES SucceededUntilAnswer

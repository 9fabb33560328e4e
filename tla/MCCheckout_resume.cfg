\* One order, its checkout resumed on two web workers, with expiry (Stripe and bKash).
CONSTANTS
  Users = {u1}
  Products = {a}
  OrderIds = {1}
  PaymentIds = {1, 2}
  Providers = {"stripe", "bkash"}
  Requests = {r1, r2}
  r1 = r1
  r2 = r2
  InitialStock <- OneUnit
  MaxQuantity = 1
  LegacyRows <- NoLegacyRows
  Endpoints = {"orders", "resume", "verify", "confirm", "cancel", "expiry"}
  Simulated = {}
  Unsigned = {}
  None = None
SPECIFICATION Spec
SYMMETRY WorkerSymmetry
INVARIANTS CompletedIfPaid
PROPERTIES SucceededUntilAnswer

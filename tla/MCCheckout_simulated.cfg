\* bKash simulated and without a webhook secret, Stripe real: two products, a payment of the deferred flow.
CONSTANTS
  Users = {u1}
  Products = {a, b}
  OrderIds = {1, 2}
  PaymentIds = {1, 2}
  Providers = {"stripe", "bkash"}
  Requests = {r1}
  r1 = r1
  r2 = r2
  InitialStock <- OneUnit
  MaxQuantity = 1
  LegacyRows <- OneLegacyRow
  Endpoints = {"initiate", "resume", "verify", "confirm", "orders", "cart", "cart_checkout"}
  Simulated = {"bkash"}
  Unsigned = {"bkash"}
  None = None
SPECIFICATION Spec
INVARIANTS SucceededIsPaid CompletedIfPaid
PROPERTIES SoldOnce

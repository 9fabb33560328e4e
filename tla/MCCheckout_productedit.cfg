\* Violated: a product edit writes a stale stock back.
CONSTANTS
  Users = {u1}
  Products = {a}
  OrderIds = {1, 2}
  PaymentIds = {1, 2}
  Providers = {"stripe"}
  Requests = {r1, r2}
  r1 = r1
  r2 = r2
  InitialStock <- OneUnit
  MaxQuantity = 1
  LegacyRows <- NoLegacyRows
  Endpoints = {"orders", "resume", "products"}
  Simulated = {}
  Unsigned = {}
  None = None
SPECIFICATION Spec
INVARIANTS NotOversold

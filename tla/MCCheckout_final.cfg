\* Violated: a final payment status is overwritten.
CONSTANTS
  Users = {u1}
  Products = {a}
  OrderIds = {1}
  PaymentIds = {1}
  Providers = {"stripe"}
  Requests = {r1, r2}
  r1 = r1
  r2 = r2
  InitialStock <- OneUnit
  MaxQuantity = 1
  LegacyRows <- NoLegacyRows
  Endpoints = {"orders", "resume", "verify"}
  Simulated = {}
  Unsigned = {}
  None = None
SPECIFICATION Spec
PROPERTIES FinalStaysFinal

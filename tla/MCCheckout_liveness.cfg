\* Fair: captured payments are honoured, open ones expire.
CONSTANTS
  Users = {u1}
  Products = {a}
  OrderIds = {1, 2}
  PaymentIds = {1, 2}
  Providers = {"stripe"}
  Requests = {r1}
  r1 = r1
  r2 = r2
  InitialStock <- OneUnit
  MaxQuantity = 1
  LegacyRows <- NoLegacyRows
  Endpoints = {"initiate", "cart", "cancel", "expiry"}
  Simulated = {}
  Unsigned = {}
  None = None
SPECIFICATION FairSpec
PROPERTIES StaleExpires CapturedIsHonoured

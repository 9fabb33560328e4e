\* Two containers boot at once while two customers register one address.
CONSTANTS
  Addresses = {"admin"}
  AdminAddress = "admin"
  Clients = {c1, c2}
  NoAccount = NoAccount
  NoEmail = NoEmail
  Tree <- SmallTree
  Skus = {"KIT-001"}
  Samples <- OneSample
  Names = {"Home", "Kitchen"}
  CategoryIds = {1, 2, 3, 4}
  Replicas = {r1, r2}
  MaxCrashes = 2
  MaxEdits = 1
  Null = Null
  NoRow = NoRow
  Gone = Gone
SPECIFICATION FairSpec
INVARIANTS TypeOK OneAccountPerAddress SeededOnce FailsByEditsOnly UpIsSeeded
PROPERTIES RegistrationsKept ComesUp
\* It rests when all containers are up and the bounds are used up.
CHECK_DEADLOCK FALSE

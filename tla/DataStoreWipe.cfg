SPECIFICATION Spec
CONSTANTS
  Users = {1}
  SeedProducts = {1}
  FirstProduct = 2
  FirstOrder = 10
  MaxProduct = 2
  MaxOrders = 2
  MaxQuantity = 1
  MaxFaults = 2
  Faults = {"crash"}
PROPERTY SeedsOnlyEmpty

CONSTANTS
  Names = {a, b}
  Shelves = {s, t}
  Prices = {1}
  Deliveries = {0, 1}
  Quantities = {1}
  MaxMerch = 2
  MaxCarts = 2
  MaxStock = 2
  MaxShelves = 3
SPECIFICATION FairStore
INVARIANTS
  StoreTypeOK
  StockCoversCarts
  PairsInCatalogue
  BooksBalance
PROPERTIES
  CheckoutAdvances
  CheckoutEndsUnlessClobbered
CHECK_DEADLOCK FALSE

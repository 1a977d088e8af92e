SPECIFICATION Spec
CONSTANTS
  People = {ann}
  None = None
  Shops <- TheShops
  ForeignKeys = TRUE
  MaxBorn = 5
  MaxLate = 2
  MaxPicks = 3
INVARIANTS TypeOK SlotTrue CatalogueSound
CHECK_DEADLOCK FALSE

CONSTANTS
  Absent = Absent
  Catalog <- DefCatalog
  KeyOrder <- DefKeyOrder
  DefaultPrefix <- DefPrefix
  Node = "node"
  Offers <- DefOffers
  Catalogues <- StrangeCatalogues
  Installed <- DefInstalled
  Settings <- DefSettings
  MaxChanges = 1
SPECIFICATION Spec
INVARIANTS ContainedIsAccepted
CHECK_DEADLOCK FALSE

CONSTANTS
  Absent = Absent
  Catalog <- DefCatalog
  KeyOrder <- DefKeyOrder
  DefaultPrefix <- DefPrefix
  Node = "node"
  Offers <- DefOffers
  Catalogues <- DefCatalogues
  Installed <- DefInstalled
  Settings <- DefSettings
  MaxChanges = 1
SPECIFICATION Spec
INVARIANTS GoneLeaves ContainedIsAccepted  LeftoversParse
PROPERTIES NoDeclaredEntityDeleted
CHECK_DEADLOCK FALSE

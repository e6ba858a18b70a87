SPECIFICATION FairSpec
CONSTANTS
  base = base
  mail = mail
  sale = sale
  Module = {base, mail, sale}
  Depends <- Chain
  Meanwhile = {"mark", "install", "uninstall"}
  MaxFaults = 2
  MaxAsks = 5
CHECK_DEADLOCK FALSE
INVARIANTS
  TypeOK
  SavedIsUpgraded
PROPERTIES
  CompleteMeansUpgraded
  ChangesAreUpgraded

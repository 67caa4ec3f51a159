SPECIFICATION Spec
CONSTANTS
  Enabled = {0, 1, 3}
  Repos = 2
  Records = 1
  Texts = 1
  Flags = {1, 2}
  Targets = {g1}
  MaxItems = 2
  Cards = TRUE
  Metadata = TRUE
  MaxNews = 3
INVARIANTS
  TypeOK
  CatalogFaithful
PROPERTIES
  NothingMissed
  BaselineSilent
  UpdatesGrounded

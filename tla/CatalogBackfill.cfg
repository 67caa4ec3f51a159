SPECIFICATION Spec
CONSTANTS
  Enabled = {1}
  Repos = 1
  Records = 1
  Texts = 1
  Flags = {0}
  Targets = {g1}
  MaxItems = 1
  Cards = FALSE
  Metadata = TRUE
  MaxNews = 2
PROPERTY
  QuietWhenUnchanged

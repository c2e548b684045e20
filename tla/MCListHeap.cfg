SPECIFICATION FairSpec
CONSTANTS
  Lists = {fifo, sorted}
  SortedLists = {sorted}
  Items = {a, b, c}
  portMAX_DELAY = 2
  Null = Null
INVARIANTS
  LinksOK
  CursorsOK
  CountOK
  SortedLinks
PROPERTIES
  ImplementsXListSpec
  InsertTerminates

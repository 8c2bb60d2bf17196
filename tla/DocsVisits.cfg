\* A tab, at a server that ends and starts at any time.
CONSTANTS
  Tabs = {1}
SPECIFICATION Spec
INVARIANTS
  TypeOK
PROPERTIES
  VisitEnds
  UndisturbedVisitShows
CHECK_DEADLOCK FALSE

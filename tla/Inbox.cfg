SPECIFICATION HeapSpec
CONSTANTS
  Ids = {1, 2, 3, 4, 5, 6}
  Content = {1, 2, 3}
  Odd = {2}
  Packs = {4}
  Items <- MCItems
  Requests = {5}
  Asked <- MCAsked
  Hints = {6}
  Answer <- MCAnswer
  Window = 3
  AckLimit = 1
  ReportLimit = 1
INVARIANTS
  TypeOK
  HandledOnce
  ToldIsHandled
  HeapIsWindow
PROPERTIES
  BothAreServed

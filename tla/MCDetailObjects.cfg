CONSTANTS
  Ids = {1, 2}
  Titles = {"x", "y"}
  MaxLength = 2
  Responses <- MCResponses
  NoObject = NoObject
  Entries = {e1, e2}
SPECIFICATION DetailSpec
INVARIANTS DetailTypeOK NoNullDereference PaneShowsItsObject
PROPERTIES StoredObjectIsShown RecompositionSettles

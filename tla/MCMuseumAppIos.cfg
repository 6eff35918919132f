CONSTANTS
  Platform = "ios"
  Ids = {1, 2}
  Titles = {"x"}
  Responses <- RepeatingResponses
  NoObject = NoObject
  Entries = {e1, e2}
  ServerMessages = {m1}
  MaxMessages = 1
SYMMETRY Symmetry
SPECIFICATION Spec
INVARIANTS CrashesAreExplained DetailsHaveObjects

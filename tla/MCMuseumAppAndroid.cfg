CONSTANTS
  Platform = "android"
  Ids = {1, 2}
  Titles = {"x"}
  Responses <- UniqueResponses
  NoObject = NoObject
  Entries = {e1, e2}
  ServerMessages = {m1}
  MaxMessages = 0
SYMMETRY Symmetry
SPECIFICATION Spec
INVARIANTS AppTypeOK CrashesAreExplained PanesShowTheirObjects ScopeEndsWithViewModel
PROPERTIES BlankNeedsStaleClick ListEnvironmentHolds DetailEnvironmentHolds ChatEnvironmentHolds

CONSTANTS
  Ids = {1, 2}
  Titles = {"x", "y"}
  MaxLength = 3
  Responses <- MCResponses
  NoObject = NoObject
SPECIFICATION DataSpec
INVARIANTS DataTypeOK StorageFollowsRefresh
PROPERTIES LoadsOnce FetchedIsStored

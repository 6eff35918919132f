CONSTANTS
  Ids = {1, 2}
  Titles = {"x"}
  MaxLength = 2
  Responses <- MCResponses
  NoObject = NoObject
SPECIFICATION ListSpec
INVARIANTS SharingIsScoped ListIsEmptyOrStored
PROPERTIES GridNeverEmpties StoredListIsShown UnobservedSharingStops

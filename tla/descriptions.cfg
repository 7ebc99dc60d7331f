SPECIFICATION Spec
CONSTANTS
  Prop <- ItemProps
  Classes <- ClassNames
  Mro <- Resolution
  Decorated <- Types
  ValueChoices <- Edits
  Foreign <- Others
  Stored <- OldOrNew
  Url = "url"
  Urn = "urn"
  Class = "Item"
  MaxEdits = 3
  NoFragment = "none"
  NoLanguage = "none"
  NoDatatype = "none"
  NoClass = "none"
  Absent = Absent
  None = None
CHECK_DEADLOCK FALSE
INVARIANTS TypeOK UpdateSynchronises ValidationIsSound
PROPERTY EditsAreExact

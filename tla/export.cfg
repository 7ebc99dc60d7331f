SPECIFICATION ExportSpec
CONSTANTS
  Prop <- ItemProps
  Classes <- ClassNames
  Mro <- NoBases
  Decorated <- Types
  NoFragment = "none"
  NoLanguage = "none"
  NoDatatype = "none"
  NoClass = "none"
  Basic <- BasicHeaders
  Embedded <- EmbeddedHeaders
  WordLangs = {"de"}
  Datatypes = {"EDTF"}
  OpaqueTypes = {"accessionNumber"}
  UsageTags = {"<preservation>"}
  Dirs = {"x/", "y/", "u/", "v/"}
  Exts = {".tif", ".txt"}
  Uris <- InOrder
  Repositories <- TwoItems
  MODEL_MAP <- ModelMap
  Fallback = "Item"
  BinaryTypes = {"any"}
  AnyType = "any"
  Failures = {"RepositoryError", "RuntimeError", "ConnectionError"}
  Edits <- SomeEdits
  Places <- SomePlaces
  NotYet = NotYet
CHECK_DEADLOCK FALSE
INVARIANTS ExportTypeOK RowsComeBack FilesArrive

\* One paper with at most two tags and requests of up to four words; streams
\* of up to four lines; PDFs of up to two source pages; documents of up to
\* five sections and items, chunks of at most five characters.
SPECIFICATION RulesSpec
CONSTANTS
  Tag <- MCTag
  Blank = ""
  Trim <- MCTrim
  Fold <- MCFold
  TooLong = {"long"}
  MaxTags = 2
  MaxWords = 4
  Unset = Unset
  Invalid = Invalid
  MaxPages = 2
  MaxInputBytes = 1
  MaxOutputBytes = 1
  MaxCharacters = 5
  Line <- MCLine
  MaxLines = 4
  MapEntry <- MCMapEntry
  Geometry <- MCGeometry
  PdfPair <- MCPdfPair
  Item <- MCItem
  MaxItems = 5
INVARIANTS StoredStateLoads AcceptedStreamIsWhole AcceptedMapPairsPages ProgressAgrees
PROPERTY ChangeIsExact
CHECK_DEADLOCK FALSE

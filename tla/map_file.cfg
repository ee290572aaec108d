\* Endings, types, checksums and frames of map files; a parsed file is the end.
CONSTANTS
  Files <- MCFiles
  StandardDelimiter = "CRLF"
  MaxNElements = 5
SPECIFICATION Spec
INVARIANTS
  TypeOK
  DelimitersAreInnermost
  ReadsWhatIsDeclared
  PayloadsComeInOrder
  ChecksumListsAgree
  DataTypeHoldsBoth
CHECK_DEADLOCK FALSE

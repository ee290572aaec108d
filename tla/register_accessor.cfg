\* A checked, acknowledged register of two elements; whole and partial accessors.
CONSTANTS
  Elements = 2
  Values <- MCValues
  UserType <- MCUserType
  Slot <- MCSlot
  Contents <- MCContents
  Zero = 0
  Readable = TRUE
  Writeable = TRUE
  Checksums = TRUE
  WriteAcknowledged = TRUE
  NoData = NoData
SPECIFICATION Spec
INVARIANTS
  TypeOK
  ReadIsCurrent
  AcknowledgedWriteArrived
PROPERTIES
  VersionMeansWholeUpdate

SPECIFICATION Spec
CONSTANTS
  Inet4 <- MCInet4
  Inet6 <- MCInet6
  Canonical <- MCCanonical
  MaxPort = 10
  AddrStrLen = 4
  UnixPathMax = 6
  CommandLines <- MCCommandLines
  Counted <- MCCounted
  Least <- MCLeast
  Most <- MCMost
  Default <- MCDefault
  FileSize <- MCFileSize
  WordSize = 256
  MaxArguments = 6
  MaxAddressLength = 6
  MaxNumberLength = 4
CHECK_DEADLOCK FALSE
INVARIANTS
  TypeOK
  TakenAsAsked
  AddressesAsWritten
  NumbersAsWritten
  PrintedAddressReadsBack
PROPERTIES
  ParsingEnds

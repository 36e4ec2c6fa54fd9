SPECIFICATION TransferSpec
CONSTANTS
  s1 = s1
  s2 = s2
  f1 = f1
  f2 = f2
  f3 = f3
  None = None
  Senders = {s1, s2}
  Ids = {f1, f2, f3}
  OwnerOf <- Owner
  FileBlocks = 2
  max_file_bytes = 2
  MAX_CONCURRENT_TRANSFERS = 1
  MAX_DEDUP = 3
INVARIANTS
  SavedIsIntact
  TempIsOwned
PROPERTIES
  OwnFileKept
CHECK_DEADLOCK FALSE

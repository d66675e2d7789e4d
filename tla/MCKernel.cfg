SPECIFICATION Spec
CONSTANTS
  Pids = {1, 2, 3}
  First <- MCFirst
  Creators = {1, 2}
  Rights = {0, 1}
  Lens = {1}
  Names = {"n1"}
  Uid <- MCUid
  Types = {1}
  Tags = {0}
  QueueDepth = 2
  MaxPerSender = 2
  MaxInboxes = 1
  MaxServices = 1
  MaxNames = 1
  MaxAllow = 1
  MaxSeq = 3
  NObjects = 2
  MaxPages = 2
  MaxPerOwner = 2
  MaxTotal = 2
  MaxGrants = 1
  MaxRecords = 3
  MaxMapsPerProc = 2
  VirtEnd = 5
  Frames = {1, 2}
  GenMod = 4
  MaxMade = 3
  MacPids = {1, 2, 3}
  BootPid = 1
  MAX_PROFILES = 3
  MAX_STACK = 2
  MAX_FILE_RULES = 2
  MAX_NET_RULES = 1
  MAX_EXEC_RULES = 1
  BaseMax = 2
  MaxWrites = 1
  Syscalls <- MCSyscalls
  Programs <- MCPrograms
  Texts <- MCTexts
  OnDisk <- MCOnDisk
  Requests <- MCRequests
INVARIANTS
  DeliveredOnceInOrder
  MappedFramesOwned
  HandleNamesItsObject
  GoneMeansReleased
  SpinsEnd
  PipeStreams
  HeardAsWritten
  
  
  

  
CHECK_DEADLOCK FALSE

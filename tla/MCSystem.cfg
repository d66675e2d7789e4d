SPECIFICATION Spec
CONSTANTS
  CapsetLists <- MCCapsets
  GpuFaults = 2
INVARIANTS
  
  
  InstalledAppsVerified
  
  FollowsTheLog
  CrashLoopBounded
  RowsOrdered
  AdminRemains
  PanelMatchesKernel
  CentresAct
  
  PreSnapIsLastFloating
  SelfTestSeesPixels
  DeviceLeftAsFound

  
CHECK_DEADLOCK FALSE

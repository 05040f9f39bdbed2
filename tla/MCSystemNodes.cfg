\* The nodes are listed one by one: /cluster/resources is not usable. Stopped
\* guests are published too.
CONSTANTS
  vm = vm
  ct = ct
  n1 = n1
  n2 = n2
  None = None
  Guests <- MCGuests
  VMs <- MCVMs
  NodeList <- MCNodeList
  IncludedNodes <- MCNoNodes
  InitialHome <- MCInitialHome
  SkipStopped = FALSE
  SkipIPResolution = FALSE
  ClusterUsable = FALSE
  EnabledRevs = {0, 1}
  MaxChanges = 2
  MaxFailures = 1
  Capacities = {1}
SPECIFICATION Spec
INVARIANTS
  UndisturbedGuestIsExact
  LabelsNeverGoBack
  OutageNotPublished
CHECK_DEADLOCK FALSE

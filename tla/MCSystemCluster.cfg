\* One of the two nodes is configured: the cluster path, with the fall back to
\* that node after a failed call; and what Traefik ends up with.
CONSTANTS
  vm = vm
  ct = ct
  n1 = n1
  n2 = n2
  None = None
  Guests <- MCGuests
  VMs <- MCVMs
  NodeList <- MCNodeList
  IncludedNodes <- MCOneNode
  InitialHome <- MCInitialHome
  SkipStopped = TRUE
  SkipIPResolution = FALSE
  ClusterUsable = TRUE
  EnabledRevs = {0, 1}
  MaxChanges = 2
  MaxFailures = 1
  Capacities = {1}
SPECIFICATION FairSpec
INVARIANTS
  TypeOK
  UndisturbedGuestIsExact
  NothingStale
PROPERTIES
  Converges
CHECK_DEADLOCK FALSE

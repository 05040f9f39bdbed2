\* Options one by one and filters in combination, over clusters of up to three
\* guests on two nodes, with every outcome of every call.
CONSTANTS
  Seconds <- MCSeconds
  Configs <- MCConfigs
  Clusters <- MCClusters
  NodeOrder <- MCNodeOrder
SPECIFICATION Spec
INVARIANTS
  TypeOK
  SnapshotAsDocumented
PROPERTIES
  EveryScanEnds
CHECK_DEADLOCK FALSE

\* The default interface patterns are narrower than the interfaces there are,
\* and the patterns of the labels cut the names in every way.
CONSTANTS
  four = four
  otherFour = otherFour
  six = six
  loopback = loopback
  Addresses <- MCAddresses
  IPv4 <- MCIPv4
  Routable <- MCRoutable
  InterfaceSets <- MCInterfaceSets
  PatternSets <- MCPatternSets
  DefaultInterfaces <- MCDefaults
  FallbackHost = FallbackHost
  LabelURL = LabelURL
  LabelIP = LabelIP
  Unset = Unset
SPECIFICATION Spec
INVARIANTS
  TypeOK
  ServersAsDocumented
  NoUnreachableServer
  PatternsMean
CHECK_DEADLOCK FALSE

\* What README.md says of ipMode when addresses are not resolved.
CONSTANTS
  four = four
  otherFour = otherFour
  six = six
  loopback = loopback
  Addresses <- MCAddresses
  IPv4 <- MCIPv4
  Routable <- MCRoutable
  InterfaceSets <- MCInterfaceSets
  PatternSets <- MCPatternSets
  DefaultInterfaces <- MCDefaults
  FallbackHost = FallbackHost
  LabelURL = LabelURL
  LabelIP = LabelIP
  Unset = Unset
SPECIFICATION Spec
INVARIANTS
  ModeWithoutEffect
CHECK_DEADLOCK FALSE

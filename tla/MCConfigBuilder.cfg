\* HTTP, TCP and UDP; default and explicit names, shared services, attached
\* transports, and names of three pieces that are cut when they get a suffix.
CONSTANTS
  g1 = g1
  g2 = g2
  g3 = g3
  Order <- MCOrder
  LabelSets <- MCLabels
  NameOrder <- MCNameOrder
  Id <- MCId
  Kind <- MCKind
  Node <- MCNode
  Numeral <- MCNumeral
  NamePieces = {"a", "b", "c", "d", "app", "web", "insecure", "vm", "lxc", "pve1", "pve2", "101", "102", "103", "2", "3", "4", "5", "6", "7", "8", "9"}
  Numbers = {"8080", "9090", "5432", "53"}
  MaxNameLength = 3
  DefaultDomain <- Unset
SPECIFICATION Spec
INVARIANTS
  TypeOK
  DefaultGuestServed
  ReferencesResolve
  NoStrangers
  OwnersOnly
PROPERTIES
  PublishedStays

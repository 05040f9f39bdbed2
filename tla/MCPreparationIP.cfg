\* What README.md says of a label ip.
CONSTANTS
  NoValue = NoValue
  More = "more"
  Inputs <- MCIPInputs
  Fallback <- MCFallback
  NamePieces = {"app", "web", "pve1", "vm", "more", "80", "81", "true", "false", "maybe"}
  Numbers = {"80", "81", "82", "90"}
  MaxNameLength = 2
  KeyOrder <- MCKeyOrder
  DefaultDomain <- Unset
SPECIFICATION Spec
INVARIANTS
  IPLabelOverrides
CHECK_DEADLOCK FALSE

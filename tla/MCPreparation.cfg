\* Notes of up to four lines in all modes; up to four labels of a guest with
\* a plain name, one to be normalized and one that cannot be used.
CONSTANTS
  NoValue = NoValue
  More = "more"
  Inputs <- MCInputs
  Fallback <- MCFallback
  NamePieces = {"app", "web", "pve1", "vm", "more", "80", "81", "true", "false", "maybe"}
  Numbers = {"80", "81", "82", "90"}
  MaxNameLength = 2
  KeyOrder <- MCKeyOrder
  DefaultDomain <- Unset
SPECIFICATION Spec
INVARIANTS
  TypeOK
  LabelsOfTheNote
  NothingLostSilently
  ObjectsAsLabelled
  SetFitsBuilder
  EveryLabelCounts
CHECK_DEADLOCK FALSE

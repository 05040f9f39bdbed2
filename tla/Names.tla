-------------------------------- MODULE Names --------------------------------
(***************************************************************************)
(* Generated names (traefik/generated_names.go).  A name is the sequence   *)
(* of the pieces between its dashes; a piece that is not all letters and   *)
(* digits is dropped.                                                      *)
(***************************************************************************)
EXTENDS Integers, Sequences

CONSTANTS
  NamePieces,    \* the pieces that are letters and digits
  MaxNameLength  \* maxGeneratedNameLength, in pieces

ASSUME NamesAssumption == MaxNameLength \in Nat \ {0}

\* trimGeneratedName
Cut(name, length) == SubSeq(name, 1, IF Len(name) < length THEN Len(name) ELSE length)

\* normalizeGeneratedName, piece by piece
Normalized(name) ==
  LET kept[i \in 0 .. Len(name)] ==
        IF i = 0 THEN <<>>
        ELSE IF name[i] \in NamePieces THEN Append(kept[i - 1], name[i])
        ELSE kept[i - 1]
  IN Cut(kept[Len(name)], MaxNameLength)

\* generatedNameWithSuffix: the base is cut short, never the suffix.
WithSuffix(name, ending) ==
  LET base == Normalized(name)
      suffix == Normalized(ending) IN
  IF suffix = <<>> THEN base
  ELSE IF Len(suffix) >= MaxNameLength THEN suffix
  ELSE Cut(base, MaxNameLength - Len(suffix)) \o suffix
=============================================================================

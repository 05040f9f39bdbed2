--------------------------------- MODULE Glob ---------------------------------
(***************************************************************************)
(* Interface name patterns (proxmox/inventory/scanner/glob.go).  Patterns  *)
(* and names are sequences of characters.                                  *)
(***************************************************************************)
EXTENDS Integers, Sequences

IsText(s) == s \in Seq({s[i] : i \in DOMAIN s})

GlobPartsLazyStar(pattern, value) ==
  LET matched[i \in 0 .. Len(pattern)] ==
        IF i = Len(pattern) THEN {Len(value)}
        ELSE IF pattern[i + 1] = "*"
        THEN {j \in 0 .. Len(value) : \E k \in (j + 1) .. Len(value) : k \in matched[i + 1]}
        ELSE {j \in 0 .. Len(value) - 1 :
                pattern[i + 1] \in {"?", value[j + 1]} /\ j + 1 \in matched[i + 1]}
  IN 0 \in matched[0]

\* matchGlobParts: what is left of the pattern after i characters matches what
\* is left of the value after j, for the j in matched[i].
GlobParts(pattern, value) ==
  LET matched[i \in 0 .. Len(pattern)] ==
        IF i = Len(pattern) THEN {Len(value)}
        ELSE IF pattern[i + 1] = "*"
        THEN {j \in 0 .. Len(value) : \E k \in j .. Len(value) : k \in matched[i + 1]}
        ELSE {j \in 0 .. Len(value) - 1 :
                pattern[i + 1] \in {"?", value[j + 1]} /\ j + 1 \in matched[i + 1]}
  IN 0 \in matched[0]

\* matchGlob
Matches(pattern, value) ==
  /\ pattern # <<>>
  /\ pattern = value \/ GlobParts(pattern, value)

\* What a pattern stands for: the value can be cut into one piece for each
\* character of the pattern, any piece for a star, one character for a
\* question mark, and the same character for any other.
Denotes(pattern, value) ==
  \E cut \in [0 .. Len(pattern) -> 0 .. Len(value)] :
    /\ cut[0] = 0
    /\ cut[Len(pattern)] = Len(value)
    /\ \A i \in 1 .. Len(pattern) :
         IF pattern[i] = "*" THEN cut[i - 1] <= cut[i]
         ELSE /\ cut[i] = cut[i - 1] + 1
              /\ pattern[i] \in {"?", value[cut[i]]}
=============================================================================

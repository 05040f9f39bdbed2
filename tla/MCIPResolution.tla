---------------------------- MODULE MCIPResolution ----------------------------
(* Four kinds of addresses, patterns up to three characters. *)
EXTENDS IPResolution

CONSTANTS four, otherFour, six, loopback

MCAddresses == {four, otherFour, six, loopback}
MCIPv4 == {four, otherFour, loopback}
MCRoutable == {four, otherFour, six}

Eth == <<"e", "0">>
Lan == <<"l", "0", "0">>
Lo  == <<"l">>

I(name, addresses) == [name |-> name, addresses |-> addresses]

MCInterfaceSets == {
  {},
  {I(Lo, {loopback})},
  {I(Eth, {four, six})},
  {I(Eth, {loopback}), I(Lan, {otherFour})},
  {I(Lo, {loopback, six}), I(Eth, {four}), I(Lan, {otherFour, six})}
}

MCPatternSets == {
  {}, {<<"*">>}, {<<"e", "*">>}, {<<"l", "?", "?">>}, {<<"?">>, Eth}, {<<"*", "0">>}, {<<"l", "*", "0">>},
  {<<"e", "*", "0">>, <<"*", "*", "*">>}, {<<"e", "0", "?">>}, {<<"*", "l", "*">>}
}

MCDefaults == {<<"e", "*">>}
=============================================================================

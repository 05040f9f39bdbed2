------------------------------ MODULE ConfigFeed ------------------------------
(***************************************************************************)
(* What the provider promises Traefik: a feed of configurations, received  *)
(* in the order they were published, none lost, none equal to the one      *)
(* before it, and none published once the feed is closed.                  *)
(*                                                                         *)
(* Provider, the model of the polling loop, implements this specification. *)
(***************************************************************************)
EXTENDS Integers, Sequences

CONSTANTS
  Configs,  \* the configurations there may be
  None      \* what Traefik has before the first one

VARIABLES
  queue,    \* published and not received yet
  applied,  \* the last configuration received
  closed    \* nothing more will be published

vars == <<queue, applied, closed>>

Newest == IF queue = <<>> THEN applied ELSE queue[Len(queue)]

Init ==
  /\ queue = <<>>
  /\ applied = None
  /\ closed = FALSE

Publish(c) ==
  /\ ~closed
  /\ c # Newest
  /\ queue' = Append(queue, c)
  /\ UNCHANGED <<applied, closed>>

\* Published to a receiver that is waiting for it.
HandOver(c) ==
  /\ ~closed
  /\ queue = <<>>
  /\ c # Newest
  /\ applied' = c
  /\ UNCHANGED <<queue, closed>>

Deliver ==
  /\ queue # <<>>
  /\ applied' = Head(queue)
  /\ queue' = Tail(queue)
  /\ UNCHANGED closed

Close ==
  /\ ~closed
  /\ closed' = TRUE
  /\ UNCHANGED <<queue, applied>>

Next ==
  \/ \E c \in Configs : Publish(c) \/ HandOver(c)
  \/ Deliver
  \/ Close

Spec == Init /\ [][Next]_vars
=============================================================================

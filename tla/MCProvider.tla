------------------------------ MODULE MCProvider ------------------------------
(* Two messages, one of which may be reported twice by one scan. *)
EXTENDS ProviderLog, TLC

CONSTANTS m1, m2

MCMessages == {m1, m2}
MCReports == {EmptyBag, (m1 :> 1), (m2 :> 1), (m1 :> 2) @@ (m2 :> 1)}
=============================================================================

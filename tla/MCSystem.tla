------------------------------ MODULE MCSystem ------------------------------
(* Small clusters for System: a virtual machine and a container, two nodes. *)
EXTENDS System

CONSTANTS vm, ct, n1, n2

MCGuests == {vm, ct}
MCVMs == {vm}
MCNodeList == <<n1, n2>>
MCNoNodes == <<>>
MCOneNode == <<n1>>
MCInitialHome == (vm :> n1) @@ (ct :> n2)
=============================================================================

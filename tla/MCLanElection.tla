--------------------------- MODULE MCLanElection ---------------------------
(* Instances of LanElection for TLC. *)
EXTENDS LanElection

CONSTANTS h1, h2

Hosts2 == {h1, h2}
InOrder == [h \in Hosts2 |-> IF h = h1 THEN 0 ELSE 1]
=============================================================================

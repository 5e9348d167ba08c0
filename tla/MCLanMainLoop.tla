--------------------------- MODULE MCLanMainLoop ---------------------------
(* Instances of LanMainLoop for TLC. *)
EXTENDS LanMainLoop

CONSTANTS h1, h2

Hosts2 == {h1, h2}
InOrder == [h \in Hosts2 |-> IF h = h1 THEN 0 ELSE 1]
=============================================================================

--------------------------- MODULE MCDesktopFeed ----------------------------
(* Instances of DesktopFeed for TLC. *)
EXTENDS DesktopFeed

CONSTANT c1

OneCall == {c1}
=============================================================================

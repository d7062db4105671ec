-------------------------- MODULE MCDesktopStorage --------------------------
(* Instances of DesktopStorage for TLC. *)
EXTENDS DesktopStorage

CONSTANT root

Unnamed == {root}
=============================================================================

--------------------------- MODULE MCLookingGlass ---------------------------
(* Small instances of the Looking Glass API for TLC. *)
EXTENDS LookingGlass
=============================================================================

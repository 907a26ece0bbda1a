--------------------------- MODULE MCResponsePath ---------------------------
(* Instances of ResponsePath for TLC. *)
EXTENDS ResponsePath

=============================================================================

--------------------------- MODULE MCSessionServer ---------------------------
(* Finite instances of SessionServer for TLC. *)
EXTENDS SessionServer, TLC

\* Every file operation may fail, or only the syncs of directories.
AllOperations == Operation
OnlySync == {"sync"}
=============================================================================

--------------------------- MODULE MCServiceMemory ---------------------------
(* An instance of ServiceMemory for TLC. *)
EXTENDS ServiceMemory, TLC

(* "auto", and a limit that lies below or above what is owned. *)
MCRequests == {None, 3}

Symmetric == Permutations(Handle) \cup Permutations(Class)

=============================================================================

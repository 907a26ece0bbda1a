---------------------------- MODULE MCScheduler ----------------------------
(* Finite instances of Scheduler for TLC. *)
EXTENDS Scheduler, TLC

Shape(arrival, prompt, prefix, output, priority, deadline) ==
  [arrival_ns |-> arrival, prompt_tokens |-> prompt, prefix_reused_tokens |-> prefix,
   max_output_tokens |-> output, priority |-> priority, deadline_ns |-> deadline]

\* A request whose four tokens take two pages of three; a short, preferred one
\* with a reused prompt and a deadline; and one with an invalid priority.
Shapes ==
  {Shape(0, 2, 1, 2, 1, NoDeadline), Shape(0, 1, 1, 1, 2, 1),
   Shape(0, 1, 0, 2, 0, NoDeadline)}

IdSymmetry == Permutations(RequestId)
=============================================================================

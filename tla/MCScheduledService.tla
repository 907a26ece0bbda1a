------------------------ MODULE MCScheduledService ------------------------
(* Finite instances of ScheduledService for TLC. *)
EXTENDS ScheduledService

Shape(prompt, prefix, output, priority, deadline) ==
  [arrival_ns |-> 0, prompt_tokens |-> prompt, prefix_reused_tokens |-> prefix,
   max_output_tokens |-> output, priority |-> priority, deadline_ns |-> deadline]

\* One request with a prompt to evaluate, one that starts at decode and has a
\* deadline, and one that is rejected.
Shapes == {Shape(1, 0, 2, 1, NoDeadline), Shape(1, 1, 1, 2, 1), Shape(1, 0, 1, 0, NoDeadline)}

Decode(n, eos, cancelled) ==
  [tokens |-> n, eos |-> eos, cancelled |-> cancelled, prefill |-> NoPrefill]

Prefill(n, ready, cancelled) ==
  [tokens |-> 0, eos |-> FALSE, cancelled |-> cancelled,
   prefill |-> [processed_tokens |-> n, ready |-> ready]]

\* Progress, the end of a sequence, cancellation, no progress, too much.
ExecutorOutputs ==
  {Decode(1, FALSE, FALSE), Decode(0, TRUE, FALSE), Decode(1, FALSE, TRUE), Decode(0, FALSE, FALSE),
   Decode(2, FALSE, FALSE), Decode(3, FALSE, FALSE),
   Prefill(1, FALSE, FALSE), Prefill(0, TRUE, FALSE), Prefill(0, FALSE, TRUE), Prefill(0, FALSE, FALSE)}
=============================================================================

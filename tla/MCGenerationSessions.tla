------------------------ MODULE MCGenerationSessions ------------------------
(* An instance of GenerationSessions for TLC. *)
EXTENDS GenerationSessions, TLC

(* A prompt and one that continues it. *)
MCPrompts == {<<1>>, <<1, 2>>}

(* The drafter proposes a token the sampler does not return. *)
MCDrafts == {<<1>>}

(* A backend with decode graphs and chunked prefill, whose requests are    *)
(* long enough to speculate; and one without, with sequential prefill and  *)
(* room for one more storage, whose sessions hibernate.                    *)
MCProfiles ==
    {[graphs |-> TRUE, hibernates |-> FALSE, chunk |-> 2, storages |-> 2, longest |-> 3],
     [graphs |-> FALSE, hibernates |-> TRUE, chunk |-> 0, storages |-> 3, longest |-> 1]}

Sessions == Permutations(Session)

=============================================================================

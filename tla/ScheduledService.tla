-------------------------- MODULE ScheduledService --------------------------
(***************************************************************************)
(* crates/leone/src/service.rs (ScheduledService): bounded admission and   *)
(* scheduling connected to a quantum executor that may fail.               *)
(*                                                                         *)
(* Every method takes &mut self, so nothing interleaves with a call.  A    *)
(* call still has many steps, each a call into the scheduler or into the   *)
(* executor; phase says where the current call stands, and the steps of a  *)
(* call are the actions enabled in its phases.  Members of a batch are     *)
(* aborted and committed in any order, which includes dispatch order.      *)
(*                                                                         *)
(* An executor's finish may return an error.  Both executors of the        *)
(* repository drop their state for the request before they can fail, and   *)
(* the service only reports the error, so it leaves no trace in the state. *)
(***************************************************************************)
EXTENDS Scheduler

CONSTANTS
  QuantumOutput,   \* what an executor may return for one dispatch
  NoPrefill        \* QuantumOutput.prefill = None

\* Nothing is assumed of an executor's output but the types of its fields.
ASSUME OutputAssumption ==
  /\ QuantumOutput \subseteq
       [tokens : Nat, eos : BOOLEAN, cancelled : BOOLEAN,
        prefill : [processed_tokens : Nat, ready : BOOLEAN] \cup {NoPrefill}]
  /\ NoPrefill \notin [processed_tokens : Nat, ready : BOOLEAN]

VARIABLES
  phase,           \* where the call in progress stands; "Idle" between calls
  beginning,       \* ids admitted whose executor.begin has not returned
  executor,        \* ids the executor holds state for
  outputs,         \* partial function: id -> number of retained output tokens
  produced,        \* the executor's validated outputs, by id, while they commit
  unknown_finishes \* history: ids finished while the executor held no state for them

service_vars == <<phase, beginning, executor, outputs, produced, unknown_finishes>>

all_vars == <<vars, service_vars>>

EmptyFunction == [id \in {} |-> 0]

\* executor.finish for the ids in S; one without executor state is an error.
ExecutorFinish(S) ==
  /\ executor' = executor \ S
  /\ unknown_finishes' = unknown_finishes \cup (S \ executor)

-----------------------------------------------------------------------------
(* admit *)

AdmitRequest(id, spec) ==
  /\ phase = "Idle"
  /\ Admit(id, spec)
  /\ IF requests'[id].status = "Queued"
     THEN phase' = "Begin" /\ beginning' = {id}
     ELSE UNCHANGED <<phase, beginning>>
  /\ UNCHANGED <<executor, outputs, produced, unknown_finishes>>

BeginSucceeds(id) ==
  /\ phase = "Begin"
  /\ id \in beginning
  /\ id \notin executor                  \* a leftover state is an error of begin
  /\ executor' = executor \cup {id}
  /\ outputs' = Insert(outputs, id, 0)
  /\ beginning' = {}
  /\ phase' = "Idle"
  /\ UNCHANGED <<vars, produced, unknown_finishes>>

\* Mutant: the record is dropped instead of cancelled.
BeginFailsForgets(id) ==
  /\ phase = "Begin"
  /\ id \in beginning
  /\ requests' = Remove(requests, id)
  /\ UNCHANGED <<running, expired, reserved_kv_bytes, next_sequence, stats, now_ns>>
  /\ beginning' = {}
  /\ phase' = "Idle"
  /\ UNCHANGED <<executor, outputs, produced, unknown_finishes>>

\* The admission reserved KV bytes; they are given back.
BeginFails(id) ==
  /\ phase = "Begin"
  /\ id \in beginning
  /\ CancelQueued(id)
  /\ beginning' = {}
  /\ phase' = "Idle"
  /\ UNCHANGED <<executor, outputs, produced, unknown_finishes>>

-----------------------------------------------------------------------------
(* tick_batch *)

TickDispatch(limit) ==
  /\ phase = "Idle"
  /\ DispatchBatch(limit)
  /\ phase' = "Expire"
  /\ UNCHANGED <<beginning, executor, outputs, produced, unknown_finishes>>

\* Mutant: expired requests are taken and the executor is not told.
ExpiredNotFinished ==
  /\ phase = "Expire"
  /\ expired' = {}
  /\ UNCHANGED <<requests, running, reserved_kv_bytes, next_sequence, stats, now_ns>>
  /\ phase' = IF DOMAIN running = {} THEN "Idle" ELSE "Execute"
  /\ UNCHANGED <<beginning, executor, outputs, produced, unknown_finishes>>

\* finish_expired_requests; an empty batch ends the tick.
FinishExpiredRequests ==
  /\ phase = "Expire"
  /\ expired' = {}
  /\ UNCHANGED <<requests, running, reserved_kv_bytes, next_sequence, stats, now_ns>>
  /\ ExecutorFinish(expired)
  /\ phase' = IF DOMAIN running = {} THEN "Idle" ELSE "Execute"
  /\ UNCHANGED <<beginning, outputs, produced>>

InvalidPrefillOutput(dispatch, output) ==
  \/ output.prefill = NoPrefill
  \/ output.tokens # 0
  \/ output.prefill.processed_tokens > dispatch.token_budget
  \/ output.prefill.processed_tokens = 0 /\ ~output.prefill.ready /\ ~output.cancelled

\* Mutant: a decode quantum without progress is accepted.
AcceptsNoProgress(dispatch, output) == output.prefill # NoPrefill

InvalidDecodeOutput(dispatch, output) ==
  \/ output.prefill # NoPrefill
  \/ output.tokens = 0 /\ ~output.eos /\ ~output.cancelled

\* over_budget_output and invalid_output_phase find nothing to object to.
ValidOutput(dispatch, output) ==
  /\ output.tokens <= dispatch.token_budget
  /\ IF dispatch.kind = "Prefill" THEN ~InvalidPrefillOutput(dispatch, output)
                                  ELSE ~InvalidDecodeOutput(dispatch, output)

\* One output per dispatch; the whole batch is refused for one bad output.
ExecuteBatch ==
  /\ phase = "Execute"
  /\ \E outs \in [DOMAIN running -> QuantumOutput] :
       IF \A id \in DOMAIN running : ValidOutput(running[id], outs[id])
       THEN phase' = "Commit" /\ produced' = outs
       ELSE phase' = "Abort" /\ UNCHANGED produced
  /\ UNCHANGED <<vars, beginning, executor, outputs, unknown_finishes>>

\* execute_batch returns an error, or the wrong number of outputs.
ExecuteBatchFails ==
  /\ phase = "Execute"
  /\ phase' = "Abort"
  /\ UNCHANGED <<vars, beginning, executor, outputs, produced, unknown_finishes>>

\* One turn of abort_batch's loop; the last one ends the tick.
AbortMember(id) ==
  /\ phase = "Abort"
  /\ AbortQuantum(id)
  /\ ExecutorFinish({id})
  /\ phase' = IF DOMAIN running' = {} THEN "Idle" ELSE "Abort"
  /\ UNCHANGED <<beginning, outputs, produced>>

QuantumProgress(dispatch, output) ==
  IF dispatch.kind = "Prefill" THEN output.prefill.processed_tokens ELSE output.tokens

PrefillReady(output) == IF output.prefill = NoPrefill THEN FALSE ELSE output.prefill.ready

\* commit_quantum first cancels the request if the executor saw it cancelled ...
CommitCancelled(id) ==
  /\ phase = "Commit"
  /\ id \in DOMAIN produced
  /\ produced[id].cancelled
  /\ ~requests[id].cancellation_requested
  /\ CancelRunning(id)
  /\ UNCHANGED service_vars

\* ... then completes the quantum, keeps its tokens, and finishes a terminal one.
CommitQuantum(id) ==
  /\ phase = "Commit"
  /\ id \in DOMAIN produced
  /\ produced[id].cancelled => requests[id].cancellation_requested
  /\ CompleteQuantum(id, produced[id].tokens, QuantumProgress(running[id], produced[id]),
                     PrefillReady(produced[id]), produced[id].eos)
  /\ outputs' = [outputs EXCEPT ![id] = @ + produced[id].tokens]
  /\ IF requests'[id].status \in TerminalStatus
     THEN ExecutorFinish({id})
     ELSE UNCHANGED <<executor, unknown_finishes>>
  /\ produced' = Remove(produced, id)
  /\ phase' = IF DOMAIN running' = {} THEN "Idle" ELSE "Commit"
  /\ UNCHANGED beginning

-----------------------------------------------------------------------------
(* cancel and prune_terminal *)

\* No request is Running between calls, so only a queued one can be cancelled.
CancelRequest(id) ==
  /\ phase = "Idle"
  /\ CancelQueued(id)
  /\ ExecutorFinish({id})
  /\ UNCHANGED <<phase, beginning, outputs, produced>>

\* Mutant: the output copies are kept.
PruneKeepsOutputs ==
  /\ phase = "Idle"
  /\ PruneTerminal
  /\ UNCHANGED service_vars

PruneTerminalRequests ==
  /\ phase = "Idle"
  /\ PruneTerminal
  /\ outputs' = [id \in DOMAIN outputs \cap Live |-> outputs[id]]
  /\ UNCHANGED <<phase, beginning, executor, produced, unknown_finishes>>

ClockTick == AdvanceClock /\ UNCHANGED service_vars

-----------------------------------------------------------------------------
(* The specification *)

ServiceInit ==
  /\ Init
  /\ phase = "Idle"
  /\ beginning = {}
  /\ executor = {}
  /\ outputs = EmptyFunction
  /\ produced = EmptyFunction
  /\ unknown_finishes = {}

TickStep ==
  \/ TickDispatch(MaxBatchRequests)
  \/ FinishExpiredRequests
  \/ ExecuteBatch
  \/ ExecuteBatchFails
  \/ \E id \in DOMAIN running : AbortMember(id) \/ CommitCancelled(id) \/ CommitQuantum(id)

ServiceNext ==
  \/ \E id \in RequestId, spec \in RequestSpec : AdmitRequest(id, spec)
  \/ \E id \in beginning : BeginSucceeds(id) \/ BeginFails(id)
  \/ TickStep
  \/ TickDispatch(1)                     \* tick
  \/ \E id \in DOMAIN requests : CancelRequest(id)
  \/ PruneTerminalRequests
  \/ ClockTick

ServiceSpec == ServiceInit /\ [][ServiceNext]_all_vars

\* A call that has begun returns: the executor answers, and the service's loops
\* run to their end.  The serve loop of leone-cli calls tick_batch whenever a
\* request is runnable, so ticks do not stop either.
ServiceFairness ==
  /\ WF_all_vars(TickStep)
  /\ WF_all_vars(\E id \in beginning : BeginSucceeds(id) \/ BeginFails(id))

FairServiceSpec == ServiceSpec /\ ServiceFairness

-----------------------------------------------------------------------------
(* Properties *)

\* The type invariant of the service and of the scheduler inside it.
ServiceTypeOK ==
  /\ TypeOK
  /\ phase \in {"Idle", "Begin", "Expire", "Execute", "Commit", "Abort"}
  /\ beginning \subseteq RequestId
  /\ executor \subseteq RequestId
  /\ DOMAIN outputs \subseteq RequestId
  /\ outputs \in [DOMAIN outputs -> Nat]
  /\ DOMAIN produced \subseteq RequestId
  /\ produced \in [DOMAIN produced -> QuantumOutput]
  /\ unknown_finishes \subseteq RequestId

\* The executor holds state for exactly the requests that still need it: those
\* that are live and begun, and those expired by the dispatch of this tick whose
\* finish is the next step.  Nothing leaks when a batch fails half way and no
\* live request loses its session; finish is never called for a request the
\* executor does not know, whatever combination of expiry, abort, cancel and
\* completion ends it; and between calls nothing is in flight, which would fail
\* every later tick with DispatchInFlight.
ExecutorMatchesScheduler ==
  /\ executor = (Live \ beginning) \cup expired
  /\ unknown_finishes = {}
  /\ phase \in {"Idle", "Begin"} => DOMAIN running = {} /\ expired = {}
  /\ phase = "Commit" => DOMAIN produced = DOMAIN running

\* The tokens a caller can read for a request are those the scheduler counted.
OutputsMatchEmitted ==
  /\ Live \ beginning \subseteq DOMAIN outputs
  /\ \A id \in DOMAIN outputs :
       id \in DOMAIN requests /\ outputs[id] = requests[id].emitted_tokens

\* Every admitted request ends: the validation of executor outputs leaves no
\* quantum without progress, so none can be requeued forever.
EveryRequestEnds == \A id \in RequestId : (id \in Live) ~> (id \notin Live)

=============================================================================

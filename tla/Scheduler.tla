----------------------------- MODULE Scheduler -----------------------------
(***************************************************************************)
(* The continuous batching scheduler, crates/leone/src/scheduler.rs        *)
(* (ContinuousScheduler).  It admits requests against a KV byte budget,    *)
(* hands out bounded prefill and decode quanta in deadline / virtual       *)
(* runtime order, and accounts for every way a request can end.            *)
(*                                                                         *)
(* The scheduler is a plain data structure: every operation is one method  *)
(* call with exclusive access, so every operation is one action.  A call   *)
(* that returns Err before it changes anything is a disabled action.  The  *)
(* time that callers pass to admit and dispatch_batch is the variable      *)
(* now_ns; the caller reads a monotonic clock.                             *)
(***************************************************************************)
EXTENDS Integers, FiniteSets

CONSTANTS
  RequestId,              \* identities of requests (u64 in the code)
  RequestSpec,            \* the request shapes a caller may submit
  NoDeadline,             \* RequestSpec.deadline_ns = None
  MaxActiveRequests, MaxQueuedRequests, MaxBatchRequests,
  MaxReservedKvBytes, KvBytesPerToken, KvPageTokens,
  MaxPromptTokens, MaxOutputTokens,
  ServiceQuantumTokens, PrefillChunkTokens,
  UrgentWindowNs, MaxPrefixCreditTokens,
  MaxAdmissions,          \* bound: calls of admit that reach insert_request
  MaxTime                 \* bound: largest value of the clock

\* What SchedulerPolicy::validate demands, for the policy fields it checks.
ASSUME PolicyAssumption ==
  /\ {MaxActiveRequests, MaxQueuedRequests, MaxBatchRequests} \subseteq Nat \ {0}
  /\ {MaxReservedKvBytes, KvBytesPerToken, KvPageTokens} \subseteq Nat \ {0}
  /\ {MaxPromptTokens, MaxOutputTokens} \subseteq Nat \ {0}
  /\ {ServiceQuantumTokens, PrefillChunkTokens} \subseteq Nat \ {0}
  /\ {UrgentWindowNs, MaxPrefixCreditTokens} \subseteq Nat

ASSUME BoundAssumption == MaxAdmissions \in Nat /\ MaxTime \in Nat

ASSUME IdAssumption == IsFiniteSet(RequestId)

\* Nothing is assumed of a submitted request but the types of its fields.
ASSUME SpecAssumption ==
  /\ NoDeadline \notin Nat
  /\ RequestSpec \subseteq [arrival_ns : Nat, prompt_tokens : Nat,
                            prefix_reused_tokens : Nat, max_output_tokens : Nat,
                            priority : Nat, deadline_ns : Nat \cup {NoDeadline}]

VARIABLES
  requests,           \* partial function: RequestId -> RequestState
  running,            \* partial function: RequestId -> Dispatch in flight
  expired,            \* ids expired by dispatch_batch and not yet taken
  reserved_kv_bytes,  \* the scheduler's own total, kept beside the records
  next_sequence,
  stats,
  now_ns

vars == <<requests, running, expired, reserved_kv_bytes, next_sequence, stats, now_ns>>

-----------------------------------------------------------------------------
(* Statuses and counts *)

TerminalStatus == {"Finished", "Cancelled", "DeadlineExpired", "Rejected"}

RequestStatus == {"Queued", "Running"} \cup TerminalStatus

WithStatus(rs, S) == {id \in DOMAIN rs : rs[id].status \in S}

Queued == WithStatus(requests, {"Queued"})

Live == WithStatus(requests, RequestStatus \ TerminalStatus)

MinOf(a, b) == IF a <= b THEN a ELSE b

MaxOf(a, b) == IF a >= b THEN a ELSE b

\* KV bytes held by the requests in S, counted byte by byte: the cardinality of
\* a union of disjoint sets, one per request, each as large as its reservation.
ReservedUnits(rs, S) == UNION {{id} \X (1..rs[id].reserved_kv_bytes) : id \in S}

ReservedSum(rs, S) == Cardinality(ReservedUnits(rs, S))

-----------------------------------------------------------------------------
(* Admission *)

\* Page-rounded KV bytes; reused prefix tokens already occupy KV.
ReservationBytes(spec) ==
  LET tokens == (spec.prompt_tokens - spec.prefix_reused_tokens) + spec.max_output_tokens
      pages  == (tokens + (KvPageTokens - 1)) \div KvPageTokens
  IN  pages * KvPageTokens * KvBytesPerToken

DeadlinePassed(spec) == spec.deadline_ns # NoDeadline /\ spec.deadline_ns <= now_ns

BasicAdmissionRejection(spec) ==
  IF spec.prefix_reused_tokens > spec.prompt_tokens THEN "InvalidPrefix"
  ELSE IF spec.prompt_tokens > MaxPromptTokens THEN "PromptLimit"
  ELSE IF spec.max_output_tokens = 0 \/ spec.max_output_tokens > MaxOutputTokens THEN "OutputLimit"
  ELSE IF spec.priority = 0 \/ spec.priority > 100 THEN "InvalidPriority"
  ELSE IF DeadlinePassed(spec) THEN "ExpiredDeadline"
  ELSE "None"

AdmissionRejection(spec) ==
  IF BasicAdmissionRejection(spec) # "None" THEN BasicAdmissionRejection(spec)
  ELSE IF Cardinality(Live) >= MaxActiveRequests THEN "ActiveLimit"
  ELSE IF Cardinality(Queued) >= MaxQueuedRequests THEN "QueueLimit"
  ELSE IF reserved_kv_bytes + ReservationBytes(spec) > MaxReservedKvBytes THEN "KvCapacity"
  ELSE "None"

\* A newcomer starts level with the furthest-behind live request ...
BaseRuntime ==
  IF Live = {} THEN 0
  ELSE LET runtimes == {requests[id].virtual_runtime : id \in Live}
       IN  CHOOSE v \in runtimes : \A w \in runtimes : v <= w

\* ... less a credit for the prefix it does not have to evaluate.
PrefixCredit(spec) ==
  (MinOf(spec.prefix_reused_tokens, MaxPrefixCreditTokens) * 1024) \div MaxOf(spec.priority, 1)

SaturatingSub(a, b) == IF a >= b THEN a - b ELSE 0

\* insert_request: also a rejected request gets a record and a sequence number.
NewRequest(spec, rejected) ==
  [spec                     |-> spec,
   status                   |-> IF rejected THEN "Rejected" ELSE "Queued",
   reserved_kv_bytes        |-> IF rejected THEN 0 ELSE ReservationBytes(spec),
   remaining_prefill_tokens |-> IF rejected THEN 0
                                ELSE spec.prompt_tokens - spec.prefix_reused_tokens,
   remaining_tokens         |-> spec.max_output_tokens,
   emitted_tokens           |-> 0,
   virtual_runtime          |-> SaturatingSub(BaseRuntime, PrefixCredit(spec)),
   sequence                 |-> next_sequence,
   cancellation_requested   |-> FALSE]

\* f with x mapped to v, whether or not x was in the domain.
Insert(f, x, v) == [y \in DOMAIN f \cup {x} |-> IF y = x THEN v ELSE f[y]]

Remove(f, x) == [y \in DOMAIN f \ {x} |-> f[y]]

Admit(id, spec) ==
  LET rejected == AdmissionRejection(spec) # "None"
      total    == reserved_kv_bytes + ReservationBytes(spec)
  IN  /\ id \notin DOMAIN requests             \* else DuplicateRequest
      /\ spec.arrival_ns <= now_ns             \* else FutureArrival
      /\ next_sequence < MaxAdmissions
      /\ requests' = Insert(requests, id, NewRequest(spec, rejected))
      /\ next_sequence' = next_sequence + 1
      /\ reserved_kv_bytes' = IF rejected THEN reserved_kv_bytes ELSE total
      /\ stats' = IF rejected
                  THEN [stats EXCEPT !.rejected_requests = @ + 1]
                  ELSE [stats EXCEPT !.admitted_requests = @ + 1,
                                     !.max_reserved_kv_bytes = MaxOf(@, total)]
      /\ UNCHANGED <<running, expired, now_ns>>

-----------------------------------------------------------------------------
(* Dispatch *)

\* Mutant: the record keeps its reservation.
ReleasedKeepsBytes(state, status) == [state EXCEPT !.status = status]

\* A record whose request ends: the reservation is given back.
Released(state, status) == [state EXCEPT !.status = status, !.reserved_kv_bytes = 0]

Urgent(state) ==
  /\ state.spec.deadline_ns # NoDeadline
  /\ state.spec.deadline_ns <= now_ns + UrgentWindowNs

UrgentBefore(l, r) ==
  \/ l.spec.deadline_ns < r.spec.deadline_ns
  \/ /\ l.spec.deadline_ns = r.spec.deadline_ns
     /\ \/ l.virtual_runtime < r.virtual_runtime
        \/ l.virtual_runtime = r.virtual_runtime /\ l.sequence < r.sequence

OrdinaryBefore(l, r) ==
  \/ l.virtual_runtime < r.virtual_runtime
  \/ /\ l.virtual_runtime = r.virtual_runtime
     /\ \/ l.spec.priority > r.spec.priority
        \/ l.spec.priority = r.spec.priority /\ l.sequence < r.sequence

\* compare_requests(l, r) = Less
Before(l, r) ==
  IF Urgent(l) # Urgent(r) THEN Urgent(l)
  ELSE IF Urgent(l) THEN UrgentBefore(l, r) ELSE OrdinaryBefore(l, r)

\* Mutant: one request too many.
SelectOneTooMany(candidates, limit) ==
  {id \in candidates :
     Cardinality({o \in candidates : Before(requests[o], requests[id])}) <= limit}

\* The ids that sorting the candidates and taking the first `limit` yields.
SelectBatchIds(candidates, limit) ==
  {id \in candidates :
     Cardinality({o \in candidates : Before(requests[o], requests[id])}) < limit}

\* Mutant: a decode budget is not cut to the tokens that remain.
DispatchWholeQuantum(state) ==
  IF state.remaining_prefill_tokens > 0
  THEN [kind |-> "Prefill",
        token_budget |-> MinOf(state.remaining_prefill_tokens, PrefillChunkTokens)]
  ELSE [kind |-> "Decode", token_budget |-> ServiceQuantumTokens]

\* start_batch, for one selected request.
DispatchOf(state) ==
  IF state.remaining_prefill_tokens > 0
  THEN [kind |-> "Prefill",
        token_budget |-> MinOf(state.remaining_prefill_tokens, PrefillChunkTokens)]
  ELSE [kind |-> "Decode",
        token_budget |-> MinOf(state.remaining_tokens, ServiceQuantumTokens)]

\* expire_deadlines takes the queued requests whose deadline has passed.
ExpiredNow == {id \in Queued : DeadlinePassed(requests[id].spec)}

DispatchBatch(limit) ==
  LET late     == ExpiredNow
      selected == SelectBatchIds(Queued \ late, MinOf(limit, MaxBatchRequests))
  IN  /\ DOMAIN running = {}                   \* else DispatchInFlight
      /\ limit # 0
      /\ requests' = [id \in DOMAIN requests |->
                        IF id \in late THEN Released(requests[id], "DeadlineExpired")
                        ELSE IF id \in selected THEN [requests[id] EXCEPT !.status = "Running"]
                        ELSE requests[id]]
      /\ running' = [id \in selected |-> DispatchOf(requests[id])]
      /\ expired' = expired \cup late
      /\ reserved_kv_bytes' = reserved_kv_bytes - ReservedSum(requests, late)
      /\ stats' = [stats EXCEPT !.expired_requests = @ + Cardinality(late)]
      /\ UNCHANGED <<next_sequence, now_ns>>

TakeExpiredDeadlines ==
  /\ expired # {}
  /\ expired' = {}
  /\ UNCHANGED <<requests, running, reserved_kv_bytes, next_sequence, stats, now_ns>>

-----------------------------------------------------------------------------
(* Completion, abort and cancellation *)

\* Mutant: the budget is not checked.
ValidAnyAmount(dispatch, emitted, progress) ==
  /\ dispatch.kind = "Prefill" => emitted = 0
  /\ dispatch.kind = "Decode" => progress = emitted

\* validate_quantum_completion accepts the executor's numbers.
ValidCompletion(dispatch, emitted, progress) ==
  /\ emitted <= dispatch.token_budget
  /\ progress <= dispatch.token_budget
  /\ dispatch.kind = "Prefill" => emitted = 0
  /\ dispatch.kind = "Decode" => progress = emitted

CeilDiv(a, b) == (a + b - 1) \div b

\* apply_prefill_progress and apply_decode_progress, then the virtual runtime.
ApplyProgress(state, dispatch, emitted, progress, ready) ==
  LET charged == [state EXCEPT !.virtual_runtime =
                                 @ + CeilDiv(progress * 1024, state.spec.priority)]
  IN  IF dispatch.kind = "Prefill"
      THEN [charged EXCEPT !.remaining_prefill_tokens = IF ready THEN 0 ELSE @ - progress]
      ELSE [charged EXCEPT !.remaining_tokens = @ - emitted, !.emitted_tokens = @ + emitted]

\* Mutant: only an end-of-sequence finishes a request.
StatusIgnoresAllowance(state, dispatch, eos) ==
  IF state.cancellation_requested THEN "Cancelled"
  ELSE IF dispatch.kind = "Decode" /\ eos THEN "Finished"
  ELSE "Queued"

\* Mutant: a cancelled request that also reaches its end is reported Finished.
StatusFinishesFirst(state, dispatch, eos) ==
  IF dispatch.kind = "Decode" /\ (eos \/ state.remaining_tokens = 0) THEN "Finished"
  ELSE IF state.cancellation_requested THEN "Cancelled"
  ELSE "Queued"

\* apply_quantum_status, on the record that ApplyProgress returned.
QuantumStatus(state, dispatch, eos) ==
  IF state.cancellation_requested THEN "Cancelled"
  ELSE IF dispatch.kind = "Decode" /\ (eos \/ state.remaining_tokens = 0) THEN "Finished"
  ELSE "Queued"

CompleteQuantum(id, emitted, progress, ready, eos) ==
  LET dispatch == running[id]
      state    == ApplyProgress(requests[id], dispatch, emitted, progress, ready)
      status   == QuantumStatus(state, dispatch, eos)
      terminal == status \in TerminalStatus
  IN  /\ id \in DOMAIN running                 \* else NotRunning
      /\ ValidCompletion(dispatch, emitted, progress)
      /\ requests' = [requests EXCEPT ![id] =
                        IF terminal THEN Released(state, status)
                        ELSE [state EXCEPT !.status = status]]
      /\ reserved_kv_bytes' =
           IF terminal THEN reserved_kv_bytes - state.reserved_kv_bytes ELSE reserved_kv_bytes
      /\ running' = Remove(running, id)
      /\ stats' = [stats EXCEPT
                     !.completed_requests = IF status = "Finished" THEN @ + 1 ELSE @,
                     !.cancelled_requests = IF status = "Cancelled" THEN @ + 1 ELSE @,
                     !.max_cancellation_overshoot_tokens =
                        IF status = "Cancelled" THEN MaxOf(@, emitted) ELSE @]
      /\ UNCHANGED <<expired, next_sequence, now_ns>>

\* Mutant: the dispatch stays in flight.
AbortKeepsDispatch(id) ==
  /\ id \in DOMAIN running
  /\ requests' = [requests EXCEPT ![id] =
                    [Released(@, "Cancelled") EXCEPT !.cancellation_requested = FALSE]]
  /\ reserved_kv_bytes' = reserved_kv_bytes - requests[id].reserved_kv_bytes
  /\ stats' = [stats EXCEPT !.cancelled_requests = @ + 1]
  /\ UNCHANGED <<running, expired, next_sequence, now_ns>>

AbortQuantum(id) ==
  /\ id \in DOMAIN running                     \* else NotRunning
  /\ requests' = [requests EXCEPT ![id] =
                    [Released(@, "Cancelled") EXCEPT !.cancellation_requested = FALSE]]
  /\ reserved_kv_bytes' = reserved_kv_bytes - requests[id].reserved_kv_bytes
  /\ stats' = [stats EXCEPT !.cancelled_requests = @ + 1]
  /\ running' = Remove(running, id)
  /\ UNCHANGED <<expired, next_sequence, now_ns>>

\* Mutant: the cancellation is not counted.
CancelUncounted(id) ==
  /\ id \in Queued
  /\ requests' = [requests EXCEPT ![id] = Released(@, "Cancelled")]
  /\ reserved_kv_bytes' = reserved_kv_bytes - requests[id].reserved_kv_bytes
  /\ UNCHANGED <<running, expired, next_sequence, stats, now_ns>>

\* A queued request ends at once; a running one is marked and ends with its quantum.
CancelQueued(id) ==
  /\ id \in Queued
  /\ requests' = [requests EXCEPT ![id] = Released(@, "Cancelled")]
  /\ reserved_kv_bytes' = reserved_kv_bytes - requests[id].reserved_kv_bytes
  /\ stats' = [stats EXCEPT !.cancelled_requests = @ + 1]
  /\ UNCHANGED <<running, expired, next_sequence, now_ns>>

\* Mutant: any request that is not queued is marked, ended ones too.
CancelMarksAny(id) ==
  /\ id \in DOMAIN requests \ Queued
  /\ requests' = [requests EXCEPT ![id].cancellation_requested = TRUE]
  /\ UNCHANGED <<running, expired, reserved_kv_bytes, next_sequence, stats, now_ns>>

CancelRunning(id) ==
  /\ id \in WithStatus(requests, {"Running"})
  /\ requests' = [requests EXCEPT ![id].cancellation_requested = TRUE]
  /\ UNCHANGED <<running, expired, reserved_kv_bytes, next_sequence, stats, now_ns>>

PruneTerminal ==
  /\ requests' = [id \in Live |-> requests[id]]
  /\ UNCHANGED <<running, expired, reserved_kv_bytes, next_sequence, stats, now_ns>>

-----------------------------------------------------------------------------
(* The specification *)

ZeroStats ==
  [admitted_requests |-> 0, rejected_requests |-> 0, completed_requests |-> 0,
   cancelled_requests |-> 0, expired_requests |-> 0, max_reserved_kv_bytes |-> 0,
   max_cancellation_overshoot_tokens |-> 0]

Init ==
  /\ requests = [id \in {} |-> 0]
  /\ running = [id \in {} |-> 0]
  /\ expired = {}
  /\ reserved_kv_bytes = 0
  /\ next_sequence = 0
  /\ stats = ZeroStats
  /\ now_ns = 0

\* What a caller may report for a quantum, within its budget or not.
TokenCount == 0..MaxOf(MaxOutputTokens, MaxPromptTokens)

AdvanceClock ==
  /\ now_ns < MaxTime
  /\ now_ns' = now_ns + 1
  /\ UNCHANGED <<requests, running, expired, reserved_kv_bytes, next_sequence, stats>>

Next ==
  \/ \E id \in RequestId, spec \in RequestSpec : Admit(id, spec)
  \/ \E limit \in 1..MaxBatchRequests : DispatchBatch(limit)
  \/ \E id \in DOMAIN running, emitted, progress \in TokenCount, ready, eos \in BOOLEAN :
       CompleteQuantum(id, emitted, progress, ready, eos)
  \/ \E id \in DOMAIN running : AbortQuantum(id)
  \/ \E id \in DOMAIN requests : CancelQueued(id)
  \/ \E id \in DOMAIN requests : CancelRunning(id)
  \/ TakeExpiredDeadlines
  \/ PruneTerminal
  \/ AdvanceClock

Spec == Init /\ [][Next]_vars

-----------------------------------------------------------------------------
(* Properties *)

RequestState ==
  [spec : RequestSpec, status : RequestStatus, reserved_kv_bytes : Nat,
   remaining_prefill_tokens : Nat, remaining_tokens : Nat, emitted_tokens : Nat,
   virtual_runtime : Nat, sequence : Nat, cancellation_requested : BOOLEAN]

Dispatch == [kind : {"Prefill", "Decode"}, token_budget : Nat]

Stats ==
  [admitted_requests : Nat, rejected_requests : Nat, completed_requests : Nat,
   cancelled_requests : Nat, expired_requests : Nat, max_reserved_kv_bytes : Nat,
   max_cancellation_overshoot_tokens : Nat]

\* The type invariant: every counter stays a natural number, so none of the
\* unchecked u64 subtractions of scheduler.rs (remaining_tokens -= emitted,
\* reserved_kv_bytes -= reservation) wraps around.
TypeOK ==
  /\ DOMAIN requests \subseteq RequestId
  /\ requests \in [DOMAIN requests -> RequestState]
  /\ DOMAIN running \subseteq RequestId
  /\ running \in [DOMAIN running -> Dispatch]
  /\ expired \subseteq RequestId
  /\ reserved_kv_bytes \in Nat
  /\ next_sequence \in 0..MaxAdmissions
  /\ stats \in Stats
  /\ now_ns \in 0..MaxTime

\* The total that admission compares with the budget is at every moment the sum
\* of what the records hold, a request that has ended holds nothing, and one
\* that has not ended still holds its whole page-rounded reservation: no path
\* (finish, cancel, abort, expiry, prune) leaks KV bytes or frees them twice.
KvAccounting ==
  /\ reserved_kv_bytes = ReservedSum(requests, DOMAIN requests)
  /\ \A id \in DOMAIN requests :
       requests[id].reserved_kv_bytes =
         IF id \in Live THEN ReservationBytes(requests[id].spec) ELSE 0

\* Admission never commits more KV bytes than the policy allows, and the
\* max_reserved_kv_bytes statistic really is a high-water mark.
KvWithinBudget ==
  /\ reserved_kv_bytes <= stats.max_reserved_kv_bytes
  /\ stats.max_reserved_kv_bytes <= MaxReservedKvBytes

\* The dispatches in flight are exactly the requests marked Running, and each
\* is still the dispatch its record calls for: a completion within the
\* dispatch's budget never takes more than the record has left.
RunningCoherent ==
  /\ DOMAIN running = WithStatus(requests, {"Running"})
  /\ \A id \in DOMAIN running :
       /\ running[id] = DispatchOf(requests[id])
       /\ running[id].token_budget > 0

\* Tokens are neither lost nor invented across quanta, cancels and requeues:
\* emitted plus remaining is what the request asked for, a request emits or is
\* reported Finished only after its prompt is evaluated, and one that has spent
\* its allowance is no longer live.
TokensConserved ==
  \A id \in DOMAIN requests :
    LET r == requests[id]
    IN  /\ r.emitted_tokens + r.remaining_tokens = r.spec.max_output_tokens
        /\ r.status # "Rejected" =>
             r.remaining_prefill_tokens <= r.spec.prompt_tokens - r.spec.prefix_reused_tokens
        /\ r.emitted_tokens > 0 \/ r.status = "Finished" => r.remaining_prefill_tokens = 0
        /\ id \in Live => r.remaining_tokens > 0

\* A cancellation of a running request is never lost: a marked request is
\* running, or was cancelled; it is neither requeued nor reported Finished.
CancellationHonoured ==
  \A id \in DOMAIN requests :
    requests[id].cancellation_requested => requests[id].status \in {"Running", "Cancelled"}

\* Every admitted request is counted in exactly one terminal statistic or is
\* still live, and every sequence number handed out is an admission or a
\* rejection, however records are pruned and ids reused.
OutcomesBalance ==
  /\ stats.admitted_requests = stats.completed_requests + stats.cancelled_requests
                                + stats.expired_requests + Cardinality(Live)
  /\ next_sequence = stats.admitted_requests + stats.rejected_requests

\* After a cancel a request emits at most one service quantum more: the bound
\* verify_service_trace demands of max_cancellation_overshoot_tokens.
OvershootBounded == stats.max_cancellation_overshoot_tokens <= ServiceQuantumTokens

\* The resident set, the batch in flight and the reserved KV bytes stay within
\* the policy, also when quanta return to the queue while new requests are
\* admitted and deadlines expire; and a cancelled request overshoots by no more
\* than a quantum.
LimitsRespected ==
  /\ Cardinality(Live) <= MaxActiveRequests
  /\ Cardinality(DOMAIN running) <= MaxBatchRequests
  /\ KvWithinBudget
  /\ OvershootBounded

\* A request that has ended never changes again; it can only be pruned.
TerminalIsFinal ==
  [][\A id \in DOMAIN requests :
       (id \notin Live /\ id \in DOMAIN requests') => requests'[id] = requests[id]]_vars

=============================================================================

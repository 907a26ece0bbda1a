---------------------------- MODULE ServiceMemory ----------------------------
(***************************************************************************)
(* The memory policy of the server (crates/leone-cli/src/service_memory.rs *)
(* and prepare_service_memory in server.rs): limits are resolved from what *)
(* the host and the backend report and from the command line, and          *)
(* installed as the trackers of the backend and of host storage.           *)
(*                                                                         *)
(* A request of "auto" is None, and so is an available size that was not   *)
(* observed.                                                               *)
(***************************************************************************)
EXTENDS MemoryTracker

CONSTANTS
    Backend, Host,  \* the two trackers
    Requests,       \* --memory and --host values; None is "auto"
    Totals,         \* total bytes reported for a pool
    Availables      \* available bytes reported for a pool

None == -1

ASSUME PolicyAssumption ==
    /\ Tracker = {Backend, Host} /\ Backend # Host
    /\ Requests \subseteq (Nat \ {0}) \cup {None}
    /\ Totals \subseteq Nat
    /\ Availables \subseteq Nat

VARIABLES
    phase,          \* how far prepare_service_memory is
    inputs          \* ServiceBudgetArgs and ServiceMemoryInputs

vars == <<tracker_vars, phase, inputs>>

Fails == [ok |-> FALSE, limit |-> 0]
Limit(n) == [ok |-> TRUE, limit |-> n]
Lesser(a, b) == IF a < b THEN a ELSE b

NoInputs == [topology |-> "none"]
NoCapacity == [total |-> 0, available |-> None]

-------------------------------------------------------------------------------
(* four_fifths: rounds down, without an intermediate overflow. *)
FourFifths(n) == (n \div 5) * 4 + ((n % 5) * 4) \div 5

(* checked_capacity. *)
Sound(capacity) ==
    capacity # NoCapacity => capacity.total # 0 /\ capacity.available <= capacity.total

(* What a pool can hold beyond what is owned of it; a baseline above the   *)
(* total is refused.                                                       *)
ObservedMaximum(capacity, owned) ==
    IF owned > capacity.total \/ owned + capacity.available > MaxBytes THEN Fails
    ELSE Limit(Lesser(capacity.total, owned + capacity.available))

ResolveAutomatic(capacity, owned) ==
    LET maximum == ObservedMaximum(capacity, owned)
        automatic == Lesser(owned + FourFifths(capacity.available), maximum.limit)
    IN IF capacity = NoCapacity THEN Fails
       ELSE IF maximum.ok /\ automatic > 0 /\ automatic >= owned
       THEN Limit(automatic) ELSE Fails

ResolveExplicit(requested, capacity, owned) ==
    LET maximum == ObservedMaximum(capacity, owned)
    IN IF requested < owned THEN Fails
       ELSE IF capacity = NoCapacity \/ (maximum.ok /\ requested <= maximum.limit)
       THEN Limit(requested) ELSE Fails

ResolveLimit(request, capacity, owned) ==
    IF request = None THEN ResolveAutomatic(capacity, owned)
    ELSE ResolveExplicit(request, capacity, owned)

\* Mutant: the recommended working set is taken although less is available.
CombinedAsRecommended(request, host, workingSet, owned) ==
    LET limit == FourFifths(workingSet)
    IN IF request # None THEN ResolveLimit(request, host, owned)
       ELSE IF workingSet # None /\ ResolveAutomatic(host, owned).ok
               /\ limit > 0 /\ limit >= owned
       THEN Limit(limit) ELSE Fails

(* resolve_combined: the working set a unified device recommends bounds an *)
(* automatic limit, and only that.                                         *)
ResolveCombined(request, host, workingSet, owned) ==
    LET derived == ResolveAutomatic(host, owned)
        limit == Lesser(FourFifths(workingSet), derived.limit)
    IN IF request # None THEN ResolveLimit(request, host, owned)
       ELSE IF workingSet # None /\ derived.ok /\ limit > 0 /\ limit >= owned
       THEN Limit(limit) ELSE Fails

(* cap_host_limit. *)
CapHostLimit(request, host, combined) ==
    IF host <= combined THEN Limit(host)
    ELSE IF request = None THEN Limit(combined) ELSE Fails

(* resolve_discrete, resolve_unified and resolve_cpu: the limit of the     *)
(* backend's pool, which for the last two is that of both.                 *)
ResolveBackend(in) ==
    CASE in.topology = "discrete" ->
           IF Sound(in.backend) THEN ResolveLimit(in.memory, in.backend, in.owned)
           ELSE Fails
      [] in.topology = "unified" ->
           IF in.workingSet = 0 THEN Fails
           ELSE ResolveCombined(in.memory, in.host, in.workingSet, in.owned)
      [] in.topology = "cpu" -> ResolveLimit(in.memory, in.host, in.owned)

(* resolve_policy; no host bytes are owned when the server asks for one. *)
ResolvePolicy(in) ==
    LET host == ResolveLimit(in.host_request, in.host, 0)
        backend == ResolveBackend(in)
        capped == IF in.topology = "discrete" THEN host
                  ELSE CapHostLimit(in.host_request, host.limit, backend.limit)
        ok == Sound(in.host) /\ host.ok /\ backend.ok /\ capped.ok
    IN [ok |-> ok, shared |-> in.topology # "discrete",
        combined |-> backend.limit, host |-> capped.limit]

-------------------------------------------------------------------------------
Capacities == {NoCapacity} \cup [total : Totals, available : Availables]

(* What a device of each topology reports of itself. *)
Devices ==
    [topology : {"discrete"}, backend : Capacities, workingSet : {None}]
    \cup [topology : {"unified"}, backend : {NoCapacity}, workingSet : Totals \cup {None}]
    \cup [topology : {"cpu"}, backend : {NoCapacity}, workingSet : {None}]

(* observe_backend_capacity and observe_host_memory.  The backend has been *)
(* built: no call of it that holds a reservation is under way.             *)
Observe(device, host, memory, host_request) ==
    /\ phase = "built"
    /\ Those("reserved") = {}
    /\ inputs' = [topology |-> device.topology, backend |-> device.backend,
                  workingSet |-> device.workingSet, host |-> host,
                  memory |-> memory, host_request |-> host_request,
                  owned |-> state[Backend].total.live_bytes]
    /\ phase' = "observed"
    /\ UNCHANGED tracker_vars

(* install_service_memory_trackers.  A shared pool gets a new root with a  *)
(* child for each side; a discrete one keeps the backend's tracker.        *)
Install ==
    LET policy == ResolvePolicy(inputs)
    IN /\ phase = "observed"
       /\ policy.ok
       /\ IF policy.shared
          THEN /\ IsEmpty(Backend)
               /\ root' = [root EXCEPT ![Host] = NewRoot(policy.combined)]
               /\ state' = [state EXCEPT ![Backend] = NewTracker(policy.combined),
                                         ![Host] = NewTracker(policy.host)]
               /\ shared' = [t \in Tracker |-> Host]
               /\ owner' = [t \in Tracker |-> FALSE]
          ELSE /\ CheckBudgetChange(policy.combined, state[Backend])
               /\ CheckBudgetChange(policy.combined, Shared(Backend))
               /\ root' = [root EXCEPT ![Backend].budget = policy.combined,
                                       ![Host] = NewRoot(policy.host)]
               /\ state' = [state EXCEPT ![Backend].budget = policy.combined,
                                         ![Host] = NewTracker(policy.host)]
               /\ shared' = [shared EXCEPT ![Host] = Host]
               /\ owner' = [t \in Tracker |-> TRUE]
       /\ phase' = "serving"
       /\ inputs' = NoInputs
       /\ UNCHANGED handle

(* The server does not start without a policy. *)
Refuse ==
    LET policy == ResolvePolicy(inputs)
    IN /\ phase = "observed"
       /\ ~policy.ok \/ (policy.shared /\ ~IsEmpty(Backend))
       /\ phase' = "refused"
       /\ inputs' = NoInputs
       /\ UNCHANGED tracker_vars

-------------------------------------------------------------------------------
(* The backend is built with an independent tracker without a limit. *)
Init ==
    /\ root = [t \in Tracker |-> NewRoot(Unlimited)]
    /\ state = [t \in Tracker |-> NewTracker(Unlimited)]
    /\ shared = [t \in Tracker |-> IF t = Backend THEN Backend ELSE NoRoot]
    /\ owner = [t \in Tracker |-> t = Backend]
    /\ handle = [h \in Handle |-> NoHandle]
    /\ phase = "built"
    /\ inputs = NoInputs

(* Budgets change only once the server has its own. *)
Memory ==
    /\ \/ phase \in {"built", "serving"} /\ AllocationStep
       \/ phase = "serving" /\ BudgetStep
    /\ UNCHANGED <<phase, inputs>>

Next ==
    \/ Memory
    \/ \E device \in Devices, host \in Capacities, memory, host_request \in Requests :
         Observe(device, host, memory, host_request)
    \/ Install \/ Refuse

Spec == Init /\ [][Next]_vars

-------------------------------------------------------------------------------
Within(limit, capacity, owned) ==
    capacity # NoCapacity => limit <= capacity.total /\ limit <= owned + capacity.available

(* A policy that resolves covers what is already owned, so that installing *)
(* it is refused only where the backend must be empty; it promises no more *)
(* than the pools were seen to hold; and where host and backend share a    *)
(* pool, the host's part lies within the whole.                            *)
PolicyFits ==
    LET policy == ResolvePolicy(inputs)
        pool == IF policy.shared THEN inputs.host ELSE inputs.backend
    IN phase = "observed" /\ policy.ok =>
        /\ policy.host > 0 /\ policy.combined > 0
        /\ CheckBudgetChange(policy.combined, state[Backend])
        /\ Within(policy.host, inputs.host, 0)
        /\ Within(policy.combined, pool, inputs.owned)
        /\ policy.shared => policy.host <= policy.combined

=============================================================================

---------------------------- MODULE MemoryTracker ----------------------------
(***************************************************************************)
(* The byte accounting of the allocations of a process                     *)
(* (crates/leone/src/backend.rs, MemoryTrackerRoot and MemoryTracker).     *)
(* A tracker charges a root.  MemoryTracker::new makes it the owner of its *)
(* own root, whose budget it goes by; MemoryTracker::child charges a root  *)
(* that siblings share.  A root is named after a tracker it is made for.   *)
(* A handle is a MemoryReservation until it is committed or dropped, and a *)
(* MemoryAllocation until it is dropped.                                   *)
(*                                                                         *)
(* Every operation holds the lock of the root and then that of its         *)
(* tracker, so each is one step.  The peaks are statistics that nothing    *)
(* reads and are left out.                                                 *)
(***************************************************************************)
EXTENDS Integers, FiniteSets, Sums

CONSTANTS
    Tracker,        \* trackers of the process
    Class,          \* MemoryClass
    Handle,         \* reservations and allocations that can exist at once
    Bytes,          \* sizes that are asked for
    Budgets,        \* budgets that are set later; Unlimited may be one
    MaxBytes,       \* the largest byte count, u64::MAX
    MaxCount        \* the largest allocation count, u64::MAX

Unlimited == 0      \* MemoryBudget::limited rejects zero
NoRoot == "none"    \* the root of a tracker that does not exist yet

ASSUME TrackerAssumption ==
    /\ Bytes \subseteq Nat
    /\ Budgets \subseteq Nat
    /\ MaxBytes \in Nat
    /\ MaxCount \in Nat
    /\ IsFiniteSet(Handle)
    /\ NoRoot \notin Tracker

VARIABLES
    root,           \* MemoryRootState of every root
    state,          \* MemoryTrackerState of every tracker
    shared,         \* the root a tracker charges
    owner,          \* root_owner
    handle          \* what callers hold

tracker_vars == <<root, state, shared, owner, handle>>

Counters == [live_bytes : Nat, live : Nat, allocations : Nat, frees : Nat]
Zero == [live_bytes |-> 0, live |-> 0, allocations |-> 0, frees |-> 0]
NoHandle == [kind |-> "none"]

-------------------------------------------------------------------------------
(* checked_counter_capacity. *)
CounterCapacity(counters, bytes, pending) ==
    /\ counters.live_bytes + bytes <= MaxBytes
    /\ counters.live + pending + 1 <= MaxCount
    /\ counters.allocations + pending + 1 <= MaxCount

WithinBudget(budget, bytes) == budget = Unlimited \/ bytes <= budget

CheckBudgetChange(budget, s) ==
    /\ s.total.live_bytes + s.reserved_bytes <= MaxBytes
    /\ WithinBudget(budget, s.total.live_bytes + s.reserved_bytes)

\* Mutant: what is already reserved is left out of the check.
CheckedAgainstOwned(s, budget, bytes) ==
    /\ s.total.live_bytes + bytes <= MaxBytes
    /\ WithinBudget(budget, s.total.live_bytes + bytes)
    /\ CounterCapacity(s.total, bytes, s.reserved_allocations)
    /\ s.reserved_allocations + 1 <= MaxCount

(* checked_shared_reservation, and the same part of checked_reservation. *)
CheckedReservation(s, budget, bytes) ==
    /\ s.total.live_bytes + s.reserved_bytes + bytes <= MaxBytes
    /\ WithinBudget(budget, s.total.live_bytes + s.reserved_bytes + bytes)
    /\ CounterCapacity(s.total, bytes, s.reserved_allocations)
    /\ s.reserved_allocations + 1 <= MaxCount

(* checked_shared_commit, and the same part of commit. *)
CheckedCommit(s, bytes) ==
    /\ s.reserved_bytes >= bytes
    /\ s.reserved_allocations > 0
    /\ CounterCapacity(s.total, bytes, s.reserved_allocations - 1)

RecordAllocate(counters, bytes) ==
    [counters EXCEPT !.live_bytes = @ + bytes, !.live = @ + 1, !.allocations = @ + 1]

RecordFree(counters, bytes) ==
    [counters EXCEPT !.live_bytes = @ - bytes, !.live = @ - 1, !.frees = @ + 1]

\* Mutant: the class that an allocation leaves keeps counting it as one of its own.
MoveLiveBytes(classes, previous, next, bytes) ==
    [classes EXCEPT
        ![previous] = [@ EXCEPT !.live_bytes = @ - bytes, !.live = @ - 1],
        ![next] = RecordAllocate(@, bytes)]

(* move_live takes the allocation from one class and gives it to the next. *)
MoveLive(classes, previous, next, bytes) ==
    LET left == [classes[previous] EXCEPT !.live_bytes = @ - bytes, !.live = @ - 1,
                                          !.allocations = @ - 1]
    IN [classes EXCEPT ![previous] = left, ![next] = RecordAllocate(@, bytes)]

Reserved(s, bytes) ==
    [s EXCEPT !.reserved_bytes = @ + bytes, !.reserved_allocations = @ + 1]
Unreserved(s, bytes) ==
    [s EXCEPT !.reserved_bytes = @ - bytes, !.reserved_allocations = @ - 1]

(* The root a tracker charges, and the budget it goes by. *)
Shared(t) == root[shared[t]]
Budget(t) == IF owner[t] THEN Shared(t).budget ELSE state[t].budget

NewRoot(budget) ==
    [total |-> Zero, budget |-> budget, reserved_bytes |-> 0,
     reserved_allocations |-> 0]
NewTracker(budget) ==
    [total |-> Zero, classes |-> [c \in Class |-> Zero],
     reserved_classes |-> [c \in Class |-> 0], budget |-> budget,
     reserved_bytes |-> 0, reserved_allocations |-> 0]

IsEmpty(t) == state[t].total.live_bytes = 0 /\ state[t].reserved_bytes = 0

-------------------------------------------------------------------------------
Grants(t, class, bytes) ==
    LET s == state[t]
    IN /\ bytes # 0
       /\ CheckedReservation(Shared(t), Shared(t).budget, bytes)
       /\ CheckedReservation(s, Budget(t), bytes)
       /\ CounterCapacity(s.classes[class], bytes, s.reserved_classes[class])
       /\ s.reserved_classes[class] + 1 <= MaxCount

(* MemoryTracker::reserve; one that is refused changes nothing. *)
Reserve(h, t, class, bytes) ==
    LET s == Reserved(state[t], bytes)
    IN /\ handle[h] = NoHandle
       /\ shared[t] # NoRoot
       /\ Grants(t, class, bytes)
       /\ root' = [root EXCEPT ![shared[t]] = Reserved(@, bytes)]
       /\ state' = [state EXCEPT ![t] =
                        [s EXCEPT !.reserved_classes[class] = @ + 1,
                                  !.budget = IF owner[t] THEN Shared(t).budget ELSE @]]
       /\ handle' = [handle EXCEPT ![h] =
                        [kind |-> "reserved", tracker |-> t, class |-> class,
                         bytes |-> bytes, identity |-> 0]]
       /\ UNCHANGED <<shared, owner>>

(* The checks of MemoryReservation::commit. *)
Committable(x) ==
    LET s == state[x.tracker]
    IN /\ CheckedCommit(Shared(x.tracker), x.bytes)
       /\ CheckedCommit(s, x.bytes)
       /\ s.reserved_classes[x.class] > 0
       /\ CounterCapacity(s.classes[x.class], x.bytes, s.reserved_classes[x.class] - 1)

Settled(s, bytes) ==
    [Unreserved(s, bytes) EXCEPT !.total = RecordAllocate(@, bytes)]

Commit(h) ==
    LET x == handle[h]
        t == x.tracker
        s == Settled(state[t], x.bytes)
    IN /\ x.kind = "reserved"
       /\ Committable(x)
       /\ root' = [root EXCEPT ![shared[t]] = Settled(@, x.bytes)]
       /\ state' = [state EXCEPT ![t] =
                        [s EXCEPT !.reserved_classes[x.class] = @ - 1,
                                  !.classes[x.class] = RecordAllocate(@, x.bytes)]]
       /\ handle' = [handle EXCEPT ![h] =
                        [@ EXCEPT !.kind = "owned",
                                  !.identity = state[t].total.allocations + 1]]
       /\ UNCHANGED <<shared, owner>>

(* A reservation that is dropped, or whose commit is refused. *)
DropReservation(h) ==
    LET x == handle[h]
        t == x.tracker
        s == Unreserved(state[t], x.bytes)
    IN /\ x.kind = "reserved"
       /\ root' = [root EXCEPT ![shared[t]] = Unreserved(@, x.bytes)]
       /\ state' = [state EXCEPT ![t] = [s EXCEPT !.reserved_classes[x.class] = @ - 1]]
       /\ handle' = [handle EXCEPT ![h] = NoHandle]
       /\ UNCHANGED <<shared, owner>>

(* reserve_duplicate; duplicate commits it at once. *)
ReserveDuplicate(h, other) ==
    /\ handle[h].kind = "owned"
    /\ Reserve(other, handle[h].tracker, handle[h].class, handle[h].bytes)

Reclassify(h, class) ==
    LET x == handle[h]
    IN /\ x.kind = "owned"
       /\ x.class # class
       /\ handle' = [handle EXCEPT ![h].class = class]
       /\ state' = [state EXCEPT ![x.tracker].classes =
                        MoveLive(@, x.class, class, x.bytes)]
       /\ UNCHANGED <<root, shared, owner>>

DropAllocation(h) ==
    LET x == handle[h]
        t == x.tracker
        s == state[t]
    IN /\ x.kind = "owned"
       /\ root' = [root EXCEPT ![shared[t]].total = RecordFree(@, x.bytes)]
       /\ state' = [state EXCEPT ![t] =
                        [s EXCEPT !.total = RecordFree(@, x.bytes),
                                  !.classes[x.class] = RecordFree(@, x.bytes)]]
       /\ handle' = [handle EXCEPT ![h] = NoHandle]
       /\ UNCHANGED <<shared, owner>>

(* MemoryTrackerRoot::set_budget. *)
SetRootBudget(t, budget) ==
    /\ shared[t] # NoRoot
    /\ CheckBudgetChange(budget, Shared(t))
    /\ root' = [root EXCEPT ![shared[t]].budget = budget]
    /\ UNCHANGED <<state, shared, owner, handle>>

(* MemoryTracker::set_budget; an owner sets the budget of its root too. *)
SetBudget(t, budget) ==
    /\ shared[t] # NoRoot
    /\ CheckBudgetChange(budget, state[t])
    /\ owner[t] => CheckBudgetChange(budget, Shared(t))
    /\ root' = IF owner[t] THEN [root EXCEPT ![shared[t]].budget = budget] ELSE root
    /\ state' = [state EXCEPT ![t].budget = budget]
    /\ UNCHANGED <<shared, owner, handle>>

-------------------------------------------------------------------------------
AllocationStep ==
    \E h \in Handle :
        \/ \E t \in Tracker, class \in Class, bytes \in Bytes : Reserve(h, t, class, bytes)
        \/ \E other \in Handle : ReserveDuplicate(h, other)
        \/ Commit(h) \/ DropReservation(h) \/ DropAllocation(h)
        \/ \E class \in Class : Reclassify(h, class)

BudgetStep ==
    \E t \in Tracker, budget \in Budgets : SetRootBudget(t, budget) \/ SetBudget(t, budget)

-------------------------------------------------------------------------------
Those(kind) == {h \in Handle : handle[h].kind = kind}
SumBytes(hs) == SumOver([h \in hs |-> handle[h].bytes], hs)

FitsWidth(counters) ==
    /\ counters.live_bytes <= MaxBytes
    /\ counters.live <= MaxCount
    /\ counters.allocations <= MaxCount
    /\ counters.frees <= MaxCount

(* Counters that fit their width and agree with the allocations they count. *)
Counts(counters, owned) ==
    /\ counters \in Counters
    /\ FitsWidth(counters)
    /\ counters.live_bytes = SumBytes(owned)
    /\ counters.live = Cardinality(owned)
    /\ counters.allocations = counters.live + counters.frees

(* The books of an account are those of the handles of some trackers. *)
Stands(s, trackers) ==
    LET owned == {h \in Those("owned") : handle[h].tracker \in trackers}
        reserved == {h \in Those("reserved") : handle[h].tracker \in trackers}
    IN /\ Counts(s.total, owned)
       /\ s.reserved_bytes = SumBytes(reserved)
       /\ s.reserved_allocations = Cardinality(reserved)
       /\ s.total.live_bytes + s.reserved_bytes <= MaxBytes
       /\ s.reserved_allocations <= MaxCount

(* Every root, every tracker and every class account for exactly the       *)
(* handles that exist, after any mix of drops, duplicates and              *)
(* reclassifications. No counter goes below zero or beyond its width,      *)
(* where the code would panic with both locks held, not even those of a    *)
(* class that move_live raises without asking for their capacity. An       *)
(* identity names one allocation of its tracker.                           *)
AccountsBalance ==
    /\ \A t \in Tracker :
        /\ Stands(root[t], {u \in Tracker : shared[u] = t})
        /\ Stands(state[t], {t})
        /\ \A c \in Class :
            LET Of(kind) == {h \in Those(kind) : handle[h].tracker = t
                                                 /\ handle[h].class = c}
            IN /\ Counts(state[t].classes[c], Of("owned"))
               /\ state[t].reserved_classes[c] = Cardinality(Of("reserved"))
               /\ state[t].reserved_classes[c] <= MaxCount
    /\ \A h, k \in Those("owned") :
        /\ handle[h].tracker = handle[k].tracker
        /\ handle[h].identity = handle[k].identity
        => h = k

(* What is reserved can be committed: whatever budgets, classes and        *)
(* counters have become since, the commit of a live reservation is not     *)
(* refused, and the bytes owned or reserved fit the budget of their        *)
(* tracker and that of its root.                                           *)
ReservationsCommit ==
    /\ \A h \in Those("reserved") : Committable(handle[h])
    /\ \A t \in Tracker : shared[t] # NoRoot =>
        /\ WithinBudget(Budget(t), state[t].total.live_bytes + state[t].reserved_bytes)
        /\ WithinBudget(Shared(t).budget,
                        Shared(t).total.live_bytes + Shared(t).reserved_bytes)

=============================================================================

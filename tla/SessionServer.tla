---------------------------- MODULE SessionServer ----------------------------
(***************************************************************************)
(* crates/leone-cli/src/server.rs, Server: the life of chat sessions over  *)
(* the session store.  A request takes its session out of memory or out of *)
(* the store, with a lease of its reference; when it ends the session is   *)
(* persisted and kept, retained as it was, or discarded; sessions that do  *)
(* not fit are hibernated and then dropped.                                *)
(*                                                                         *)
(* A session is absent from memory, in a task, resident (Server::sessions) *)
(* or hibernated (Server::hibernated).  Backend work that may fail (load,  *)
(* capture, wake, host memory) is a choice between its outcomes.           *)
(***************************************************************************)
EXTENDS SessionStore

InState(at) == {s \in Sessions : mem[s].at = at}

Oldest(S) == CHOOSE s \in S : \A r \in S : mem[s].last_used <= mem[r].last_used

\* The caller's call on session v: pc, with the lease it takes out of mem[v].
Enter(pc, top, then, s, v, lease) ==
  [pc |-> pc, top |-> top, then |-> then, s |-> s, v |-> v, lease |-> lease, io |-> <<>>, ok |-> TRUE]

Begin(pc, top, then, s, lease) == Enter(pc, top, then, s, s, lease)
Proceed(pc, then, v, lease) == Enter(pc, proc.top, then, proc.s, v, lease)

TakeLease(s) == [mem EXCEPT ![s].lease = NoLease]
Holding(s, lease) == [mem EXCEPT ![s].lease = lease]

\* cache_persisted_archive: a full cache drops its oldest entry.
Cached(s, used) ==
  LET others == {r \in Sessions \ {s} : persisted[r] # 0}
      drop == IF persisted[s] = 0 /\ Cardinality(others) = RecoveryLimit
              THEN {CHOOSE r \in others : \A q \in others : persisted[r] <= persisted[q]}
              ELSE {}
  IN  [r \in Sessions |-> IF r = s THEN used ELSE IF r \in drop THEN 0 ELSE persisted[r]]

-----------------------------------------------------------------------------
(* lease_session: a request takes its session *)

\* lease_continue_session, for a session no other task runs.
LeaseContinueSession(s) ==
  /\ proc.pc = "idle" /\ mem[s].at # "task"
  /\ mem' = TakeLease(s)
  /\ proc' = LET held == mem[s].lease
             IN CASE DiscardPending(held) -> Begin("discard", "continue", "cold", s, held)
                  [] ~DiscardPending(held) /\ mem[s].at = "resident" ->
                       IF held # NoLease THEN Begin("attach", "continue", "none", s, held)
                       ELSE Begin("lease", "continue", "attach", s, NoLease)
                  [] ~DiscardPending(held) /\ mem[s].at = "hibernated" ->
                       IF held # NoLease THEN Begin("wake", "continue", "none", s, held)
                       ELSE Begin("lease", "continue", "wake", s, NoLease)
                  [] mem[s].at = "absent" ->
                       Begin("lease", "continue", IF persisted[s] # 0 THEN "restoring" ELSE "metadata",
                             s, NoLease)
  /\ UNCHANGED <<disk_vars, table, persisted, clock, history_vars>>

\* lease_fork_session: a parent that is not resident is woken or read.  Only
\* the child's identifier is checked against the running tasks.
LeaseForkSession(s) ==
  /\ s \in ForkParents
  /\ proc.pc = "idle" /\ mem[s].at # "resident" /\ ~DiscardPending(mem[s].lease)
  /\ mem[s].at = "hibernated" => clock < MaxClock
  /\ mem' = IF mem[s].at = "hibernated" THEN TakeLease(s) ELSE mem
  /\ proc' = IF mem[s].at = "hibernated"
             THEN IF mem[s].lease # NoLease THEN Begin("wake", "fork", "none", s, mem[s].lease)
                  ELSE Begin("lease", "fork", "wake", s, NoLease)
             ELSE Begin("lease", "fork", IF persisted[s] # 0 THEN "restoring" ELSE "metadata", s, NoLease)
  /\ UNCHANGED <<disk_vars, table, persisted, clock, history_vars>>

\* After a pending discard: a cold session when the cleanup succeeded.
ContinueCold ==
  /\ Reached("cold")
  /\ mem' = IF proc.ok THEN [mem EXCEPT ![proc.s].at = "task"] ELSE mem
  /\ proc' = Idle
  /\ UNCHANGED <<disk_vars, table, persisted, clock, history_vars>>

\* attach_resident_session; host memory for the session may be refused.
AttachResidentSession ==
  /\ Reached("attach")
  /\ \/ proc.ok /\ mem' = [mem EXCEPT ![proc.s].at = "task", ![proc.s].lease = proc.lease]
     \/ proc.ok /\ mem' = Holding(proc.s, proc.lease)
     \/ ~proc.ok /\ UNCHANGED mem
  /\ proc' = Idle
  /\ UNCHANGED <<disk_vars, table, persisted, clock, history_vars>>

\* wake_hibernated_session: wake_generation succeeds, or fails and leaves the
\* session as it was, or loses it.
WakeHibernatedSession ==
  /\ Reached("wake")
  /\ \/ /\ ~proc.ok
        /\ proc' = Idle
        /\ UNCHANGED <<mem, persisted, kept>>
     \/ /\ proc.ok
        /\ \E outcome \in {"woken", "wakeFailed"} :
             proc' = Call(outcome, proc.lease, Restore(proc.s, proc.lease))
        /\ UNCHANGED <<mem, persisted, kept>>
     \/ /\ proc.ok
        /\ kept' = [kept EXCEPT ![proc.s] = 0]
        /\ IF proc.lease = NoLease
           THEN RemoveSessionState(proc.s) /\ proc' = Idle
           ELSE /\ proc' = [DiscardLeased(proc.lease) EXCEPT !.then = "ended"]
                /\ UNCHANGED <<mem, persisted>>
  /\ UNCHANGED <<disk_vars, table, clock, crashes, discarded>>

\* Mutant: every wake ticks the session clock, not only that of a parent.
FinishWakeTicks ==
  /\ Reached("woken")
  /\ \/ /\ ~proc.ok
        /\ mem' = Holding(proc.s, proc.lease)
        /\ proc' = Idle /\ UNCHANGED clock
     \/ /\ proc.ok
        /\ proc' = Idle /\ UNCHANGED <<mem, clock>>
     \/ /\ proc.ok /\ proc.top = "continue"
        /\ mem' = [mem EXCEPT ![proc.s].at = "resident"]
        /\ proc' = Begin("lease", "continue", "attach", proc.s, NoLease)
        /\ clock' = clock + 1
     \/ /\ proc.ok /\ proc.top = "fork"
        /\ clock' = clock + 1
        /\ mem' = [mem EXCEPT ![proc.s].at = "resident", ![proc.s].last_used = clock + 1]
        /\ proc' = Begin("fit", "fork", "none", proc.s, NoLease)
  /\ UNCHANGED <<disk_vars, table, persisted, history_vars>>

\* finish_wake: the session is resident, then attached or used as a parent.
\* Committing its host memory may fail once the reference is restored.
FinishWake ==
  /\ Reached("woken")
  /\ \/ /\ ~proc.ok
        /\ mem' = Holding(proc.s, proc.lease)
        /\ proc' = Idle /\ UNCHANGED clock
     \/ /\ proc.ok
        /\ proc' = Idle /\ UNCHANGED <<mem, clock>>
     \/ /\ proc.ok /\ proc.top = "continue"
        /\ mem' = [mem EXCEPT ![proc.s].at = "resident"]
        /\ proc' = Begin("lease", "continue", "attach", proc.s, NoLease)
        /\ UNCHANGED clock
     \/ /\ proc.ok /\ proc.top = "fork"
        /\ clock' = clock + 1
        /\ mem' = [mem EXCEPT ![proc.s].at = "resident", ![proc.s].last_used = clock + 1]
        /\ proc' = Begin("fit", "fork", "none", proc.s, NoLease)
  /\ UNCHANGED <<disk_vars, table, persisted, history_vars>>

FinishWakeError ==
  /\ Reached("wakeFailed")
  /\ mem' = IF proc.ok THEN mem ELSE Holding(proc.s, proc.lease)
  /\ proc' = Idle
  /\ UNCHANGED <<disk_vars, table, persisted, clock, history_vars>>

\* persisted_metadata of a session that is not cached; a resolved lease goes
\* back to the table.
PersistedMetadata ==
  /\ Reached("metadata")
  /\ LET path == IF proc.lease = NoLease THEN Reference ELSE Quarantine(proc.lease.nonce, "Restore")
         used == LastUsed(disk, proc.s, path)
     IN \/ /\ ~proc.ok
           /\ proc' = Idle /\ UNCHANGED <<mem, persisted>>
        \/ /\ proc.ok /\ used # 0
           /\ persisted' = Cached(proc.s, used)
           /\ proc' = Begin("lease", proc.top, "restoring", proc.s, NoLease)
           /\ UNCHANGED mem
        \/ /\ proc.ok /\ used = 0
           /\ mem' = IF proc.top = "continue" THEN [mem EXCEPT ![proc.s].at = "task"] ELSE mem
           /\ proc' = Idle /\ UNCHANGED persisted
  /\ table' = Retained(proc.s, proc.lease)
  /\ UNCHANGED <<disk_vars, clock, history_vars>>

\* restore_persisted_continuation and restore_persisted_fork: the archive is
\* read if the reference is the cached one; a fork gives its lease back.
RestorePersisted ==
  /\ Reached("restoring")
  /\ LET path == IF proc.lease = NoLease THEN Reference ELSE Quarantine(proc.lease.nonce, "Restore")
         found == LastUsed(disk, proc.s, path) = persisted[proc.s]
     IN \/ /\ ~proc.ok
           /\ proc' = Idle /\ UNCHANGED mem
        \/ /\ proc.ok /\ found /\ proc.top = "continue"
           /\ mem' = [mem EXCEPT ![proc.s] = [at |-> "task", lease |-> proc.lease,
                                              last_used |-> persisted[proc.s]]]
           /\ proc' = Idle
        \/ /\ proc.ok
           /\ proc' = Call("unloaded", proc.lease, Restore(proc.s, proc.lease))
           /\ UNCHANGED mem
  /\ UNCHANGED <<disk_vars, table, persisted, clock, history_vars>>

\* restore_reference_after_load_error, and the end of a fork.
ReferenceRestored ==
  /\ Reached("unloaded")
  /\ table' = IF proc.ok THEN table ELSE Retained(proc.s, proc.lease)
  /\ proc' = Idle
  /\ UNCHANGED <<disk_vars, mem, persisted, clock, history_vars>>

-----------------------------------------------------------------------------
(* finish_scheduled_chat: a request ends *)

\* persist_chat_session of a response that was not cancelled.
PersistChatSession(s) ==
  /\ proc.pc = "idle" /\ mem[s].at = "task" /\ clock + 1 < MaxClock
  /\ clock' = clock + 1
  /\ mem' = [mem EXCEPT ![s].last_used = clock + 1]
  /\ discarded' = discarded \ {s}
  /\ proc' = [Begin("persisted", "finish", "none", s, NoLease) EXCEPT !.io = Persist(clock + 1)]
  /\ UNCHANGED <<disk_vars, table, persisted, crashes, kept>>

\* Mutant: a persist that failed leaves the old archive in the cache.
PersistedKeepsCache ==
  /\ Reached("persisted")
  /\ LET lease == mem[proc.s].lease
     IN  IF proc.ok
         THEN /\ persisted' = Cached(proc.s, mem[proc.s].last_used)
              /\ proc' = Call("retired", lease, Retire(lease))
         ELSE /\ UNCHANGED persisted
              /\ proc' = [Call("retained", lease, Restore(proc.s, lease)) EXCEPT !.top = "retain"]
  /\ mem' = TakeLease(proc.s)
  /\ UNCHANGED <<disk_vars, table, clock, history_vars>>

\* Mutant: a persist that failed retires the reference it did not replace.
PersistedRetires ==
  /\ Reached("persisted")
  /\ LET lease == mem[proc.s].lease
     IN  IF proc.ok
         THEN /\ persisted' = Cached(proc.s, mem[proc.s].last_used)
              /\ proc' = Call("retired", lease, Retire(lease))
         ELSE /\ persisted' = [persisted EXCEPT ![proc.s] = 0]
              /\ proc' = [Call("retained", lease, Retire(lease)) EXCEPT !.top = "retain"]
  /\ mem' = TakeLease(proc.s)
  /\ UNCHANGED <<disk_vars, table, clock, history_vars>>

Persisted ==
  /\ Reached("persisted")
  /\ LET lease == mem[proc.s].lease
     IN  IF proc.ok
         THEN /\ persisted' = Cached(proc.s, mem[proc.s].last_used)
              /\ proc' = Call("retired", lease, Retire(lease))
         ELSE /\ persisted' = [persisted EXCEPT ![proc.s] = 0]
              /\ proc' = [Call("retained", lease, Restore(proc.s, lease)) EXCEPT !.top = "retain"]
  /\ mem' = TakeLease(proc.s)
  /\ UNCHANGED <<disk_vars, table, clock, history_vars>>

\* A lease that cannot be retired is kept for recovery and the request fails.
Retired ==
  /\ Reached("retired")
  /\ \/ /\ proc.ok
        /\ mem' = [mem EXCEPT ![proc.s].at = "resident"]
        /\ proc' = Proceed("fit", "none", proc.s, NoLease)
        /\ UNCHANGED table
     \/ /\ ~proc.ok
        /\ table' = Retained(proc.s, proc.lease)
        /\ mem' = [mem EXCEPT ![proc.s].at = "resident",
                              ![proc.s].lease = IF CanRetain(proc.s) THEN NoLease ELSE proc.lease]
        /\ proc' = Idle
  /\ UNCHANGED <<disk_vars, persisted, clock, history_vars>>

\* retain_failed_session: the request failed and left its session unchanged.
RetainFailedSession(s) ==
  /\ proc.pc = "idle" /\ mem[s].at = "task" /\ clock < MaxClock
  /\ persisted' = [persisted EXCEPT ![s] = 0]
  /\ mem' = TakeLease(s)
  /\ proc' = [Begin("retained", "retain", "none", s, mem[s].lease)
                EXCEPT !.io = Restore(s, mem[s].lease)]
  /\ UNCHANGED <<disk_vars, table, clock, history_vars>>

RetainedSession ==
  /\ Reached("retained")
  /\ \/ /\ ~proc.ok
        /\ mem' = [mem EXCEPT ![proc.s].at = "resident", ![proc.s].lease = proc.lease]
        /\ proc' = Idle /\ UNCHANGED clock
     \/ /\ proc.ok
        /\ clock' = clock + 1
        /\ mem' = [mem EXCEPT ![proc.s].at = "resident", ![proc.s].last_used = clock + 1]
        /\ proc' = Proceed("fit", "none", proc.s, NoLease)
  /\ UNCHANGED <<disk_vars, table, persisted, history_vars>>

\* discard_stored_session, after a deadline, a disconnect or a failure that
\* may have damaged the session, or for a cancelled response, whose failed
\* discard is tried once more.
DiscardStoredSession(s, why) ==
  /\ proc.pc = "idle" /\ mem[s].at = "task"
  /\ mem' = TakeLease(s)
  /\ proc' = Begin("discard", why, why, s, mem[s].lease)
  /\ UNCHANGED <<disk_vars, table, persisted, clock, history_vars>>

TaskDiscarded ==
  /\ \/ /\ Reached("cancelled") /\ ~proc.ok
        /\ proc' = Begin("discard", "ended", "ended", proc.s, NoLease)
     \/ /\ (Reached("cancelled") /\ proc.ok) \/ Reached("ended")
        /\ proc' = Idle
  /\ UNCHANGED <<disk_vars, mem, table, persisted, clock, history_vars>>

\* The receipt is written and the client is told, or the session is dropped.
Respond ==
  /\ Reached("respond")
  /\ \/ /\ proc.ok
        /\ kept' = [kept EXCEPT ![proc.s] = clock]
        /\ proc' = Idle /\ UNCHANGED mem
     \/ /\ mem' = TakeLease(proc.s)
        /\ proc' = Begin("discard", "ended", "ended", proc.s, mem[proc.s].lease)
        /\ UNCHANGED kept
  /\ UNCHANGED <<disk_vars, table, persisted, clock, crashes, discarded>>

-----------------------------------------------------------------------------
(* insert_session: hibernate and evict until the sessions fit *)

\* insert_session returns to the response, or ends.
InsertEnds(ok) ==
  proc' = IF proc.top = "finish" THEN [Begin("respond", "finish", "none", proc.s, NoLease) EXCEPT !.ok = ok]
          ELSE Idle

\* discard_oldest_hibernated
DiscardOldestHibernated ==
  LET v == Oldest(InState("hibernated"))
  IN  /\ mem' = TakeLease(v)
      /\ proc' = IF DiscardPending(mem[v].lease) THEN Proceed("discard", "fitDiscarded", v, mem[v].lease)
                 ELSE [Proceed("evicted", "none", v, mem[v].lease) EXCEPT !.io = Restore(v, mem[v].lease)]

\* hibernate_until_capacity and evict_hibernated_until_limit, one turn.  Host
\* memory for a copy may be refused, and is then made by dropping a copy; the
\* insertion fails when there is none, or no memory for the session itself.
Fit ==
  /\ Reached("fit")
  /\ \/ /\ Cardinality(InState("resident")) > MaxSessions
        /\ LET v == Oldest(InState("resident"))
               held == mem[v].lease
           IN \/ /\ DiscardPending(held)
                 /\ mem' = TakeLease(v)
                 /\ proc' = Proceed("discard", "fitDiscarded", v, held)
              \/ /\ ~DiscardPending(held)
                 /\ mem' = TakeLease(v)
                 /\ proc' = IF held # NoLease THEN Proceed("hibernating", "none", v, held)
                            ELSE Proceed("lease", "hibernating", v, NoLease)
              \/ /\ ~DiscardPending(held) /\ InState("hibernated") # {}
                 /\ DiscardOldestHibernated
     \/ /\ Cardinality(InState("resident")) <= MaxSessions
        /\ Cardinality(InState("hibernated")) > MaxHibernated
        /\ DiscardOldestHibernated
     \/ /\ Cardinality(InState("resident")) <= MaxSessions
        /\ Cardinality(InState("hibernated")) <= MaxHibernated
        /\ InsertEnds(TRUE) /\ UNCHANGED mem
     \/ InsertEnds(FALSE) /\ UNCHANGED mem
  /\ UNCHANGED <<disk_vars, table, persisted, clock, history_vars>>

\* Mutant: the copy that was dropped stays in the pool.
FitContinuesKeeps ==
  /\ \/ /\ Reached("fitDiscarded")
        /\ IF proc.ok THEN proc' = Proceed("fit", "none", proc.s, NoLease) ELSE InsertEnds(FALSE)
        /\ UNCHANGED mem
     \/ /\ Reached("evicted") /\ proc.ok
        /\ UNCHANGED mem
        /\ proc' = Proceed("fit", "none", proc.s, NoLease)
     \/ /\ Reached("evicted") /\ ~proc.ok
        /\ mem' = Holding(proc.v, proc.lease)
        /\ InsertEnds(FALSE)
     \/ /\ Reached("lost")
        /\ InsertEnds(FALSE) /\ UNCHANGED mem
  /\ UNCHANGED <<disk_vars, table, persisted, clock, history_vars>>

\* The end of retry_pending_session_cleanup, of discard_oldest_hibernated and
\* of a capture that lost the session.
FitContinues ==
  /\ \/ /\ Reached("fitDiscarded")
        /\ IF proc.ok THEN proc' = Proceed("fit", "none", proc.s, NoLease) ELSE InsertEnds(FALSE)
        /\ UNCHANGED mem
     \/ /\ Reached("evicted") /\ proc.ok
        /\ mem' = [mem EXCEPT ![proc.v] = Absent]
        /\ proc' = Proceed("fit", "none", proc.s, NoLease)
     \/ /\ Reached("evicted") /\ ~proc.ok
        /\ mem' = Holding(proc.v, proc.lease)
        /\ InsertEnds(FALSE)
     \/ /\ Reached("lost")
        /\ InsertEnds(FALSE) /\ UNCHANGED mem
  /\ UNCHANGED <<disk_vars, table, persisted, clock, history_vars>>

\* hibernate_stored: the backend captures the session, or fails and leaves it
\* as it was, or loses it.
HibernateStored ==
  /\ Reached("hibernating")
  /\ \/ /\ ~proc.ok
        /\ InsertEnds(FALSE)
        /\ UNCHANGED <<mem, persisted, kept>>
     \/ /\ proc.ok
        /\ \E outcome \in {"captured", "uncaptured"} :
             proc' = Call(outcome, proc.lease, Restore(proc.v, proc.lease))
        /\ UNCHANGED <<mem, persisted, kept>>
     \/ /\ proc.ok
        /\ kept' = [kept EXCEPT ![proc.v] = 0]
        /\ IF proc.lease = NoLease
           THEN RemoveSessionState(proc.v) /\ InsertEnds(FALSE)
           ELSE /\ mem' = [mem EXCEPT ![proc.v] = Absent]
                /\ proc' = [DiscardLeased(proc.lease) EXCEPT !.then = "lost"]
                /\ UNCHANGED persisted
  /\ UNCHANGED <<disk_vars, table, clock, crashes, discarded>>

\* store_hibernated
StoreHibernated ==
  /\ Reached("captured")
  /\ mem' = [mem EXCEPT ![proc.v].at = "hibernated",
                        ![proc.v].lease = IF proc.ok THEN NoLease ELSE proc.lease]
  /\ IF proc.ok THEN proc' = Proceed("fit", "none", proc.s, NoLease) ELSE InsertEnds(FALSE)
  /\ UNCHANGED <<disk_vars, table, persisted, clock, history_vars>>

\* restore_failed_hibernation_reference
RestoreFailedHibernation ==
  /\ Reached("uncaptured")
  /\ mem' = IF proc.ok THEN mem ELSE Holding(proc.v, proc.lease)
  /\ InsertEnds(FALSE)
  /\ UNCHANGED <<disk_vars, table, persisted, clock, history_vars>>

-----------------------------------------------------------------------------
(* The server *)

Init ==
  /\ disk = [files |-> {}, blobs |-> {}]
  /\ durable = {disk}
  /\ mem = [s \in Sessions |-> Absent]
  /\ table = [s \in Sessions |-> NoLease]
  /\ persisted = [s \in Sessions |-> 0]
  /\ clock = 0
  /\ proc = Idle
  /\ failures = 0 /\ crashes = 0
  /\ kept = [s \in Sessions |-> 0]
  /\ discarded = {}

StoreStep ==
  \/ IoSucceeds \/ IoFails
  \/ TakeRecoveryLease \/ Resolved \/ LeaseActive \/ Leasing \/ Unleasing
  \/ DiscardSession \/ Discarded
  \/ RecoverQuarantine \/ LoadSessionArchives

ServerStep ==
  \/ ContinueCold \/ AttachResidentSession
  \/ WakeHibernatedSession \/ FinishWake \/ FinishWakeError
  \/ PersistedMetadata \/ RestorePersisted \/ ReferenceRestored
  \/ Persisted \/ Retired \/ RetainedSession \/ TaskDiscarded \/ Respond
  \/ Fit \/ FitContinues \/ HibernateStored \/ StoreHibernated \/ RestoreFailedHibernation

Request ==
  \E s \in Sessions :
    \/ LeaseContinueSession(s) \/ LeaseForkSession(s)
    \/ PersistChatSession(s) \/ RetainFailedSession(s)
    \/ \E why \in {"cancelled", "ended"} : DiscardStoredSession(s, why)

Next == StoreStep \/ ServerStep \/ Request \/ Crash \/ Panic

Spec == Init /\ [][Next]_vars

\* A call in progress runs on.
FairSpec == Spec /\ WF_vars(StoreStep \/ ServerStep)

-----------------------------------------------------------------------------
(* Properties *)

(* The state of the sessions, the leases and the files between any two     *)
(* steps is one the types of the code allow.                               *)
TypeOK ==
  /\ disk.files \subseteq File /\ disk.blobs \subseteq Sessions \X Nat /\ disk \in durable
  /\ mem \in [Sessions -> [at : {"absent", "task", "resident", "hibernated"}, lease : Lease, last_used : Nat]]
  /\ table \in [Sessions -> Lease]
  /\ persisted \in [Sessions -> Nat] /\ kept \in [Sessions -> Nat]
  /\ clock \in 0 .. MaxClock /\ failures \in 0 .. MaxFailures /\ crashes \in 0 .. MaxCrashes
  /\ discarded \subseteq Sessions
  /\ proc.lease \in Lease /\ proc.s \in Sessions /\ proc.v \in Sessions /\ proc.ok \in BOOLEAN

Starting == proc.pc \in {"recover", "load"}

Marked(ns, s) == \E f \in ns.files : f.session = s /\ f.intent = "Discard"

Restorable(ns, s) == {f \in ns.files : f.session = s /\ f.intent = "Restore"}

\* The reference of s that a start on these files loads; 0 when it loads none.
Recovered(ns, s) ==
  CASE Marked(ns, s) -> 0
    [] ~Marked(ns, s) /\ Exists(ns, s, Reference) -> LastUsed(ns, s, Reference)
    [] ~Marked(ns, s) /\ ~Exists(ns, s, Reference) /\ Restorable(ns, s) # {} ->
         (CHOOSE f \in Restorable(ns, s) : \A g \in Restorable(ns, s) : g.last_used <= f.last_used).last_used
    [] OTHER -> 0

\* Whenever the machine stops, the next start succeeds: no superseded
\* reference is left without its replacement, and no quarantined reference is
\* newer than the active one, unless its session is marked for discard
\* (recover_superseded_reference, reconcile_existing_reference).
StartNeverRefused ==
  \A ns \in durable : \A f \in ns.files :
    f.intent \in {"Superseded", "Restore"} /\ ~Marked(ns, f.session)
      => IF f.intent = "Superseded" \/ Exists(ns, f.session, Reference)
         THEN Replaces(ns, f.session, f.last_used)
         ELSE Restorable(ns, f.session) = {f}

\* A session whose response was delivered survives every failure and crash,
\* with its archive, until the server decides to discard it.
KeptSurvives ==
  \A s \in Sessions : kept[s] # 0 =>
    \A ns \in durable : Recovered(ns, s) >= kept[s] /\ <<s, Recovered(ns, s)>> \in ns.blobs

\* A session whose discard was reported complete never comes back, however
\* the machine stops.
DiscardedStaysGone ==
  \A s \in discarded : \A ns \in durable : Recovered(ns, s) = 0

\* Leases of s, wherever they are held.
LeasesOf(s) ==
  {<<"session", mem[s].lease>>, <<"table", table[s]>>, <<"call", IF proc.v = s THEN proc.lease ELSE NoLease>>}

Live(holder) == holder[2].state \notin {"None", "Removed"}

\* Every quarantined file belongs to a live lease of its session, in the
\* lease's own state: no reference is stranded until the next start.
QuarantineOwned ==
  ~Starting =>
    \A f \in disk.files : f.intent # "Active" =>
      \E h \in LeasesOf(f.session) : h[2].nonce = f.nonce /\ h[2].state = f.intent

\* retain_recovery_lease: "Taking a retained lease keeps its recovery slot, so
\* its table slot remains available."  While no running session is forked, a
\* session has one lease, and a lease with a slot can always be retained.
SlotKeepsRoom ==
  \A s \in Sessions :
    /\ \A h, g \in LeasesOf(s) : Live(h) /\ Live(g) => h = g
    /\ mem[s].lease.slot \/ (proc.v = s /\ proc.lease.slot) => CanRetain(s)

\* The assertions of discard_leased_session, "a recovery lease has a bounded
\* owner" and "a no-slot discard lease has a bounded owner", never fail.
LeaseHasOwner == proc.pc # "panic"

\* Between requests the cached archive of a session is the one its reference
\* names, so that restoring it does not fail with "the persisted session
\* reference changed".
CacheAgrees ==
  proc.pc = "idle" => \A s \in Sessions : persisted[s] # 0 => persisted[s] = Recovered(disk, s)

\* A request, an insertion with its evictions, and a start all end.
CallsEnd == proc.pc # "idle" ~> proc.pc = "idle"

\* "A failed cleanup leaves the reference outside the autoload namespace": a
\* session whose discard failed is not loaded by the next start.
FailedCleanupNotAutoloaded ==
  proc.pc = "idle" =>
    \A s \in Sessions : DiscardPending(mem[s].lease) \/ DiscardPending(table[s]) => Recovered(disk, s) = 0
=============================================================================

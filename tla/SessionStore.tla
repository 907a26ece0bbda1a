---------------------------- MODULE SessionStore ----------------------------
(***************************************************************************)
(* crates/leone-cli/src/server.rs, SessionStore and SessionReferenceLease: *)
(* the files that keep sessions across restarts.                           *)
(*                                                                         *)
(* refs/ holds one reference per session that a start loads; quarantine/   *)
(* holds references that are leased, superseded or being discarded; blobs/ *)
(* holds the archives that references name.  A file is moved by an atomic  *)
(* rename, and a directory becomes durable when it is synced.              *)
(*                                                                         *)
(* The server is one thread, so a call of the store never interleaves with *)
(* another.  A call is a script: the list of its file operations, each     *)
(* with the lease as it stands once the operation has succeeded.  IoStep   *)
(* runs the next one, any of them may fail, and a crash may fall between   *)
(* any two.  proc says which call runs and who continues when it ends.     *)
(*                                                                         *)
(* One persist writes the archive and the reference that names it, so the  *)
(* reference's last_used stands for its blob_sha256 as well.               *)
(***************************************************************************)
EXTENDS Integers, Sequences, FiniteSets

CONSTANTS
  Sessions,        \* session identifiers
  MaxSessions,     \* --sessions: sessions kept resident
  MaxHibernated,   \* --hibernated-sessions: sessions kept on the host
  ForkParents,     \* the sessions that requests name as a fork parent
  FailingOps,      \* the file operations that may report an error
  MaxFailures,     \* bound: how many of them do
  MaxClock,        \* bound: ticks of the session clock
  MaxCrashes       \* bound: power losses and process exits

Operation == {"move", "remove", "sync", "link", "publish", "memory"}

ASSUME StoreAssumption ==
  /\ IsFiniteSet(Sessions) /\ Sessions # {}
  /\ MaxSessions \in Nat \ {0} /\ MaxHibernated \in Nat
  /\ ForkParents \subseteq Sessions /\ FailingOps \subseteq Operation
  /\ MaxFailures \in Nat /\ MaxClock \in Nat /\ MaxCrashes \in Nat

\* SessionStore::recovery_limit, which is also the size of the persisted cache.
RecoveryLimit == MaxSessions + MaxHibernated

VARIABLES
  disk,       \* [files, blobs] as the process sees them
  durable,    \* what a power loss may leave: every state since the last syncs
  mem,        \* [Sessions -> where the session is, its lease, its last_used]
  table,      \* SessionStore::recovery, the leases retained for recovery
  persisted,  \* Server::persisted, the cached last_used (0 when not cached)
  clock,      \* Server::clock
  proc,       \* the call in progress
  failures, crashes,
  kept,       \* history: last_used of the last persist a client was told of
  discarded   \* history: the sessions whose discard completed

disk_vars == <<disk, durable, failures>>
history_vars == <<crashes, kept, discarded>>
vars == <<disk, durable, mem, table, persisted, clock, proc, failures, crashes, kept, discarded>>

-----------------------------------------------------------------------------
(* Files *)

Intent == {"Restore", "Superseded", "Discard"}

\* refs/<key>.json, and quarantine/<key>-<nonce>.<intent>.json
Reference == [nonce |-> 0, intent |-> "Active"]
Quarantine(nonce, intent) == [nonce |-> nonce, intent |-> intent]
Blobs == [nonce |-> 0, intent |-> "Blob"]

File == [session : Sessions, nonce : Nat, intent : Intent \cup {"Active"}, last_used : Nat]

At(ns, s, path) == {f \in ns.files : f.session = s /\ f.nonce = path.nonce /\ f.intent = path.intent}

Exists(ns, s, path) == At(ns, s, path) # {}

LastUsed(ns, s, path) == IF Exists(ns, s, path) THEN (CHOOSE f \in At(ns, s, path) : TRUE).last_used ELSE 0

Written(s, path, used) ==
  [session |-> s, nonce |-> path.nonce, intent |-> path.intent, last_used |-> used]

\* The entries of the directory that holds path.
Directory(ns, path) ==
  CASE path.intent = "Blob"   -> ns.blobs
    [] path.intent = "Active" -> {f \in ns.files : f.intent = "Active"}
    [] OTHER                  -> {f \in ns.files : f.intent # "Active"}

Put(ns, s, path, used) == [ns EXCEPT !.files = (@ \ At(ns, s, path)) \cup {Written(s, path, used)}]

Drop(ns, s, path) == [ns EXCEPT !.files = @ \ At(ns, s, path)]

\* A nonce that no file of the session has used since the last syncs.
NewNonce(s) ==
  LET used == {f.nonce : f \in {g \in UNION {ns.files : ns \in durable} : g.session = s}}
  IN  CHOOSE n \in 1 .. Cardinality(used) + 1 : n \notin used

-----------------------------------------------------------------------------
(* Leases *)

LeaseState == {"None", "Restore", "Active", "Superseded", "Discard", "Removed"}

Lease == [state : LeaseState, nonce : Nat, discard : BOOLEAN, pending : BOOLEAN, slot : BOOLEAN]

NoLease == [state |-> "None", nonce |-> 0, discard |-> FALSE, pending |-> FALSE, slot |-> FALSE]

DiscardPending(lease) == lease.discard \/ lease.state = "Discard"

\* RecoverySlots in use: a slot lives as long as the lease that holds it.
RecoverySlots ==
  Cardinality({s \in Sessions : mem[s].lease.slot}) + Cardinality({s \in Sessions : table[s].slot})
    + (IF proc.lease.slot THEN 1 ELSE 0)

\* retain_recovery_lease finds room for a lease of s.
CanRetain(s) ==
  /\ table[s] = NoLease
  /\ Cardinality({r \in Sessions : table[r] # NoLease}) < RecoveryLimit

Retained(s, lease) == IF lease # NoLease /\ CanRetain(s) THEN [table EXCEPT ![s] = lease] ELSE table

-----------------------------------------------------------------------------
(* Scripts *)

Do(op, path, to, used, lease) ==
  [op |-> op, path |-> path, to |-> to, last_used |-> used, lease |-> lease]

Move(from, to, lease) == Do("move", from, to, 0, lease)
Remove(path, lease) == Do("remove", path, path, 0, lease)
Sync(path, lease) == Do("sync", path, path, 0, lease)

\* An error the code reports before it touches a file.
Refuse == <<Do("refuse", Reference, Reference, 0, NoLease)>>

Moved(lease, state) == [lease EXCEPT !.state = state, !.pending = TRUE]
Synced(lease) == [lease EXCEPT !.pending = FALSE]
RemovedLease(lease) ==
  [lease EXCEPT !.state = "Removed", !.pending = FALSE, !.discard = FALSE, !.slot = FALSE]

SyncPendingNamespaces(lease) ==
  IF ~lease.pending THEN <<>>
  ELSE <<Sync(Reference, lease), Sync(Quarantine(lease.nonce, "Restore"), Synced(lease))>>

RemoveSuperseded(lease) ==
  LET path == Quarantine(lease.nonce, "Superseded")
  IN  SyncPendingNamespaces(lease) \o <<Remove(path, Synced(lease)), Sync(path, RemovedLease(lease))>>

Retire(lease) ==
  CASE lease.discard \/ lease.state = "Discard" -> Refuse
    [] lease.state = "Restore" /\ ~lease.discard ->
         <<Move(Quarantine(lease.nonce, "Restore"), Quarantine(lease.nonce, "Superseded"),
                Moved(lease, "Superseded"))>>
           \o RemoveSuperseded(Moved(lease, "Superseded"))
    [] lease.state = "Superseded" /\ ~lease.discard -> RemoveSuperseded(lease)
    [] lease.state = "Active" /\ ~lease.discard -> SyncPendingNamespaces(lease)
    [] lease.state \in {"Removed", "None"} /\ ~lease.discard -> <<>>

\* The active reference of s is a valid replacement for one last used at used.
Replaces(ns, s, used) ==
  /\ LastUsed(ns, s, Reference) >= used
  /\ <<s, LastUsed(ns, s, Reference)>> \in ns.blobs

ActiveSupersedes(s, lease) == lease.state = "Restore" /\ Exists(disk, s, Reference)

\* The active reference is there and is not a valid replacement.
ActiveConflicts(s, lease) ==
  /\ ActiveSupersedes(s, lease)
  /\ ~Replaces(disk, s, LastUsed(disk, s, Quarantine(lease.nonce, "Restore")))

Restore(s, lease) ==
  IF lease.discard \/ ActiveConflicts(s, lease) THEN Refuse
  ELSE CASE lease.state = "Restore" /\ ~ActiveSupersedes(s, lease) ->
              <<Move(Quarantine(lease.nonce, "Restore"), Reference, Moved(lease, "Active"))>>
                \o SyncPendingNamespaces(Moved(lease, "Active"))
         [] lease.state = "Restore" /\ ActiveSupersedes(s, lease) -> Retire(lease)
         [] lease.state = "Active" -> SyncPendingNamespaces(lease)
         [] lease.state = "Superseded" -> Retire(lease)
         [] lease.state \in {"Discard", "Removed"} -> Refuse
         [] lease.state = "None" -> <<>>

Requarantine(lease) ==
  IF lease.state # "Active" THEN Refuse
  ELSE SyncPendingNamespaces(lease)
         \o <<Move(Reference, Quarantine(lease.nonce, "Restore"), Moved(lease, "Restore"))>>
         \o SyncPendingNamespaces(Moved(lease, "Restore"))

\* mark_discard_intent: where the reference is moved from.
DiscardSource(lease) ==
  IF lease.state = "Active" THEN Reference ELSE Quarantine(lease.nonce, lease.state)

\* Mutant: the active reference, published by a failed persist, is not removed.
DiscardKeepsReference(lease) ==
  LET marker == Quarantine(lease.nonce, "Discard")
      marked == IF lease.state = "Discard" THEN lease ELSE Moved(lease, "Discard")
      mark   == IF lease.state = "Discard" THEN <<>> ELSE <<Move(DiscardSource(lease), marker, marked)>>
  IN  mark \o SyncPendingNamespaces(marked)
        \o <<Remove(marker, Synced(marked)), Sync(marker, RemovedLease(marked))>>

\* The lease has discard_requested set before its first operation.
Discard(lease) ==
  LET marker == Quarantine(lease.nonce, "Discard")
      marked == IF lease.state = "Discard" THEN lease ELSE Moved(lease, "Discard")
      mark   == IF lease.state = "Discard" THEN <<>> ELSE <<Move(DiscardSource(lease), marker, marked)>>
  IN  mark \o SyncPendingNamespaces(marked)
        \o <<Remove(Reference, Synced(marked)), Sync(Reference, Synced(marked)),
             Remove(marker, Synced(marked)), Sync(marker, RemovedLease(marked))>>

\* lease_active_reference: the reference moves to quarantine under a new nonce.
LeaseReference(s) ==
  LET lease == [state |-> "Restore", nonce |-> NewNonce(s), discard |-> FALSE, pending |-> TRUE,
                slot |-> TRUE]
  IN  <<Move(Reference, Quarantine(lease.nonce, "Restore"), lease)>> \o SyncPendingNamespaces(lease)

\* write_session_blob and write_session_reference: a temporary file is
\* written and synced, then linked or renamed into its directory.
WriteSessionBlob(used) == <<Do("link", Blobs, Blobs, used, NoLease), Sync(Blobs, NoLease)>>

WriteSessionReference(used) ==
  <<Do("publish", Reference, Reference, used, NoLease), Sync(Reference, NoLease)>>

\* persist: the archive is durable before a reference names it.
Persist(used) == WriteSessionBlob(used) \o WriteSessionReference(used)

-----------------------------------------------------------------------------
(* Calls *)

\* Every step of a script keeps proc.v, the session the store call is about.
CanDo(step) == step.op # "refuse" /\ (step.op = "move" => Exists(disk, proc.v, step.path))

Effect(step) ==
  CASE step.op = "move"    -> Put(Drop(disk, proc.v, step.path), proc.v, step.to,
                                  LastUsed(disk, proc.v, step.path))
    [] step.op = "remove"  -> Drop(disk, proc.v, step.path)
    [] step.op = "link"    -> [disk EXCEPT !.blobs = @ \cup {<<proc.v, step.last_used>>}]
    [] step.op = "publish" -> Put(disk, proc.v, Reference, step.last_used)
    [] step.op = "sync"    -> disk

SyncDirectory(path) == {ns \in durable : Directory(ns, path) = Directory(disk, path)}

IoSucceeds ==
  /\ proc.io # <<>>
  /\ LET step == Head(proc.io)
     IN  /\ CanDo(step)
         /\ disk' = Effect(step)
         /\ durable' = IF step.op = "sync" THEN SyncDirectory(step.path) ELSE durable \cup {disk'}
         /\ proc' = [proc EXCEPT !.io = Tail(@), !.lease = step.lease]
  /\ UNCHANGED <<mem, table, persisted, clock, failures, history_vars>>

\* An operation that fails changes no file; the rest of the script is skipped.
IoFails ==
  /\ proc.io # <<>>
  /\ LET step == Head(proc.io)
     IN  IF CanDo(step)
         THEN step.op \in FailingOps /\ failures < MaxFailures /\ failures' = failures + 1
         ELSE UNCHANGED failures
  /\ proc' = [proc EXCEPT !.io = <<>>, !.ok = FALSE]
  /\ UNCHANGED <<disk, durable, mem, table, persisted, clock, history_vars>>

MemoryFails ==
  "memory" \in FailingOps /\ failures < MaxFailures /\ failures' = failures + 1

\* The call has reached pc and its script has ended.
Reached(pc) == proc.pc = pc /\ proc.io = <<>>

Call(pc, lease, io) == [proc EXCEPT !.pc = pc, !.lease = lease, !.io = io, !.ok = TRUE]

\* The store call ends, and its caller continues.
Return(ok, lease) == [proc EXCEPT !.pc = proc.then, !.lease = lease, !.io = <<>>, !.ok = ok]

\* No call in progress; the sessions it names do not matter.
Idle ==
  LET s == CHOOSE s \in Sessions : TRUE
  IN  [pc |-> "idle", top |-> "none", then |-> "none", s |-> s, v |-> s,
       lease |-> NoLease, io |-> <<>>, ok |-> TRUE]

-----------------------------------------------------------------------------
(* lease_reference: resolve a retained lease, then lease the active one *)

\* CheckActive: load_metadata reads the active reference, a lease moves it.
CheckActive == IF proc.then = "metadata" THEN Return(TRUE, NoLease) ELSE Call("leaseActive", NoLease, <<>>)

ResolveRecoveryLease(s, lease) ==
  CASE DiscardPending(lease) ->
         Call("resolvedDiscard", [lease EXCEPT !.discard = TRUE], Discard([lease EXCEPT !.discard = TRUE]))
    [] ~DiscardPending(lease) /\ ActiveConflicts(s, lease) -> Call("resolved", lease, Refuse)
    [] ~DiscardPending(lease) /\ ActiveSupersedes(s, lease) /\ ~ActiveConflicts(s, lease) ->
         Call("resolvedRetire", lease, Retire(lease))
    [] ~DiscardPending(lease) /\ lease.state = "Superseded" -> Call("resolvedRetire", lease, Retire(lease))
    [] ~DiscardPending(lease) /\ lease.state = "Restore" /\ ~ActiveSupersedes(s, lease) ->
         Call("resolved", lease, SyncPendingNamespaces(lease))
    [] ~DiscardPending(lease) /\ lease.state = "Active" -> Call("resolved", lease, Requarantine(lease))
    [] lease.state \in {"Removed", "None"} -> CheckActive

TakeRecoveryLease ==
  /\ Reached("lease")
  /\ table' = [table EXCEPT ![proc.v] = NoLease]
  /\ proc' = ResolveRecoveryLease(proc.v, table[proc.v])
  /\ UNCHANGED <<disk_vars, mem, persisted, clock, history_vars>>

\* A call that fails keeps the lease for a later one.
Resolved ==
  /\ \/ /\ Reached("resolved") /\ proc.ok
        /\ proc' = Return(TRUE, proc.lease)
        /\ UNCHANGED table
     \/ /\ Reached("resolvedRetire") /\ proc.ok
        /\ proc' = CheckActive
        /\ UNCHANGED table
     \/ /\ Reached("resolvedDiscard") /\ proc.ok
        /\ proc' = Return(TRUE, NoLease)
        /\ UNCHANGED table
     \/ /\ Reached("resolved") \/ Reached("resolvedRetire") \/ Reached("resolvedDiscard")
        /\ ~proc.ok
        /\ table' = Retained(proc.v, proc.lease)
        /\ proc' = Return(FALSE, NoLease)
  /\ discarded' = IF Reached("resolvedDiscard") /\ proc.ok THEN discarded \cup {proc.v} ELSE discarded
  /\ UNCHANGED <<disk_vars, mem, persisted, clock, crashes, kept>>

\* Mutant: one lease more than there are recovery slots.
LeaseActiveOverLimit ==
  /\ Reached("leaseActive")
  /\ \/ MemoryFails /\ proc' = Return(FALSE, NoLease)
     \/ /\ ~Exists(disk, proc.v, Reference)
        /\ proc' = Return(TRUE, NoLease)
        /\ UNCHANGED failures
     \/ /\ Exists(disk, proc.v, Reference) /\ RecoverySlots > RecoveryLimit
        /\ proc' = Return(FALSE, NoLease)
        /\ UNCHANGED failures
     \/ /\ Exists(disk, proc.v, Reference) /\ RecoverySlots <= RecoveryLimit
        /\ proc' = Call("leasing", NoLease, LeaseReference(proc.v))
        /\ UNCHANGED failures
  /\ UNCHANGED <<disk, durable, mem, table, persisted, clock, history_vars>>

LeaseActive ==
  /\ Reached("leaseActive")
  /\ \/ MemoryFails /\ proc' = Return(FALSE, NoLease)
     \/ /\ ~Exists(disk, proc.v, Reference)
        /\ proc' = Return(TRUE, NoLease)
        /\ UNCHANGED failures
     \/ /\ Exists(disk, proc.v, Reference) /\ RecoverySlots >= RecoveryLimit
        /\ proc' = Return(FALSE, NoLease)
        /\ UNCHANGED failures
     \/ /\ Exists(disk, proc.v, Reference) /\ RecoverySlots < RecoveryLimit
        /\ proc' = Call("leasing", NoLease, LeaseReference(proc.v))
        /\ UNCHANGED failures
  /\ UNCHANGED <<disk, durable, mem, table, persisted, clock, history_vars>>

\* Mutant: a failed sync drops the lease of the reference it moved.
LeasingDropsLease ==
  /\ Reached("leasing")
  /\ proc' = Return(proc.ok, IF proc.ok THEN proc.lease ELSE NoLease)
  /\ UNCHANGED <<disk_vars, mem, table, persisted, clock, history_vars>>

\* A lease that moved and was not synced is moved back and kept for recovery.
Leasing ==
  /\ Reached("leasing")
  /\ proc' = IF proc.ok \/ proc.lease = NoLease THEN Return(proc.ok, proc.lease)
             ELSE Call("unleasing", proc.lease, Restore(proc.v, proc.lease))
  /\ UNCHANGED <<disk_vars, mem, table, persisted, clock, history_vars>>

Unleasing ==
  /\ Reached("unleasing")
  /\ table' = Retained(proc.v, proc.lease)
  /\ proc' = Return(FALSE, NoLease)
  /\ UNCHANGED <<disk_vars, mem, persisted, clock, history_vars>>

-----------------------------------------------------------------------------
(* discard_session_with_reference and discard_leased_session *)

Absent == [at |-> "absent", lease |-> NoLease, last_used |-> 0]

OwnerHeld(s) == mem[s].at \in {"resident", "hibernated"}

\* remove_session_state
RemoveSessionState(s) ==
  /\ mem' = [mem EXCEPT ![s] = Absent]
  /\ persisted' = [persisted EXCEPT ![s] = 0]

DiscardLeased(lease) == Call("discarded", [lease EXCEPT !.discard = TRUE], Discard([lease EXCEPT !.discard = TRUE]))

\* lease_reference_for_discard of a reference that no lease has moved.
ActiveDiscardLease(s, slot) ==
  [state |-> "Active", nonce |-> NewNonce(s), discard |-> TRUE, pending |-> FALSE, slot |-> slot]

\* proc.lease is the lease the caller held, if any.
DiscardSession ==
  /\ Reached("discard")
  /\ LET s == proc.v
         lease == IF proc.lease # NoLease THEN proc.lease ELSE table[s]
     IN \/ /\ lease # NoLease
           /\ table' = IF proc.lease # NoLease THEN table ELSE [table EXCEPT ![s] = NoLease]
           /\ proc' = DiscardLeased(lease)
           /\ UNCHANGED <<mem, persisted, failures, discarded>>
        \/ /\ lease = NoLease
           /\ MemoryFails
           /\ RemoveSessionState(s)
           /\ proc' = Return(FALSE, NoLease)
           /\ UNCHANGED <<table, discarded>>
        \/ /\ lease = NoLease /\ ~Exists(disk, s, Reference)
           /\ RemoveSessionState(s)
           /\ discarded' = discarded \cup {s}
           /\ proc' = Return(TRUE, NoLease)
           /\ UNCHANGED <<table, failures>>
        \/ /\ lease = NoLease /\ Exists(disk, s, Reference)
           /\ RecoverySlots < RecoveryLimit \/ OwnerHeld(s)
           /\ proc' = DiscardLeased(ActiveDiscardLease(s, RecoverySlots < RecoveryLimit))
           /\ UNCHANGED <<mem, table, persisted, failures, discarded>>
        \/ /\ lease = NoLease /\ Exists(disk, s, Reference)
           /\ RecoverySlots >= RecoveryLimit /\ ~OwnerHeld(s)
           /\ RemoveSessionState(s)
           /\ proc' = Return(FALSE, NoLease)
           /\ UNCHANGED <<table, failures, discarded>>
  /\ kept' = [kept EXCEPT ![proc.v] = 0]
  /\ UNCHANGED <<disk, durable, clock, crashes>>

\* A lease with no slot, or no room in the table, stays with its owner; an
\* owner that is gone is the code's assert.
Discarded ==
  /\ Reached("discarded")
  /\ LET s == proc.v
     IN \/ /\ proc.ok
           /\ RemoveSessionState(s)
           /\ discarded' = discarded \cup {s}
           /\ proc' = Return(TRUE, NoLease)
           /\ UNCHANGED table
        \/ /\ ~proc.ok /\ proc.lease.slot /\ CanRetain(s)
           /\ table' = Retained(s, proc.lease)
           /\ RemoveSessionState(s)
           /\ proc' = Return(FALSE, NoLease)
           /\ UNCHANGED discarded
        \/ /\ ~proc.ok /\ ~(proc.lease.slot /\ CanRetain(s)) /\ OwnerHeld(s)
           /\ mem' = [mem EXCEPT ![s].lease = proc.lease]
           /\ persisted' = [persisted EXCEPT ![s] = 0]
           /\ proc' = Return(FALSE, NoLease)
           /\ UNCHANGED <<table, discarded>>
        \/ /\ ~proc.ok /\ ~(proc.lease.slot /\ CanRetain(s)) /\ ~OwnerHeld(s)
           /\ proc' = [proc EXCEPT !.pc = "panic"]
           /\ UNCHANGED <<mem, persisted, table, discarded>>
  /\ UNCHANGED <<disk_vars, clock, crashes, kept>>

-----------------------------------------------------------------------------
(* SessionStore::open: recover the quarantine, then load the references *)

OfIntent(intent) == {f \in disk.files : f.intent = intent}

\* The intents are recovered in this order.
NextIntent ==
  CASE OfIntent("Discard") # {} -> "Discard"
    [] OfIntent("Discard") = {} /\ OfIntent("Superseded") # {} -> "Superseded"
    [] OfIntent("Discard") = {} /\ OfIntent("Superseded") = {} /\ OfIntent("Restore") # {} -> "Restore"
    [] OTHER -> "None"

PathOf(file) == Quarantine(file.nonce, file.intent)

\* remove_other_quarantined_references, in one fixed order of the directory.
RemoveFiles(files) ==
  LET order == CHOOSE seq \in [1 .. Cardinality(files) -> files] :
                 \A i, j \in DOMAIN seq : seq[i] = seq[j] => i = j
  IN  [i \in DOMAIN order |-> Remove(PathOf(order[i]), NoLease)]

RecoverDiscarded(file) ==
  <<Remove(Reference, NoLease), Sync(Reference, NoLease)>>
    \o RemoveFiles({f \in disk.files : f.session = file.session /\ f.intent # "Active" /\ f # file})
    \o <<Sync(PathOf(file), NoLease), Remove(PathOf(file), NoLease), Sync(PathOf(file), NoLease)>>

ReconcileExisting(file) ==
  IF Replaces(disk, file.session, file.last_used)
  THEN <<Remove(PathOf(file), NoLease), Sync(PathOf(file), NoLease)>>
  ELSE Refuse

\* Mutant: a start drops the references that were leased when the last one stopped.
RecoverDropsRestorable(file) == <<Remove(PathOf(file), NoLease), Sync(PathOf(file), NoLease)>>

RecoverRestorable(file) ==
  IF Exists(disk, file.session, Reference) THEN ReconcileExisting(file)
  ELSE <<Move(PathOf(file), Reference, NoLease), Sync(Reference, NoLease), Sync(PathOf(file), NoLease)>>

RecoverSuperseded(file) ==
  IF Exists(disk, file.session, Reference) THEN ReconcileExisting(file) ELSE Refuse

RecoverReference(file) ==
  CASE file.intent = "Discard"    -> RecoverDiscarded(file)
    [] file.intent = "Superseded" -> RecoverSuperseded(file)
    [] file.intent = "Restore"    -> RecoverRestorable(file)

\* A start that fails is tried again.
RecoverQuarantine ==
  /\ Reached("recover")
  /\ \/ \E f \in OfIntent(NextIntent) :
          proc' = [proc EXCEPT !.v = f.session, !.io = RecoverReference(f), !.ok = TRUE]
     \/ /\ NextIntent = "None"
        /\ proc' = Call("load", NoLease, <<Sync(Reference, NoLease), Sync(Quarantine(0, "Restore"), NoLease)>>)
  /\ UNCHANGED <<disk_vars, mem, table, persisted, clock, history_vars>>

\* The newest S of the sessions by last_used, at most RecoveryLimit of them.
Newest(used) ==
  {s \in Sessions : used[s] # 0
                    /\ Cardinality({r \in Sessions : used[r] > used[s]}) < RecoveryLimit}

LoadSessionArchives ==
  /\ Reached("load")
  /\ IF proc.ok
     THEN LET used == [s \in Sessions |-> LastUsed(disk, s, Reference)]
          IN  /\ persisted' = [s \in Sessions |-> IF s \in Newest(used) THEN used[s] ELSE 0]
              /\ clock' = CHOOSE c \in {0} \cup {used[s] : s \in Sessions} :
                            \A s \in Sessions : used[s] <= c
              /\ proc' = Idle
     ELSE proc' = Call("recover", NoLease, <<>>) /\ UNCHANGED <<persisted, clock>>
  /\ UNCHANGED <<disk_vars, mem, table, history_vars>>

\* A new process starts on the files the last one left.
Start ==
  /\ mem' = [s \in Sessions |-> Absent]
  /\ table' = [s \in Sessions |-> NoLease]
  /\ persisted' = [s \in Sessions |-> 0]
  /\ clock' = 0
  /\ proc' = [Idle EXCEPT !.pc = "recover"]
  /\ UNCHANGED <<failures, kept, discarded>>

\* The process exits, or the power fails and what was not synced may be lost.
Crash ==
  /\ crashes < MaxCrashes
  /\ crashes' = crashes + 1
  /\ \/ UNCHANGED <<disk, durable>>
     \/ disk' \in durable /\ durable' = {disk'}
  /\ Start

\* A failed assertion ends the process.
Panic ==
  /\ proc.pc = "panic"
  /\ Start
  /\ UNCHANGED <<disk, durable, crashes>>
=============================================================================

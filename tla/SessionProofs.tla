---------------------------- MODULE SessionProofs ----------------------------
(***************************************************************************)
(* Proofs about SessionStore and SessionServer: the leases of sessions.    *)
(* With any forks: types, the recovery slots, and that every quarantined   *)
(* reference belongs to a lease.  While no running session is forked: one  *)
(* lease for a session, and room to retain it.                             *)
(***************************************************************************)
EXTENDS SessionServer, FiniteSetTheorems, SequenceTheorems, WellFoundedInduction, TLAPS

-----------------------------------------------------------------------------
(* Types *)

Paths == [nonce : Nat, intent : Intent \cup {"Active", "Blob"}]
StoredFile == [session : Sessions, nonce : Nat, intent : Intent \cup {"Active"},
               last_used : 0 .. MaxClock]
Namespace == [files : SUBSET StoredFile, blobs : SUBSET (Sessions \X Nat)]

Step == [op : {"move", "remove", "sync", "link", "publish", "refuse"},
         path : Paths, to : Paths, last_used : 0 .. MaxClock, lease : Lease]

\* lease_reference, and who continues after it.
LeasePcs == {"lease", "resolved", "resolvedRetire", "resolvedDiscard", "leaseActive", "leasing",
             "unleasing"}
LeaseThens == {"attach", "wake", "metadata", "restoring", "hibernating"}

\* discard_session_with_reference, and who continues after it.
DiscardPcs == {"discard", "discarded"}
DiscardThens == {"cold", "cancelled", "ended", "fitDiscarded"}

\* Between store calls: no lease in hand and no file operation left.
QuietPcs == {"idle", "lease", "leaseActive", "lost", "respond", "fit"} \cup DiscardThens

\* A lease is given back, or a session persisted and its old lease retired.
ScriptPcs == {"woken", "wakeFailed", "unloaded", "persisted", "retired", "retained", "evicted",
              "captured", "uncaptured"}

Pcs == LeasePcs \cup LeaseThens \cup DiscardPcs \cup QuietPcs \cup ScriptPcs
         \cup {"recover", "load", "panic"}
Tops == {"none", "continue", "fork", "finish", "retain", "cancelled", "ended"}
Thens == {"none", "lost"} \cup LeaseThens \cup DiscardThens

Held == [at : {"absent", "task", "resident", "hibernated"}, lease : Lease, last_used : Nat]

CallType == [pc : Pcs, top : Tops, then : Thens, s : Sessions, v : Sessions, lease : Lease,
             io : Seq(Step), ok : BOOLEAN]

TypeInv ==
  /\ disk \in durable
  /\ durable \subseteq Namespace /\ IsFiniteSet(durable)
  /\ \A ns \in durable : IsFiniteSet(ns.files)
  /\ mem \in [Sessions -> Held]
  /\ table \in [Sessions -> Lease]
  /\ persisted \in [Sessions -> Nat] /\ kept \in [Sessions -> Nat]
  /\ clock \in 0 .. MaxClock /\ failures \in 0 .. MaxFailures /\ crashes \in 0 .. MaxCrashes
  /\ discarded \subseteq Sessions
  /\ proc \in CallType

-----------------------------------------------------------------------------
(* The call in progress *)

\* The call is at one of these places, or will be when lease_reference returns.
Heading(c, places) == c.pc \in places \/ (c.pc \in LeasePcs /\ c.then \in places)

Waking == {"wake", "woken", "wakeFailed"}
Hibernating == {"hibernating", "captured", "uncaptured"}
Loading == {"metadata", "restoring", "unloaded"}
Finishing == {"persisted", "retired", "retained"}
StartPcs == {"recover", "load"}

\* The call is about another session than the request: one that must make room.
Fitting(c) ==
  \/ Heading(c, Hibernating \cup {"evicted", "fitDiscarded", "lost"})
  \/ c.pc \in DiscardPcs /\ c.then \in {"fitDiscarded", "lost"}

CallOK(c, time) ==
  /\ c.pc \in LeasePcs => c.then \in LeaseThens
  /\ c.pc = "discard" => c.then \in DiscardThens
  /\ c.pc = "discarded" => c.then \in DiscardThens \cup {"lost"}
  /\ c.pc \in QuietPcs \cup LeaseThens \cup {"discard", "panic"} => c.io = <<>>
  /\ ~c.ok => c.io = <<>>
  /\ Heading(c, {"wake", "woken"}) /\ c.top = "fork" => time < MaxClock
  /\ c.pc \in {"persisted", "retained"} => time < MaxClock
  /\ Heading(c, {"attach"} \cup Waking \cup Loading) => c.top \in {"continue", "fork"}
  /\ Fitting(c) \/ c.pc \in StartPcs \cup {"panic"} \/ c.v = c.s

\* Where the session of the call is.
WhereOK(c, at) ==
  /\ Heading(c, {"attach"}) => at = "resident"
  /\ Heading(c, Waking) => at = "hibernated"
  /\ Heading(c, Hibernating) => at = "resident"
  /\ c.pc = "evicted" => at = "hibernated"
  /\ c.pc \in Finishing => at = "task"
  /\ Heading(c, Loading) /\ c.top = "continue" => at = "absent"
  /\ c.pc = "cold" /\ c.ok => at = "absent"
  /\ c.pc \in DiscardPcs /\ c.then = "cancelled" => at = "task"

-----------------------------------------------------------------------------
(* Leases *)

LiveLease(l) == l.state \notin {"None", "Removed"}

\* A lease that waits in memory or in the table.
Waiting(l) == l = NoLease \/ LiveLease(l)

\* The table's place for the session of the call is free.
TableFree(c) ==
  \/ c.pc \in (LeasePcs \ {"lease"}) \cup {"unloaded"}
  \/ c.pc \in {"metadata", "restoring"} /\ c.ok

\* The lease of the call's session was taken out of memory.
Taken(c) ==
  \/ Heading(c, {"attach"} \cup Waking \cup Hibernating)
  \/ c.pc \in {"evicted", "retired", "retained", "cancelled"} \cup DiscardPcs

\* The lease in hand, and those that wait in memory and in the table.
HandOK(c, waits, retained) ==
  /\ c.pc \in QuietPcs \cup StartPcs \cup {"persisted"} => c.lease = NoLease
  /\ c.pc \in LeaseThens /\ ~c.ok => c.lease = NoLease
  /\ \/ Waiting(c.lease)
     \/ c.lease.state = "Removed" /\ c.io = <<>> /\ c.ok /\ ~c.lease.discard
  /\ c.pc \in LeaseThens \cup {"discard"} => Waiting(c.lease)
  /\ LiveLease(c.lease) => c.lease.slot \/ c.lease.discard
  /\ ~LiveLease(c.lease) => ~c.lease.slot
  /\ LiveLease(c.lease) /\ (c.pc \in LeasePcs \/ Heading(c, Loading)) => c.lease.slot
  /\ LiveLease(c.lease) /\ c.pc \notin DiscardPcs \cup {"resolvedDiscard", "panic"} =>
       ~DiscardPending(c.lease)
  /\ c.pc \in {"discarded", "resolvedDiscard"} /\ LiveLease(c.lease) => c.lease.discard
  /\ c.pc \in {"metadata", "restoring"} => c.lease.state \in {"None", "Restore"}
  /\ TableFree(c) => retained = NoLease
  /\ Taken(c) => waits = NoLease

\* The lease that a script leaves.
FinalLease(l, io) == IF io = <<>> THEN l ELSE io[Len(io)].lease

\* Calls that are done with their lease when they succeed.
ReleasePcs == {"resolvedRetire", "resolvedDiscard", "discarded"} \cup (ScriptPcs \ {"persisted"})

EndOK(c) ==
  /\ c.pc \in ReleasePcs /\ c.ok => FinalLease(c.lease, c.io).state \notin Intent
  /\ c.pc \in {"resolved", "leasing"} /\ c.ok =>
       FinalLease(c.lease, c.io).state \in {"None", "Restore"}
  /\ c.pc \in {"resolved", "leasing", "unleasing"} =>
       /\ c.lease.state # "Removed"
       /\ \A i \in 1 .. Len(c.io) : c.io[i].lease.state # "Removed"

\* Once lease_active_reference has moved the reference, only syncs are left.
LeasingOK(ns, c) ==
  c.pc = "leasing" =>
    /\ LiveLease(c.lease) => c.lease.state = "Restore" /\ ~Exists(ns, c.v, Reference)
    /\ c.lease = NoLease /\ c.io # <<>> =>
         c.io[1].op = "move" /\ c.io[1].path = Reference /\ c.io[1].to.intent = "Restore"
    /\ \A i \in 1 .. Len(c.io) : i > 1 \/ LiveLease(c.lease) => c.io[i].op = "sync"

\* A session in memory with its lease; only a discard needs no slot.
SessionOK(h) ==
  /\ h.at = "absent" => h.lease = NoLease
  /\ h.at = "task" => ~DiscardPending(h.lease)
  /\ Waiting(h.lease)
  /\ h.lease = NoLease \/ h.lease.slot \/ h.lease.discard

RetainedOK(l) == Waiting(l) /\ (l = NoLease \/ l.slot)

\* No step has a lease in hand: a persist, and the recovery of a start.
Leaseless(io) == \A i \in 1 .. Len(io) : io[i].lease = NoLease

\* A start moves references only to where the server loads them from.
MovesToRefs(io) == \A i \in 1 .. Len(io) : io[i].op = "move" => io[i].to = Reference

ControlInv ==
  /\ CallOK(proc, clock)
  /\ WhereOK(proc, mem[proc.v].at)
  /\ HandOK(proc, mem[proc.v].lease, table[proc.v])
  /\ EndOK(proc) /\ LeasingOK(disk, proc)
  /\ \A s \in Sessions : SessionOK(mem[s]) /\ RetainedOK(table[s])
  /\ Starting => /\ mem = [s \in Sessions |-> Absent]
                 /\ table = [s \in Sessions |-> NoLease]
                 /\ Leaseless(proc.io) /\ MovesToRefs(proc.io)
  /\ proc.pc = "load" => /\ \A f \in disk.files : f.intent = "Active"
                         /\ \A i \in 1 .. Len(proc.io) : proc.io[i].op = "sync"

\* The slots in use.
Slots(m, t, l) ==
  Cardinality({s \in Sessions : m[s].lease.slot}) + Cardinality({s \in Sessions : t[s].slot})
    + (IF l.slot THEN 1 ELSE 0)

\* RecoverySlots never has more slots than recovery_limit.
SlotInv ==
  /\ Slots(mem, table, proc.lease) <= RecoveryLimit
  /\ proc.pc = "leasing" /\ proc.lease = NoLease /\ proc.io # <<>> =>
       Slots(mem, table, proc.lease) < RecoveryLimit

-----------------------------------------------------------------------------
(* The scripts and the leases *)

\* Where the reference of a lease is.
PlaceOf(l) == IF l.state = "Active" THEN Reference ELSE Quarantine(l.nonce, l.state)

\* The same lease, synced or not.
SameLease(l, m) == m.state = l.state /\ m.nonce = l.nonce /\ m.slot = l.slot /\ m.discard = l.discard

\* The lease that step i of a script starts from.
Before(l, io, i) == IF i = 1 THEN l ELSE io[i - 1].lease

\* The step moves the reference of a lease, or takes one.
MovesLease(l, step) ==
  /\ step.op = "move"
  /\ step.to = PlaceOf(step.lease)
  /\ step.lease.state \in {"Restore", "Active", "Superseded", "Discard"}
  /\ step.lease.state = "Discard" => l.discard
  /\ \/ /\ l = NoLease /\ step.path = Reference
        /\ step.lease.state = "Restore" /\ step.lease.slot /\ ~step.lease.discard
     \/ /\ LiveLease(l) /\ step.path = PlaceOf(l)
        /\ step.lease.nonce = l.nonce /\ step.lease.slot = l.slot /\ step.lease.discard = l.discard

\* The last step of a script whose lease has no file any more.
EndsLease(ns, s, l, io, i) ==
  /\ io[i].op = "sync" /\ i = Len(io)
  /\ io[i].lease.state = "Removed" /\ ~io[i].lease.slot /\ ~io[i].lease.discard
  /\ IF i = 1 THEN ~Exists(ns, s, PlaceOf(l))
     ELSE io[i - 1].op = "remove" /\ io[i - 1].path = PlaceOf(Before(l, io, i))

LegalStep(ns, s, l, io, i) ==
  \/ io[i].op = "refuse"
  \/ io[i].op \in {"sync", "remove", "link", "publish"} /\ SameLease(Before(l, io, i), io[i].lease)
  \/ MovesLease(Before(l, io, i), io[i])
  \/ EndsLease(ns, s, l, io, i)

Legal(ns, s, l, io) == \A i \in 1 .. Len(io) : LegalStep(ns, s, l, io, i)

ScriptInv ==
  /\ ~Starting => Legal(disk, proc.v, proc.lease, proc.io)
  /\ proc.pc # "leasing" /\ proc.lease = NoLease => Leaseless(proc.io)

\* A lease of s in this state, wherever it is held.
HeldBy(m, t, c, s, nonce, state) ==
  \/ m[s].lease.nonce = nonce /\ m[s].lease.state = state
  \/ t[s].nonce = nonce /\ t[s].state = state
  \/ c.v = s /\ c.lease.nonce = nonce /\ c.lease.state = state

OwnedInv ==
  ~Starting => \A f \in disk.files : f.intent # "Active" =>
                 HeldBy(mem, table, proc, f.session, f.nonce, f.intent)

SessionInv == TypeInv /\ ControlInv /\ SlotInv /\ ScriptInv /\ OwnedInv

-----------------------------------------------------------------------------
(* Leases, paths and steps *)

LEMMA LeaseFacts ==
  /\ NoLease \in Lease /\ NoLease.state = "None" /\ NoLease.nonce = 0
  /\ ~NoLease.slot /\ ~NoLease.discard /\ ~NoLease.pending
  /\ ~LiveLease(NoLease) /\ Waiting(NoLease) /\ ~DiscardPending(NoLease)
BY DEF NoLease, Lease, LeaseState, LiveLease, Waiting, DiscardPending

LEMMA MovedFacts ==
  ASSUME NEW l \in Lease, NEW state \in LeaseState
  PROVE  /\ Moved(l, state) \in Lease
         /\ Moved(l, state).state = state /\ Moved(l, state).nonce = l.nonce
         /\ Moved(l, state).slot = l.slot /\ Moved(l, state).discard = l.discard
         /\ Moved(l, state).pending
BY DEF Moved, Lease

LEMMA SyncedFacts ==
  ASSUME NEW l \in Lease
  PROVE  /\ Synced(l) \in Lease /\ SameLease(l, Synced(l)) /\ SameLease(l, l)
         /\ ~Synced(l).pending /\ PlaceOf(Synced(l)) = PlaceOf(l)
BY DEF Synced, Lease, SameLease, PlaceOf

LEMMA RemovedFacts ==
  ASSUME NEW l \in Lease
  PROVE  /\ RemovedLease(l) \in Lease /\ RemovedLease(l).state = "Removed"
         /\ ~RemovedLease(l).slot /\ ~RemovedLease(l).discard /\ ~LiveLease(RemovedLease(l))
BY DEF RemovedLease, Lease, LeaseState, LiveLease

LEMMA DiscardingFacts ==
  ASSUME NEW l \in Lease
  PROVE  LET d == [l EXCEPT !.discard = TRUE]
         IN  /\ d \in Lease /\ d.state = l.state /\ d.nonce = l.nonce
             /\ d.slot = l.slot /\ d.discard /\ d.pending = l.pending
             /\ DiscardPending(d) /\ PlaceOf(d) = PlaceOf(l)
BY DEF Lease, DiscardPending, PlaceOf

LEMMA PathFacts ==
  /\ Reference \in Paths /\ Blobs \in Paths
  /\ Reference.nonce = 0 /\ Reference.intent = "Active" /\ Blobs.intent = "Blob"
  /\ \A n \in Nat, intent \in Intent :
       /\ Quarantine(n, intent) \in Paths /\ Quarantine(n, intent) # Reference
       /\ Quarantine(n, intent).nonce = n /\ Quarantine(n, intent).intent = intent
BY DEF Reference, Blobs, Quarantine, Paths, Intent

LEMMA StepFacts ==
  ASSUME NEW p \in Paths, NEW q \in Paths, NEW l \in Lease
  PROVE  /\ Move(p, q, l) \in Step /\ Move(p, q, l).op = "move" /\ Move(p, q, l).path = p
         /\ Move(p, q, l).to = q /\ Move(p, q, l).lease = l
         /\ Remove(p, l) \in Step /\ Remove(p, l).op = "remove" /\ Remove(p, l).path = p
         /\ Remove(p, l).lease = l
         /\ Sync(p, l) \in Step /\ Sync(p, l).op = "sync" /\ Sync(p, l).path = p
         /\ Sync(p, l).lease = l
BY StoreAssumption DEF Move, Remove, Sync, Do, Step

LEMMA RefuseFacts ==
  ASSUME NEW ns, NEW s, NEW l
  PROVE  /\ Refuse \in Seq(Step) /\ Len(Refuse) = 1 /\ Refuse[1].op = "refuse"
         /\ Legal(ns, s, l, Refuse) /\ Leaseless(Refuse)
<1>1. Do("refuse", Reference, Reference, 0, NoLease) \in Step
  BY LeaseFacts, PathFacts, StoreAssumption DEF Do, Step
<1> QED
  BY <1>1 DEF Refuse, Do, Legal, LegalStep, Leaseless

LEMMA EmptyFacts ==
  ASSUME NEW ns, NEW s, NEW l
  PROVE  <<>> \in Seq(Step) /\ Len(<<>>) = 0 /\ Legal(ns, s, l, <<>>) /\ Leaseless(<<>>)
BY DEF Legal, Leaseless

-----------------------------------------------------------------------------
(* The scripts of a lease *)

LEMMA SyncPendingFacts ==
  ASSUME NEW l \in Lease
  PROVE  /\ SyncPendingNamespaces(l) \in Seq(Step)
         /\ ~l.pending => Len(SyncPendingNamespaces(l)) = 0
         /\ l.pending => /\ Len(SyncPendingNamespaces(l)) = 2
                         /\ SyncPendingNamespaces(l)[1] = Sync(Reference, l)
                         /\ SyncPendingNamespaces(l)[2]
                              = Sync(Quarantine(l.nonce, "Restore"), Synced(l))
<1>1. l.nonce \in Nat
  BY DEF Lease
<1>2. Quarantine(l.nonce, "Restore") \in Paths
  BY <1>1, PathFacts DEF Intent
<1>3. Sync(Reference, l) \in Step /\ Sync(Quarantine(l.nonce, "Restore"), Synced(l)) \in Step
  BY <1>2, PathFacts, StepFacts, SyncedFacts
<1> QED
  BY <1>3 DEF SyncPendingNamespaces

\* After the syncs the lease is not pending.
LEMMA SyncPendingLegal ==
  ASSUME NEW ns, NEW s, NEW l \in Lease
  PROVE  Legal(ns, s, l, SyncPendingNamespaces(l))
<1>1. l.nonce \in Nat
  BY DEF Lease
<1>2. Quarantine(l.nonce, "Restore") \in Paths /\ Reference \in Paths
  BY <1>1, PathFacts DEF Intent
<1>3. /\ Sync(Reference, l).op = "sync" /\ Sync(Reference, l).lease = l
      /\ Sync(Quarantine(l.nonce, "Restore"), Synced(l)).op = "sync"
      /\ Sync(Quarantine(l.nonce, "Restore"), Synced(l)).lease = Synced(l)
  BY <1>2, StepFacts, SyncedFacts
<1> QED
  BY <1>3, SyncPendingFacts, SyncedFacts DEF Legal, LegalStep, Before

\* A sequence of two parts, element by element.
LEMMA JoinFacts ==
  ASSUME NEW a \in Seq(Step), NEW b \in Seq(Step)
  PROVE  /\ a \o b \in Seq(Step) /\ Len(a \o b) = Len(a) + Len(b)
         /\ \A i \in 1 .. Len(a) : (a \o b)[i] = a[i]
         /\ \A i \in 1 .. Len(b) : (a \o b)[Len(a) + i] = b[i]
OBVIOUS

LEMMA OneFacts ==
  ASSUME NEW a \in Step
  PROVE  <<a>> \in Seq(Step) /\ Len(<<a>>) = 1 /\ <<a>>[1] = a
OBVIOUS

LEMMA TwoFacts ==
  ASSUME NEW a \in Step, NEW b \in Step
  PROVE  <<a, b>> \in Seq(Step) /\ Len(<<a, b>>) = 2 /\ <<a, b>>[1] = a /\ <<a, b>>[2] = b
OBVIOUS

\* A script that follows another from the lease it leaves.  No step of the first
\* ends the lease, and the second does not begin with its end.
LEMMA JoinLegal ==
  ASSUME NEW ns, NEW s, NEW l, NEW m, NEW a \in Seq(Step), NEW b \in Seq(Step),
         Legal(ns, s, l, a), Legal(ns, s, m, b),
         m = IF Len(a) = 0 THEN l ELSE a[Len(a)].lease,
         \A i \in 1 .. Len(a) : a[i].lease.state # "Removed",
         Len(b) > 0 => b[1].lease.state # "Removed"
  PROVE  Legal(ns, s, l, a \o b)
<1> DEFINE c == a \o b
<1>1. /\ c \in Seq(Step) /\ Len(c) = Len(a) + Len(b)
      /\ \A i \in 1 .. Len(a) : c[i] = a[i]
      /\ \A i \in 1 .. Len(b) : c[Len(a) + i] = b[i]
      /\ Len(a) \in Nat /\ Len(b) \in Nat
  BY JoinFacts
<1> HIDE DEF c
<1>2. ASSUME NEW i \in 1 .. Len(a)
      PROVE  LegalStep(ns, s, l, c, i)
  <2>1. LegalStep(ns, s, l, a, i) /\ ~EndsLease(ns, s, l, a, i)
    BY <1>2 DEF Legal, EndsLease
  <2>2. c[i] = a[i] /\ Before(l, c, i) = Before(l, a, i)
    BY <1>1, <1>2 DEF Before
  <2> QED
    BY <2>1, <2>2 DEF LegalStep
<1>3. ASSUME NEW k \in 1 .. Len(b)
      PROVE  LegalStep(ns, s, l, c, Len(a) + k)
  <2>1. LegalStep(ns, s, m, b, k)
    BY <1>3 DEF Legal
  <2>2. c[Len(a) + k] = b[k] /\ Before(l, c, Len(a) + k) = Before(m, b, k)
    <3>1. CASE k = 1
      <4>1. Len(a) # 0 => Len(a) \in 1 .. Len(a) /\ Len(a) + 1 - 1 = Len(a) /\ Len(a) + 1 # 1
        BY <1>1
      <4> QED
        BY <1>1, <3>1, <4>1 DEF Before
    <3>2. CASE k > 1
      <4>1. /\ k - 1 \in 1 .. Len(b) /\ Len(a) + k - 1 = Len(a) + (k - 1) /\ Len(a) + k # 1
            /\ k # 1
        BY <1>1, <1>3, <3>2
      <4>2. c[Len(a) + (k - 1)] = b[k - 1] /\ c[Len(a) + k] = b[k]
        BY <1>1, <1>3, <4>1
      <4>3. c[Len(a) + k - 1] = b[k - 1]
        BY <4>1, <4>2
      <4> QED
        BY <4>1, <4>2, <4>3 DEF Before
    <3> QED
      BY <1>3, <3>1, <3>2
  <2>3. CASE k = 1
    <3>1. ~EndsLease(ns, s, m, b, k)
      BY <2>3, <1>3 DEF EndsLease
    <3> QED
      BY <2>1, <2>2, <3>1 DEF LegalStep
  <2>4. CASE k > 1
    <3>1. EndsLease(ns, s, m, b, k) => EndsLease(ns, s, l, c, Len(a) + k)
      <4>1. /\ k - 1 \in 1 .. Len(b) /\ Len(a) + k - 1 = Len(a) + (k - 1) /\ Len(a) + k # 1
            /\ k # 1
        BY <1>1, <1>3, <2>4
      <4>3. k = Len(b) => Len(a) + k = Len(c)
        BY <1>1
      <4>2. c[Len(a) + k - 1] = b[k - 1]
        BY <1>1, <4>1
      <4> QED
        BY <2>2, <4>1, <4>2, <4>3 DEF EndsLease
    <3> QED
      BY <2>1, <2>2, <3>1 DEF LegalStep
  <2> QED
    BY <1>3, <2>3, <2>4
<1>4. \A i \in 1 .. Len(c) : i \in 1 .. Len(a) \/ \E k \in 1 .. Len(b) : i = Len(a) + k
  <2> SUFFICES ASSUME NEW i \in 1 .. Len(c), i \notin 1 .. Len(a)
               PROVE  \E k \in 1 .. Len(b) : i = Len(a) + k
    OBVIOUS
  <2>1. i - Len(a) \in 1 .. Len(b) /\ i = Len(a) + (i - Len(a))
    BY <1>1
  <2> QED
    BY <2>1
<1> QED
  BY <1>2, <1>3, <1>4 DEF Legal, c

LEMMA RemoveSupersededFacts ==
  ASSUME NEW ns, NEW s, NEW l \in Lease, l.state = "Superseded"
  PROVE  /\ RemoveSuperseded(l) \in Seq(Step) /\ Legal(ns, s, l, RemoveSuperseded(l))
         /\ Len(RemoveSuperseded(l)) > 0 /\ RemoveSuperseded(l)[1].lease.state # "Removed"
<1> DEFINE path == Quarantine(l.nonce, "Superseded")
           a == SyncPendingNamespaces(l)
           b == <<Remove(path, Synced(l)), Sync(path, RemovedLease(l))>>
<1>1. path \in Paths /\ path = PlaceOf(l) /\ Reference \in Paths /\ Quarantine(l.nonce, "Restore") \in Paths
  BY PathFacts DEF Lease, Intent, PlaceOf
<1> HIDE DEF path
<1>2. /\ Remove(path, Synced(l)) \in Step /\ Sync(path, RemovedLease(l)) \in Step
      /\ Remove(path, Synced(l)).op = "remove" /\ Remove(path, Synced(l)).path = path
      /\ Remove(path, Synced(l)).lease = Synced(l)
      /\ Sync(path, RemovedLease(l)).op = "sync" /\ Sync(path, RemovedLease(l)).lease = RemovedLease(l)
      /\ Sync(Reference, l).lease = l
      /\ Sync(Quarantine(l.nonce, "Restore"), Synced(l)).lease = Synced(l)
  BY <1>1, StepFacts, SyncedFacts, RemovedFacts
<1>3. b \in Seq(Step) /\ Len(b) = 2 /\ b[1] = Remove(path, Synced(l)) /\ b[2] = Sync(path, RemovedLease(l))
  BY <1>2, TwoFacts
<1> HIDE DEF b
<1>4. a \in Seq(Step) /\ Legal(ns, s, l, a) /\ Len(a) \in {0, 2}
  BY SyncPendingFacts, SyncPendingLegal
<1>5. \A i \in 1 .. Len(a) : a[i].lease.state = "Superseded"
  BY <1>2, SyncPendingFacts, SyncedFacts DEF SameLease
<1> DEFINE m == IF Len(a) = 0 THEN l ELSE a[Len(a)].lease
<1>6. m \in Lease /\ SameLease(l, m) /\ PlaceOf(m) = path
  BY <1>1, <1>2, SyncPendingFacts, SyncedFacts
<1>7. SameLease(m, Synced(l))
  BY <1>6, SyncedFacts DEF SameLease
<1> HIDE DEF m
<1>8. PlaceOf(Synced(l)) = path
  BY <1>1, SyncedFacts
<1> HIDE DEF a
<1>9. Legal(ns, s, m, b)
  <2>1. LegalStep(ns, s, m, b, 1)
    BY <1>2, <1>3, <1>7 DEF LegalStep, Before
  <2>2. LegalStep(ns, s, m, b, 2)
    BY <1>2, <1>3, <1>8, RemovedFacts DEF LegalStep, Before, EndsLease
  <2> QED
    BY <1>3, <2>1, <2>2 DEF Legal
<1>10. b[1].lease.state = "Superseded"
  BY <1>2, <1>3, SyncedFacts DEF SameLease
<1>11. a \o b \in Seq(Step) /\ Legal(ns, s, l, a \o b) /\ Len(a \o b) > 0
  <2>1. Len(b) > 0 => b[1].lease.state # "Removed"
    BY <1>10
  <2>2. m = IF Len(a) = 0 THEN l ELSE a[Len(a)].lease
    BY DEF m
  <2>3. Legal(ns, s, l, a \o b)
    BY <1>3, <1>4, <1>5, <1>9, <2>1, <2>2, JoinLegal
  <2> QED
    BY <1>3, <1>4, <2>3, JoinFacts
<1>12. (a \o b)[1].lease.state = "Superseded"
  BY <1>3, <1>4, <1>5, <1>10, JoinFacts
<1>13. RemoveSuperseded(l) = a \o b
  BY DEF RemoveSuperseded, path, a, b
<1> QED
  BY <1>11, <1>12, <1>13

LEMMA ConsFacts ==
  ASSUME NEW a \in Step, NEW b \in Seq(Step)
  PROVE  /\ <<a>> \o b \in Seq(Step) /\ Len(<<a>> \o b) = Len(b) + 1 /\ (<<a>> \o b)[1] = a
         /\ \A i \in 1 .. Len(b) : (<<a>> \o b)[i + 1] = b[i]
OBVIOUS

LEMMA ConsLegal ==
  ASSUME NEW ns, NEW s, NEW l, NEW m, NEW a \in Step, NEW b \in Seq(Step), a.lease = m,
         MovesLease(l, a) \/ (a.op \in {"sync", "remove", "link", "publish"} /\ SameLease(l, m)),
         m.state # "Removed", Legal(ns, s, m, b),
         Len(b) > 0 => b[1].lease.state # "Removed"
  PROVE  /\ <<a>> \o b \in Seq(Step) /\ Legal(ns, s, l, <<a>> \o b)
         /\ Len(<<a>> \o b) = Len(b) + 1 /\ (<<a>> \o b)[1] = a
         /\ \A i \in 1 .. Len(b) : (<<a>> \o b)[i + 1] = b[i]
<1> DEFINE one == <<a>>
<1>1. one \in Seq(Step) /\ Len(one) = 1 /\ one[1] = a
  BY OneFacts
<1> HIDE DEF one
<1>2. Legal(ns, s, l, one)
  BY <1>1 DEF Legal, LegalStep, Before
<1>3. \A i \in 1 .. Len(one) : one[i].lease.state # "Removed"
  BY <1>1
<1>4. m = IF Len(one) = 0 THEN l ELSE one[Len(one)].lease
  BY <1>1
<1>5. Legal(ns, s, l, one \o b)
  BY <1>1, <1>2, <1>3, <1>4, JoinLegal
<1> QED
  BY <1>5, ConsFacts DEF one

LEMMA PlaceFacts ==
  ASSUME NEW l \in Lease, l.state \in Intent \cup {"Active"}
  PROVE  /\ PlaceOf(l) \in Paths /\ LiveLease(l)
         /\ l.state = "Active" => PlaceOf(l) = Reference
         /\ l.state # "Active" => PlaceOf(l) = Quarantine(l.nonce, l.state)
BY PathFacts DEF Lease, PlaceOf, LiveLease, Intent

\* The move of a lease to another state.
LEMMA MoveLegal ==
  ASSUME NEW l \in Lease, l.state \in Intent \cup {"Active"},
         NEW state \in Intent \cup {"Active"}, state = "Discard" => l.discard
  PROVE  LET m == Moved(l, state)
             step == Move(PlaceOf(l), PlaceOf(m), m)
         IN  /\ m \in Lease /\ step \in Step /\ MovesLease(l, step)
             /\ step.lease = m /\ step.op = "move" /\ step.lease.state # "Removed"
             /\ m.state = state /\ m.nonce = l.nonce /\ m.pending
             /\ m.discard = l.discard /\ m.slot = l.slot
<1> DEFINE m == Moved(l, state)
           step == Move(PlaceOf(l), PlaceOf(m), m)
<1>1. /\ m \in Lease /\ m.state = state /\ m.nonce = l.nonce /\ m.pending
      /\ m.discard = l.discard /\ m.slot = l.slot
  BY MovedFacts DEF Intent, LeaseState
<1> HIDE DEF m
<1>2. PlaceOf(l) \in Paths /\ PlaceOf(m) \in Paths /\ LiveLease(l)
  BY <1>1, PlaceFacts
<1>3. /\ step \in Step /\ step.op = "move" /\ step.path = PlaceOf(l) /\ step.to = PlaceOf(m)
      /\ step.lease = m
  BY <1>1, <1>2, StepFacts
<1> HIDE DEF step
<1>4. MovesLease(l, step)
  BY <1>1, <1>2, <1>3 DEF MovesLease, Intent
<1> QED
  BY <1>1, <1>3, <1>4 DEF m, step, Intent

\* The syncs leave the lease as it was, not pending.
LEMMA SyncPendingLeases ==
  ASSUME NEW l \in Lease
  PROVE  /\ \A i \in 1 .. Len(SyncPendingNamespaces(l)) :
              SameLease(l, SyncPendingNamespaces(l)[i].lease)
         /\ Len(SyncPendingNamespaces(l)) \in {0, 2}
<1>1. l.nonce \in Nat
  BY DEF Lease
<1>2. Quarantine(l.nonce, "Restore") \in Paths /\ Reference \in Paths
  BY <1>1, PathFacts DEF Intent
<1>3. /\ Sync(Reference, l).lease = l
      /\ Sync(Quarantine(l.nonce, "Restore"), Synced(l)).lease = Synced(l)
  BY <1>2, StepFacts, SyncedFacts
<1> QED
  BY <1>3, SyncPendingFacts, SyncedFacts

LEMMA RetireFacts ==
  ASSUME NEW ns, NEW s, NEW l \in Lease
  PROVE  Retire(l) \in Seq(Step) /\ Legal(ns, s, l, Retire(l))
<1>1. CASE DiscardPending(l)
  BY <1>1, RefuseFacts DEF Retire, DiscardPending
<1>2. CASE ~DiscardPending(l) /\ l.state = "Restore"
  <2> DEFINE m == Moved(l, "Superseded")
             step == Move(PlaceOf(l), PlaceOf(m), m)
  <2>1. /\ m \in Lease /\ step \in Step /\ MovesLease(l, step) /\ step.lease = m
        /\ m.state = "Superseded" /\ m.nonce = l.nonce
    BY <1>2, MoveLegal DEF Intent
  <2>2. RemoveSuperseded(m) \in Seq(Step) /\ Legal(ns, s, m, RemoveSuperseded(m))
        /\ RemoveSuperseded(m)[1].lease.state # "Removed"
    BY <2>1, RemoveSupersededFacts
  <2>3. /\ PlaceOf(l) = Quarantine(l.nonce, "Restore")
        /\ PlaceOf(m) = Quarantine(l.nonce, "Superseded")
    BY <1>2, <2>1 DEF PlaceOf
  <2>4. Retire(l) = <<step>> \o RemoveSuperseded(m)
    BY <1>2, <2>3 DEF Retire, DiscardPending
  <2> HIDE DEF m, step
  <2>5. m.state # "Removed"
    BY <2>1
  <2>6. <<step>> \o RemoveSuperseded(m) \in Seq(Step) /\ Legal(ns, s, l, <<step>> \o RemoveSuperseded(m))
    BY <2>1, <2>2, <2>5, ConsLegal
  <2> QED
    BY <2>4, <2>6
<1>3. CASE ~DiscardPending(l) /\ l.state = "Superseded"
  BY <1>3, RemoveSupersededFacts DEF Retire, DiscardPending
<1>4. CASE ~DiscardPending(l) /\ l.state = "Active"
  BY <1>4, SyncPendingFacts, SyncPendingLegal DEF Retire, DiscardPending
<1>5. CASE ~DiscardPending(l) /\ l.state \in {"Removed", "None"}
  BY <1>5, EmptyFacts DEF Retire, DiscardPending
<1> QED
  BY <1>1, <1>2, <1>3, <1>4, <1>5 DEF Lease, LeaseState, DiscardPending

LEMMA RestoreFacts ==
  ASSUME NEW ns, NEW r, NEW s, NEW l \in Lease
  PROVE  Restore(s, l) \in Seq(Step) /\ Legal(ns, r, l, Restore(s, l))
<1>1. CASE l.discard \/ ActiveConflicts(s, l) \/ l.state \in {"Discard", "Removed"}
  BY <1>1, RefuseFacts DEF Restore
<1>2. CASE ~l.discard /\ ~ActiveConflicts(s, l) /\ l.state = "Restore" /\ ~ActiveSupersedes(s, l)
  <2> DEFINE m == Moved(l, "Active")
             step == Move(PlaceOf(l), PlaceOf(m), m)
  <2>1. /\ m \in Lease /\ step \in Step /\ MovesLease(l, step) /\ step.lease = m
        /\ m.state = "Active"
    BY <1>2, MoveLegal DEF Intent
  <2>2. /\ SyncPendingNamespaces(m) \in Seq(Step) /\ Legal(ns, r, m, SyncPendingNamespaces(m))
        /\ Len(SyncPendingNamespaces(m)) > 0 => SyncPendingNamespaces(m)[1].lease.state # "Removed"
    BY <2>1, SyncPendingFacts, SyncPendingLegal, SyncPendingLeases DEF SameLease
  <2>3. PlaceOf(l) = Quarantine(l.nonce, "Restore") /\ PlaceOf(m) = Reference
    BY <1>2, <2>1 DEF PlaceOf
  <2>4. Restore(s, l) = <<step>> \o SyncPendingNamespaces(m)
    BY <1>2, <2>3 DEF Restore
  <2> HIDE DEF m, step
  <2>5. m.state # "Removed"
    BY <2>1
  <2>6. /\ <<step>> \o SyncPendingNamespaces(m) \in Seq(Step)
        /\ Legal(ns, r, l, <<step>> \o SyncPendingNamespaces(m))
    BY <2>1, <2>2, <2>5, ConsLegal
  <2> QED
    BY <2>4, <2>6
<1>3. CASE /\ ~l.discard /\ ~ActiveConflicts(s, l)
           /\ (l.state = "Restore" /\ ActiveSupersedes(s, l)) \/ l.state = "Superseded"
  BY <1>3, RetireFacts DEF Restore
<1>4. CASE ~l.discard /\ ~ActiveConflicts(s, l) /\ l.state = "Active"
  BY <1>4, SyncPendingFacts, SyncPendingLegal DEF Restore
<1>5. CASE ~l.discard /\ ~ActiveConflicts(s, l) /\ l.state = "None"
  BY <1>5, EmptyFacts DEF Restore
<1> QED
  BY <1>1, <1>2, <1>3, <1>4, <1>5 DEF Lease, LeaseState

LEMMA SameMoves ==
  ASSUME NEW l \in Lease, NEW k \in Lease, NEW step, SameLease(l, k), LiveLease(l),
         MovesLease(l, step)
  PROVE  MovesLease(k, step)
<1>1. l # NoLease
  BY LeaseFacts
<1> QED
  BY <1>1 DEF SameLease, MovesLease, LiveLease, PlaceOf

\* What follows the syncs of a pending lease starts from the same lease.
LEMMA AfterSyncs ==
  ASSUME NEW ns, NEW s, NEW l \in Lease, l.state # "Removed", NEW b \in Seq(Step),
         \A k \in Lease : SameLease(l, k) => Legal(ns, s, k, b),
         Len(b) > 0 => b[1].lease.state # "Removed"
  PROVE  /\ SyncPendingNamespaces(l) \o b \in Seq(Step)
         /\ Legal(ns, s, l, SyncPendingNamespaces(l) \o b)
         /\ (b # <<>> \/ l.pending) => (SyncPendingNamespaces(l) \o b)[1].lease.state # "Removed"
<1> DEFINE a == SyncPendingNamespaces(l)
           m == IF Len(a) = 0 THEN l ELSE a[Len(a)].lease
<1>1. a \in Seq(Step) /\ Legal(ns, s, l, a) /\ Len(a) \in {0, 2}
      /\ (Len(a) = 0 <=> ~l.pending)
  BY SyncPendingFacts, SyncPendingLegal
<1>2. \A i \in 1 .. Len(a) : SameLease(l, a[i].lease)
  BY SyncPendingLeases
<1> HIDE DEF a
<1>3. \A i \in 1 .. Len(a) : a[i].lease \in Lease /\ a[i].lease.state # "Removed"
  <2> SUFFICES ASSUME NEW i \in 1 .. Len(a)
               PROVE  a[i].lease \in Lease /\ a[i].lease.state # "Removed"
    OBVIOUS
  <2>1. a[i] \in Step
    BY <1>1
  <2>2. a[i].lease \in Lease
    BY <2>1 DEF Step
  <2> QED
    BY <1>2, <2>2 DEF SameLease
<1>4. m \in Lease /\ SameLease(l, m)
  BY <1>1, <1>2, <1>3, SyncedFacts
<1>5. m = IF Len(a) = 0 THEN l ELSE a[Len(a)].lease
  OBVIOUS
<1> HIDE DEF m
<1>6. Legal(ns, s, m, b)
  BY <1>4
<1>7. \A i \in 1 .. Len(a) : a[i].lease.state # "Removed"
  BY <1>3
<1>8. a \o b \in Seq(Step) /\ Legal(ns, s, l, a \o b)
  BY <1>1, <1>5, <1>6, <1>7, JoinLegal, JoinFacts
<1>9. (b # <<>> \/ l.pending) => (a \o b)[1].lease.state # "Removed"
  <2>1. CASE Len(a) = 2
    BY <1>1, <1>7, <2>1
  <2>2. CASE Len(a) = 0
    <3>1. b # <<>> => Len(b) > 0
      OBVIOUS
    <3>2. Len(b) > 0 => (a \o b)[1] = b[1]
      BY <1>1, <2>2
    <3> QED
      BY <1>1, <2>2, <3>1, <3>2
  <2> QED
    BY <1>1, <2>1, <2>2
<1> QED
  BY <1>8, <1>9 DEF a

LEMMA RequarantineFacts ==
  ASSUME NEW ns, NEW s, NEW l \in Lease, ~l.discard
  PROVE  Requarantine(l) \in Seq(Step) /\ Legal(ns, s, l, Requarantine(l))
<1>1. CASE l.state # "Active"
  BY <1>1, RefuseFacts DEF Requarantine
<1>2. CASE l.state = "Active"
  <2> DEFINE m == Moved(l, "Restore")
             step == Move(PlaceOf(l), PlaceOf(m), m)
             a == SyncPendingNamespaces(l)
             c == SyncPendingNamespaces(m)
  <2>1. /\ m \in Lease /\ step \in Step /\ MovesLease(l, step) /\ step.lease = m
        /\ m.state = "Restore" /\ m.nonce = l.nonce
    BY <1>2, MoveLegal DEF Intent
  <2>2. PlaceOf(m) = Quarantine(l.nonce, "Restore") /\ PlaceOf(l) = Reference /\ LiveLease(l)
    BY <1>2, <2>1 DEF PlaceOf, LiveLease
  <2>3. Requarantine(l) = (a \o <<step>>) \o c
    BY <1>2, <2>2 DEF Requarantine
  <2>4. /\ c \in Seq(Step) /\ Legal(ns, s, m, c)
        /\ Len(c) > 0 => c[1].lease.state # "Removed"
    BY <2>1, SyncPendingFacts, SyncPendingLegal, SyncPendingLeases DEF SameLease
  <2>5. a \in Seq(Step)
    BY SyncPendingFacts
  <2> HIDE DEF m, step, a, c
  <2>6. m.state # "Removed"
    BY <2>1
  <2>7. ASSUME NEW k \in Lease, SameLease(l, k)
        PROVE  Legal(ns, s, k, <<step>> \o c)
    <3>1. MovesLease(k, step)
      BY <2>1, <2>2, <2>7, SameMoves
    <3> QED
      BY <2>1, <2>4, <2>6, <3>1, ConsLegal
  <2>8. <<step>> \o c \in Seq(Step) /\ (<<step>> \o c)[1].lease.state # "Removed"
    BY <2>1, <2>4, ConsFacts
  <2>9. a \o (<<step>> \o c) \in Seq(Step) /\ Legal(ns, s, l, a \o (<<step>> \o c))
    <3> DEFINE b == <<step>> \o c
    <3>1. b \in Seq(Step) /\ (Len(b) > 0 => b[1].lease.state # "Removed")
      BY <2>8
    <3>2. \A k \in Lease : SameLease(l, k) => Legal(ns, s, k, b)
      BY <2>7
    <3> HIDE DEF b
    <3>3. l.state # "Removed"
      BY <1>2
    <3>4. a \o b \in Seq(Step) /\ Legal(ns, s, l, a \o b)
      BY <3>1, <3>2, <3>3, AfterSyncs DEF a
    <3> QED
      BY <3>4 DEF b
  <2>10. (a \o <<step>>) \o c = a \o (<<step>> \o c)
    <3>1. <<step>> \in Seq(Step)
      BY <2>1
    <3> QED
      BY <2>4, <2>5, <3>1, ConcatAssociative
  <2> QED
    BY <2>3, <2>9, <2>10
<1> QED
  BY <1>1, <1>2

LEMMA FourFacts ==
  ASSUME NEW a \in Step, NEW b \in Step, NEW c \in Step, NEW d \in Step
  PROVE  /\ <<a, b, c, d>> \in Seq(Step) /\ Len(<<a, b, c, d>>) = 4
         /\ <<a, b, c, d>>[1] = a /\ <<a, b, c, d>>[2] = b
         /\ <<a, b, c, d>>[3] = c /\ <<a, b, c, d>>[4] = d
OBVIOUS

\* What a discard does once the marker is in place.
DiscardTail(l) ==
  LET marker == Quarantine(l.nonce, "Discard")
  IN  <<Remove(Reference, Synced(l)), Sync(Reference, Synced(l)),
        Remove(marker, Synced(l)), Sync(marker, RemovedLease(l))>>

LEMMA DiscardTailFacts ==
  ASSUME NEW l \in Lease, l.state = "Discard"
  PROVE  LET marker == Quarantine(l.nonce, "Discard")
         IN  /\ DiscardTail(l) \in Seq(Step) /\ Len(DiscardTail(l)) = 4
             /\ marker \in Paths /\ PlaceOf(l) = marker
             /\ DiscardTail(l)[1] = Remove(Reference, Synced(l))
             /\ DiscardTail(l)[2] = Sync(Reference, Synced(l))
             /\ DiscardTail(l)[3] = Remove(marker, Synced(l))
             /\ DiscardTail(l)[4] = Sync(marker, RemovedLease(l))
             /\ \A i \in 1 .. 4 : DiscardTail(l)[i].op \in {"remove", "sync"}
<1> DEFINE marker == Quarantine(l.nonce, "Discard")
<1>1. marker \in Paths /\ PlaceOf(l) = marker /\ Reference \in Paths
  BY PathFacts DEF Lease, Intent, PlaceOf
<1> HIDE DEF marker
<1>2. Synced(l) \in Lease /\ RemovedLease(l) \in Lease
  BY SyncedFacts, RemovedFacts
<1>3. /\ Remove(Reference, Synced(l)) \in Step /\ Sync(Reference, Synced(l)) \in Step
      /\ Remove(marker, Synced(l)) \in Step /\ Sync(marker, RemovedLease(l)) \in Step
      /\ Remove(Reference, Synced(l)).op = "remove" /\ Sync(Reference, Synced(l)).op = "sync"
      /\ Remove(marker, Synced(l)).op = "remove" /\ Sync(marker, RemovedLease(l)).op = "sync"
  BY <1>1, <1>2, StepFacts
<1>4. DiscardTail(l) = <<Remove(Reference, Synced(l)), Sync(Reference, Synced(l)),
                         Remove(marker, Synced(l)), Sync(marker, RemovedLease(l))>>
  BY DEF DiscardTail, marker
<1>5. /\ DiscardTail(l) \in Seq(Step) /\ Len(DiscardTail(l)) = 4
      /\ DiscardTail(l)[1] = Remove(Reference, Synced(l))
      /\ DiscardTail(l)[2] = Sync(Reference, Synced(l))
      /\ DiscardTail(l)[3] = Remove(marker, Synced(l))
      /\ DiscardTail(l)[4] = Sync(marker, RemovedLease(l))
  BY <1>3, <1>4, FourFacts
<1>6. \A i \in 1 .. 4 : DiscardTail(l)[i].op \in {"remove", "sync"}
  BY <1>3, <1>5
<1> QED
  BY <1>1, <1>5, <1>6 DEF marker

LEMMA DiscardTailLegal ==
  ASSUME NEW ns, NEW s, NEW l \in Lease, l.state = "Discard", NEW k \in Lease, SameLease(l, k)
  PROVE  Legal(ns, s, k, DiscardTail(l)) /\ DiscardTail(l)[1].lease.state = "Discard"
<1> DEFINE marker == Quarantine(l.nonce, "Discard")
           b == DiscardTail(l)
<1>1. /\ Len(b) = 4 /\ marker \in Paths /\ PlaceOf(l) = marker /\ Reference \in Paths
      /\ b[1] = Remove(Reference, Synced(l)) /\ b[2] = Sync(Reference, Synced(l))
      /\ b[3] = Remove(marker, Synced(l)) /\ b[4] = Sync(marker, RemovedLease(l))
  BY DiscardTailFacts, PathFacts
<1> HIDE DEF marker, b
<1>2. /\ Synced(l) \in Lease /\ SameLease(l, Synced(l)) /\ PlaceOf(Synced(l)) = marker
      /\ RemovedLease(l) \in Lease /\ RemovedLease(l).state = "Removed" /\ ~RemovedLease(l).slot
      /\ ~RemovedLease(l).discard
  BY <1>1, SyncedFacts, RemovedFacts
<1>3. /\ b[1].op = "remove" /\ b[1].lease = Synced(l)
      /\ b[2].op = "sync" /\ b[2].lease = Synced(l)
      /\ b[3].op = "remove" /\ b[3].lease = Synced(l) /\ b[3].path = marker
      /\ b[4].op = "sync" /\ b[4].lease = RemovedLease(l)
  BY <1>1, <1>2, StepFacts
<1>4. SameLease(k, Synced(l)) /\ SameLease(Synced(l), Synced(l))
  BY <1>2 DEF SameLease
<1>5. LegalStep(ns, s, k, b, 1)
  BY <1>3, <1>4 DEF LegalStep, Before
<1>6. LegalStep(ns, s, k, b, 2) /\ LegalStep(ns, s, k, b, 3)
  BY <1>3, <1>4 DEF LegalStep, Before
<1>7. LegalStep(ns, s, k, b, 4)
  BY <1>1, <1>2, <1>3 DEF LegalStep, Before, EndsLease
<1>8. Legal(ns, s, k, b)
  BY <1>1, <1>5, <1>6, <1>7 DEF Legal
<1>9. b[1].lease.state = "Discard"
  BY <1>2, <1>3 DEF SameLease
<1> QED
  BY <1>8, <1>9 DEF b

LEMMA DiscardFacts ==
  ASSUME NEW ns, NEW s, NEW l \in Lease, l.state \in Intent \cup {"Active"}, l.discard
  PROVE  Discard(l) \in Seq(Step) /\ Legal(ns, s, l, Discard(l))
<1>1. CASE l.state = "Discard"
  <2>1. SyncPendingNamespaces(l) \o DiscardTail(l) \in Seq(Step)
        /\ Legal(ns, s, l, SyncPendingNamespaces(l) \o DiscardTail(l))
    <3> DEFINE b == DiscardTail(l)
    <3>1. b \in Seq(Step) /\ b[1].lease.state # "Removed"
      BY <1>1, DiscardTailFacts, DiscardTailLegal, SyncedFacts
    <3>2. \A k \in Lease : SameLease(l, k) => Legal(ns, s, k, b)
      BY <1>1, DiscardTailLegal
    <3> HIDE DEF b
    <3>3. l.state # "Removed"
      BY <1>1
    <3> QED
      BY <3>1, <3>2, <3>3, AfterSyncs DEF b
  <2>2. Discard(l) = (<<>> \o SyncPendingNamespaces(l)) \o DiscardTail(l)
    BY <1>1 DEF Discard, DiscardTail
  <2>3. <<>> \o SyncPendingNamespaces(l) = SyncPendingNamespaces(l)
    BY SyncPendingFacts, ConcatEmptySeq
  <2> QED
    BY <2>1, <2>2, <2>3
<1>2. CASE l.state # "Discard"
  <2> DEFINE m == Moved(l, "Discard")
             step == Move(PlaceOf(l), PlaceOf(m), m)
             a == SyncPendingNamespaces(m)
             b == DiscardTail(m)
  <2>1. /\ m \in Lease /\ step \in Step /\ MovesLease(l, step) /\ step.lease = m
        /\ m.state = "Discard" /\ m.nonce = l.nonce /\ m.pending
    BY MoveLegal DEF Intent
  <2>2. PlaceOf(m) = Quarantine(l.nonce, "Discard") /\ PlaceOf(l) = DiscardSource(l)
    BY <2>1 DEF PlaceOf, DiscardSource
  <2>3. Discard(l) = (<<step>> \o a) \o b
    BY <1>2, <2>1, <2>2 DEF Discard, DiscardTail
  <2>4. b \in Seq(Step) /\ b[1].lease.state # "Removed"
    BY <2>1, DiscardTailFacts, DiscardTailLegal, SyncedFacts
  <2>5. \A k \in Lease : SameLease(m, k) => Legal(ns, s, k, b)
    BY <2>1, DiscardTailLegal
  <2>6. a \in Seq(Step)
    BY <2>1, SyncPendingFacts
  <2> HIDE DEF m, step, b
  <2>7. m.state # "Removed"
    BY <2>1
  <2>8. a \o b \in Seq(Step) /\ Legal(ns, s, m, a \o b) /\ (a \o b)[1].lease.state # "Removed"
    BY <2>1, <2>4, <2>5, <2>7, AfterSyncs
  <2> HIDE DEF a
  <2> DEFINE c == a \o b
  <2>9. c \in Seq(Step) /\ Legal(ns, s, m, c) /\ (Len(c) > 0 => c[1].lease.state # "Removed")
    BY <2>8
  <2> HIDE DEF c
  <2>10. <<step>> \o c \in Seq(Step) /\ Legal(ns, s, l, <<step>> \o c)
    BY <2>1, <2>7, <2>9, ConsLegal
  <2>11. (<<step>> \o a) \o b = <<step>> \o c
    <3>1. <<step>> \in Seq(Step)
      BY <2>1
    <3> QED
      BY <2>4, <2>6, <3>1, ConcatAssociative DEF c
  <2> QED
    BY <2>3, <2>10, <2>11
<1> QED
  BY <1>1, <1>2

-----------------------------------------------------------------------------
(* A step that leaves the files alone and moves the leases of one session *)

LEMMA CountAt ==
  ASSUME NEW A, NEW B, NEW x \in Sessions, A \subseteq Sessions, B \subseteq Sessions,
         A \ {x} = B \ {x}
  PROVE  /\ Cardinality(A) \in Nat /\ Cardinality(B) \in Nat
         /\ Cardinality(B) + (IF x \in A THEN 1 ELSE 0) = Cardinality(A) + (IF x \in B THEN 1 ELSE 0)
<1>1. IsFiniteSet(A) /\ IsFiniteSet(B)
  BY StoreAssumption, FS_Subset
<1>2. /\ IsFiniteSet(A \ {x}) /\ Cardinality(A \ {x}) = IF x \in A THEN Cardinality(A) - 1 ELSE Cardinality(A)
      /\ Cardinality(B \ {x}) = IF x \in B THEN Cardinality(B) - 1 ELSE Cardinality(B)
  BY <1>1, FS_RemoveElement
<1>3. Cardinality(A) \in Nat /\ Cardinality(B) \in Nat
  BY <1>1, FS_CardinalityType
<1> QED
  BY <1>2, <1>3

Num(l) == IF l.slot THEN 1 ELSE 0

\* The slots in use when session x becomes h, its retained lease k and the call's n.
SlotsMoved(m, t, l, x, h, k, n) ==
  /\ Slots(m, t, l) \in Nat
  /\ Slots([m EXCEPT ![x] = h], [t EXCEPT ![x] = k], n)
       = Slots(m, t, l) + (Num(h.lease) + Num(k) + Num(n)) - (Num(m[x].lease) + Num(t[x]) + Num(l))

LEMMA SlotsMove ==
  ASSUME NEW m \in [Sessions -> Held], NEW t \in [Sessions -> Lease], NEW l \in Lease,
         NEW x \in Sessions, NEW h \in Held, NEW k \in Lease, NEW n \in Lease
  PROVE  SlotsMoved(m, t, l, x, h, k, n)
<1>0. PICK m2, t2 : m2 = [m EXCEPT ![x] = h] /\ t2 = [t EXCEPT ![x] = k]
  OBVIOUS
<1> DEFINE A == {s \in Sessions : m[s].lease.slot}
           A2 == {s \in Sessions : m2[s].lease.slot}
           B == {s \in Sessions : t[s].slot}
           B2 == {s \in Sessions : t2[s].slot}
<1>1. A \ {x} = A2 \ {x} /\ (x \in A <=> m[x].lease.slot) /\ (x \in A2 <=> h.lease.slot)
  BY <1>0
<1>2. B \ {x} = B2 \ {x} /\ (x \in B <=> t[x].slot) /\ (x \in B2 <=> k.slot)
  BY <1>0
<1>3. /\ Cardinality(A) \in Nat /\ Cardinality(A2) \in Nat
      /\ Cardinality(A2) + Num(m[x].lease) = Cardinality(A) + Num(h.lease)
  <2>1. A \subseteq Sessions /\ A2 \subseteq Sessions
    OBVIOUS
  <2> HIDE DEF A, A2
  <2> QED
    BY <1>1, <2>1, CountAt DEF Num
<1>4. /\ Cardinality(B) \in Nat /\ Cardinality(B2) \in Nat
      /\ Cardinality(B2) + Num(t[x]) = Cardinality(B) + Num(k)
  <2>1. B \subseteq Sessions /\ B2 \subseteq Sessions
    OBVIOUS
  <2> HIDE DEF B, B2
  <2> QED
    BY <1>2, <2>1, CountAt DEF Num
<1>5. Slots(m, t, l) = Cardinality(A) + Cardinality(B) + Num(l)
  BY DEF Slots, Num
<1>6. Slots(m2, t2, n) = Cardinality(A2) + Cardinality(B2) + Num(n)
  BY DEF Slots, Num
<1>7. Num(l) \in Nat /\ Num(n) \in Nat /\ Num(h.lease) \in Nat /\ Num(k) \in Nat
      /\ Num(m[x].lease) \in Nat /\ Num(t[x]) \in Nat
  BY DEF Num
<1> DEFINE a == Cardinality(A) a2 == Cardinality(A2) b == Cardinality(B) b2 == Cardinality(B2)
<1>8. /\ a \in Nat /\ a2 \in Nat /\ a2 + Num(m[x].lease) = a + Num(h.lease)
      /\ b \in Nat /\ b2 \in Nat /\ b2 + Num(t[x]) = b + Num(k)
      /\ Slots(m, t, l) = a + b + Num(l) /\ Slots(m2, t2, n) = a2 + b2 + Num(n)
  BY <1>3, <1>4, <1>5, <1>6
<1> HIDE DEF a, a2, b, b2
<1>9. /\ a + b + Num(l) \in Nat
      /\ a2 + b2 + Num(n) = a + b + Num(l) + (Num(h.lease) + Num(k) + Num(n))
                               - (Num(m[x].lease) + Num(t[x]) + Num(l))
  <2> DEFINE i == Num(m[x].lease) i2 == Num(h.lease) j == Num(t[x]) j2 == Num(k)
             c == Num(l) c2 == Num(n)
  <2>1. /\ a \in Nat /\ a2 \in Nat /\ b \in Nat /\ b2 \in Nat /\ c \in Nat /\ c2 \in Nat
        /\ i \in Nat /\ i2 \in Nat /\ j \in Nat /\ j2 \in Nat
        /\ a2 + i = a + i2 /\ b2 + j = b + j2
    BY <1>7, <1>8
  <2> HIDE DEF i, i2, j, j2, c, c2
  <2>2. a + b + c \in Nat /\ a2 + b2 + c2 = a + b + c + (i2 + j2 + c2) - (i + j + c)
    BY ONLY <2>1, SMT
  <2> QED
    BY <2>2 DEF i, i2, j, j2, c, c2
<1> QED
  BY <1>0, <1>8, <1>9 DEF SlotsMoved

\* The lease is one of these, in the same state.
OneOf(l, k, m, n) ==
  l.state \in Intent => \/ k.nonce = l.nonce /\ k.state = l.state
                        \/ m.nonce = l.nonce /\ m.state = l.state
                        \/ n.nonce = l.nonce /\ n.state = l.state

\* The call has nothing in hand, and is about no session.
Away(c) == c.pc \in {"idle", "fit", "respond"} /\ c.lease = NoLease

\* The call's script fits the files and the lease in hand.
ScriptReady(c) ==
  /\ c.pc \notin StartPcs
  /\ EndOK(c) /\ LeasingOK(disk, c)
  /\ Legal(disk, c.v, c.lease, c.io)
  /\ c.pc # "leasing" /\ c.lease = NoLease => Leaseless(c.io)

\* A step may leave session x as h, its retained lease as t and the call as c.
Turn(x, h, t, c) ==
  /\ SessionOK(h) /\ RetainedOK(t) /\ ScriptReady(c)
  /\ Away(c) \/ (c.v = x /\ WhereOK(c, h.at) /\ HandOK(c, h.lease, t))
  /\ \/ Num(h.lease) + Num(t) + Num(c.lease) <= Num(mem[x].lease) + Num(table[x]) + Num(proc.lease)
     \/ /\ Slots(mem, table, proc.lease) < RecoveryLimit /\ c.pc # "leasing"
        /\ Num(h.lease) + Num(t) + Num(c.lease) <= Num(mem[x].lease) + Num(table[x]) + Num(proc.lease) + 1
  /\ c.pc = "leasing" /\ c.lease = NoLease /\ c.io # <<>> =>
       Slots(mem, table, proc.lease) < RecoveryLimit
  /\ OneOf(mem[x].lease, h.lease, t, IF c.v = x THEN c.lease ELSE NoLease)
  /\ OneOf(table[x], h.lease, t, IF c.v = x THEN c.lease ELSE NoLease)
  /\ IF proc.v = x THEN OneOf(proc.lease, h.lease, t, IF c.v = x THEN c.lease ELSE NoLease)
     ELSE proc.lease.state \notin Intent

CountTypes ==
  /\ persisted \in [Sessions -> Nat] /\ kept \in [Sessions -> Nat]
  /\ clock \in 0 .. MaxClock /\ failures \in 0 .. MaxFailures /\ crashes \in 0 .. MaxCrashes
  /\ discarded \subseteq Sessions

LEMMA AwayOK ==
  ASSUME NEW c \in CallType, Away(c), NEW time, CallOK(c, time), NEW at, NEW k, NEW n
  PROVE  WhereOK(c, at) /\ HandOK(c, k, n)
BY LeaseFacts DEF Away, CallOK, WhereOK, HandOK, Heading, Waking, Hibernating, Loading, Finishing,
   StartPcs, QuietPcs, DiscardPcs, LeasePcs, LeaseThens, DiscardThens, TableFree, Taken

LEMMA TurnKeeps ==
  ASSUME SessionInv, ~Starting, NEW x \in Sessions, NEW h \in Held, NEW t \in Lease, NEW c \in CallType,
         Turn(x, h, t, c), CallOK(c, clock'), CountTypes',
         mem' = [mem EXCEPT ![x] = h], table' = [table EXCEPT ![x] = t], proc' = c,
         UNCHANGED <<disk, durable>>
  PROVE  SessionInv'
<1>1. mem \in [Sessions -> Held] /\ table \in [Sessions -> Lease] /\ proc \in CallType
  BY DEF SessionInv, TypeInv
<1>2. /\ mem'[x] = h /\ table'[x] = t
      /\ \A s \in Sessions \ {x} : mem'[s] = mem[s] /\ table'[s] = table[s]
  BY <1>1
<1>3. TypeInv'
  BY <1>1 DEF SessionInv, TypeInv, CountTypes
<1>4. c.v \in Sessions /\ c.lease \in Lease
  BY DEF CallType
<1>5. ControlInv'
  <2>1. WhereOK(c, mem'[c.v].at) /\ HandOK(c, mem'[c.v].lease, table'[c.v])
    <3>1. CASE Away(c)
      BY <3>1, AwayOK
    <3>2. CASE ~Away(c)
      BY <1>2, <3>2 DEF Turn
    <3> QED
      BY <3>1, <3>2
  <2>2. \A s \in Sessions : SessionOK(mem'[s]) /\ RetainedOK(table'[s])
    BY <1>2 DEF Turn, SessionInv, ControlInv
  <2>3. ~Starting' /\ proc'.pc # "load"
    BY DEF Turn, ScriptReady, Starting, StartPcs
  <2> QED
    BY <2>1, <2>2, <2>3 DEF ControlInv, Turn, ScriptReady
<1>6. SlotInv'
  <2>1. /\ Slots(mem, table, proc.lease) \in Nat
        /\ Slots(mem', table', c.lease)
             = Slots(mem, table, proc.lease) + (Num(h.lease) + Num(t) + Num(c.lease))
                 - (Num(mem[x].lease) + Num(table[x]) + Num(proc.lease))
    <3>1. proc.lease \in Lease
      BY <1>1 DEF CallType
    <3>2. SlotsMoved(mem, table, proc.lease, x, h, t, c.lease)
      BY <1>1, <1>4, <3>1, SlotsMove
    <3> QED
      BY <3>2 DEF SlotsMoved
  <2>2. \A l : Num(l) \in Nat
    BY DEF Num
  <2> DEFINE p == Num(h.lease) + Num(t) + Num(c.lease)
             q == Num(mem[x].lease) + Num(table[x]) + Num(proc.lease)
             n == Slots(mem, table, proc.lease)
             n2 == Slots(mem', table', c.lease)
             taking == c.pc = "leasing" /\ c.lease = NoLease /\ c.io # <<>>
  <2>3. /\ p <= q \/ (n < RecoveryLimit /\ c.pc # "leasing" /\ p <= q + 1)
        /\ taking => n < RecoveryLimit /\ c.pc = "leasing"
    BY DEF Turn
  <2>4. p \in Nat /\ q \in Nat /\ n \in Nat /\ n2 = n + p - q
    BY <2>1, <2>2
  <2>5. n <= RecoveryLimit /\ RecoveryLimit \in Nat
    BY StoreAssumption DEF SessionInv, SlotInv, RecoveryLimit
  <2> HIDE DEF p, q, n, n2, taking
  <2>6. n2 <= RecoveryLimit /\ (taking => n2 < RecoveryLimit)
    BY <2>3, <2>4, <2>5
  <2> QED
    BY <2>6 DEF SlotInv, n2, taking
<1>7. ScriptInv'
  BY DEF Turn, ScriptReady, ScriptInv, Starting, StartPcs
<1>8. OwnedInv'
  <2> SUFFICES ASSUME NEW f \in disk.files, f.intent # "Active"
               PROVE  HeldBy(mem', table', c, f.session, f.nonce, f.intent)
    BY DEF OwnedInv
  <2>1. f \in StoredFile
    BY DEF SessionInv, TypeInv, Namespace
  <2>2. f.session \in Sessions /\ f.intent \in Intent
    BY <2>1 DEF StoredFile
  <2>3. HeldBy(mem, table, proc, f.session, f.nonce, f.intent)
    BY DEF SessionInv, OwnedInv
  <2>4. CASE f.session = x
    <3>1. \/ OneOf(mem[x].lease, h.lease, t, IF c.v = x THEN c.lease ELSE NoLease)
             /\ mem[x].lease.nonce = f.nonce /\ mem[x].lease.state = f.intent
          \/ OneOf(table[x], h.lease, t, IF c.v = x THEN c.lease ELSE NoLease)
             /\ table[x].nonce = f.nonce /\ table[x].state = f.intent
          \/ OneOf(proc.lease, h.lease, t, IF c.v = x THEN c.lease ELSE NoLease)
             /\ proc.lease.nonce = f.nonce /\ proc.lease.state = f.intent
      BY <2>3, <2>4 DEF HeldBy, Turn
    <3>2. NoLease.state \notin Intent
      BY LeaseFacts DEF Intent
    <3>3. \/ h.lease.nonce = f.nonce /\ h.lease.state = f.intent
          \/ t.nonce = f.nonce /\ t.state = f.intent
          \/ c.v = x /\ c.lease.nonce = f.nonce /\ c.lease.state = f.intent
      BY <2>2, <3>1, <3>2 DEF OneOf
    <3> QED
      BY <1>2, <2>4, <3>3 DEF HeldBy
  <2>5. CASE f.session # x
    <3>1. ~(proc.v = f.session /\ proc.lease.state = f.intent)
      BY <2>2, <2>5 DEF Turn
    <3> QED
      BY <1>2, <2>2, <2>3, <2>5, <3>1 DEF HeldBy
  <2> QED
    BY <2>4, <2>5
<1> QED
  BY <1>3, <1>5, <1>6, <1>7, <1>8 DEF SessionInv

-----------------------------------------------------------------------------
(* The calls *)

\* A lease with a slot finds room in the table: every retained lease has one too.
LEMMA RetainRoom ==
  ASSUME TypeInv, SlotInv, \A s \in Sessions : RetainedOK(table[s]), NEW s \in Sessions,
         table[s] = NoLease, proc.lease.slot \/ mem[s].lease.slot
  PROVE  CanRetain(s)
<1> DEFINE A == {r \in Sessions : mem[r].lease.slot}
           B == {r \in Sessions : table[r].slot}
           C == {r \in Sessions : table[r] # NoLease}
<1>1. IsFiniteSet(A) /\ IsFiniteSet(B) /\ C \subseteq B
  BY StoreAssumption, FS_Subset DEF RetainedOK
<1>2. /\ Cardinality(A) \in Nat /\ Cardinality(B) \in Nat /\ Cardinality(C) \in Nat
      /\ Cardinality(C) <= Cardinality(B)
  BY <1>1, FS_Subset, FS_CardinalityType
<1>3. mem[s].lease.slot => Cardinality(A) >= 1
  <2>1. mem[s].lease.slot => A # {}
    OBVIOUS
  <2> QED
    BY <1>1, <1>2, <2>1, FS_EmptySet
<1>4. Slots(mem, table, proc.lease) = Cardinality(A) + Cardinality(B) + Num(proc.lease)
  BY DEF Slots, Num
<1>5. Cardinality(A) + Cardinality(B) + Num(proc.lease) <= RecoveryLimit /\ RecoveryLimit \in Nat
  BY <1>4, StoreAssumption DEF SlotInv, RecoveryLimit
<1>6. Num(proc.lease) \in Nat /\ (proc.lease.slot => Num(proc.lease) = 1)
  BY DEF Num
<1> HIDE DEF A, B
<1>7. Cardinality(C) < RecoveryLimit
  BY <1>2, <1>3, <1>5, <1>6
<1> QED
  BY <1>7 DEF CanRetain

LEMMA IdleFacts ==
  /\ Idle \in CallType /\ Idle.pc = "idle" /\ Idle.lease = NoLease /\ Idle.io = <<>> /\ Idle.ok
  /\ Idle.v = Idle.s /\ Idle.v \in Sessions /\ Idle.top = "none" /\ Idle.then = "none"
<1>1. (CHOOSE s \in Sessions : TRUE) \in Sessions
  BY StoreAssumption
<1> QED
  BY <1>1, LeaseFacts DEF Idle, CallType, Pcs, QuietPcs, Tops, Thens

EnterOK(c, pc, top, then, s, v, lease) ==
  /\ c \in CallType /\ c.pc = pc /\ c.top = top /\ c.then = then /\ c.s = s /\ c.v = v
  /\ c.lease = lease /\ c.io = <<>> /\ c.ok

LEMMA EnterFacts ==
  ASSUME NEW pc \in Pcs, NEW top \in Tops, NEW then \in Thens, NEW s \in Sessions, NEW v \in Sessions,
         NEW l \in Lease
  PROVE  EnterOK(Enter(pc, top, then, s, v, l), pc, top, then, s, v, l)
BY DEF EnterOK, Enter, CallType

CallFieldsOK(c, pc, l, io, ok) ==
  /\ c \in CallType /\ c.pc = pc /\ c.lease = l /\ c.io = io /\ c.ok = ok
  /\ c.s = proc.s /\ c.v = proc.v /\ c.top = proc.top /\ c.then = proc.then

LEMMA CallFacts ==
  ASSUME proc \in CallType, NEW pc \in Pcs, NEW l \in Lease, NEW io \in Seq(Step)
  PROVE  CallFieldsOK(Call(pc, l, io), pc, l, io, TRUE)
BY DEF CallFieldsOK, Call, CallType

LEMMA ReturnFacts ==
  ASSUME proc \in CallType, NEW ok \in BOOLEAN, NEW l \in Lease, proc.then \in Pcs
  PROVE  CallFieldsOK(Return(ok, l), proc.then, l, <<>>, ok)
<1>1. <<>> \in Seq(Step)
  OBVIOUS
<1>2. /\ Return(ok, l).pc = proc.then /\ Return(ok, l).lease = l /\ Return(ok, l).io = <<>>
      /\ Return(ok, l).ok = ok /\ Return(ok, l).s = proc.s /\ Return(ok, l).v = proc.v
      /\ Return(ok, l).top = proc.top /\ Return(ok, l).then = proc.then
  BY DEF Return, CallType
<1>3. Return(ok, l) \in CallType
  BY <1>1 DEF Return, CallType
<1> QED
  BY <1>2, <1>3 DEF CallFieldsOK

LEMMA ThenFacts == LeaseThens \cup DiscardThens \cup {"lost"} \subseteq Pcs
BY DEF LeaseThens, DiscardThens, Pcs, QuietPcs

\* The values of a function on a finite set.
LEMMA FiniteImage ==
  ASSUME NEW S, IsFiniteSet(S), NEW f
  PROVE  IsFiniteSet({f[e] : e \in S})
<1> DEFINE g == [e \in S |-> f[e]]
           T == {f[e] : e \in S}
<1>1. g \in Surjection(S, T)
  BY DEF Surjection
<1> QED
  BY <1>1, FS_Surjection

LEMMA NonceFacts ==
  ASSUME TypeInv, NEW s \in Sessions
  PROVE  NewNonce(s) \in Nat
<1> DEFINE all == UNION {ns.files : ns \in durable}
           own == {g \in all : g.session = s}
           used == {f.nonce : f \in own}
<1>1. IsFiniteSet({ns.files : ns \in durable})
  <2> DEFINE F == [ns \in durable |-> ns.files]
  <2>1. IsFiniteSet({F[ns] : ns \in durable})
    BY FiniteImage DEF TypeInv
  <2>2. {ns.files : ns \in durable} = {F[ns] : ns \in durable}
    OBVIOUS
  <2> QED
    BY <2>1, <2>2
<1>2. IsFiniteSet(all)
  BY <1>1, FS_UNION DEF TypeInv
<1>3. IsFiniteSet(own)
  BY <1>2, FS_Subset
<1>4. IsFiniteSet(used)
  <2> DEFINE F == [f \in own |-> f.nonce]
  <2>1. IsFiniteSet({F[f] : f \in own})
    BY <1>3, FiniteImage
  <2>2. used = {F[f] : f \in own}
    OBVIOUS
  <2> QED
    BY <2>1, <2>2
<1>5. Cardinality(used) \in Nat
  BY <1>4, FS_CardinalityType
<1>6. \E n \in 1 .. Cardinality(used) + 1 : n \notin used
  <2> SUFFICES ASSUME 1 .. Cardinality(used) + 1 \subseteq used
               PROVE  FALSE
    OBVIOUS
  <2> HIDE DEF used
  <2>1. Cardinality(1 .. Cardinality(used) + 1) = Cardinality(used) + 1
    BY <1>5, FS_Interval
  <2>2. Cardinality(1 .. Cardinality(used) + 1) <= Cardinality(used)
    BY <1>4, FS_Subset
  <2> QED
    BY <1>5, <2>1, <2>2
<1>7. NewNonce(s) = CHOOSE n \in 1 .. Cardinality(used) + 1 : n \notin used
  BY DEF NewNonce
<1>8. NewNonce(s) \in 1 .. Cardinality(used) + 1
  BY <1>6, <1>7
<1> QED
  BY <1>5, <1>8

LEMMA LeaseReferenceFacts ==
  ASSUME NEW ns, TypeInv, NEW s \in Sessions
  PROVE  /\ LeaseReference(s) \in Seq(Step) /\ Legal(ns, s, NoLease, LeaseReference(s))
         /\ LeaseReference(s) # <<>>
<1> DEFINE l == [state |-> "Restore", nonce |-> NewNonce(s), discard |-> FALSE, pending |-> TRUE,
                 slot |-> TRUE]
           step == Move(Reference, Quarantine(l.nonce, "Restore"), l)
           b == SyncPendingNamespaces(l)
<1>1. /\ l \in Lease /\ l.state = "Restore" /\ l.slot /\ ~l.discard
      /\ PlaceOf(l) = Quarantine(l.nonce, "Restore") /\ PlaceOf(l) \in Paths
  BY NonceFacts, PathFacts DEF Lease, LeaseState, PlaceOf, Intent
<1>2. LeaseReference(s) = <<step>> \o b
  BY DEF LeaseReference
<1> HIDE DEF l
<1>3. /\ step \in Step /\ step.op = "move" /\ step.path = Reference /\ step.to = PlaceOf(l)
      /\ step.lease = l
  BY <1>1, StepFacts, PathFacts
<1>4. /\ b \in Seq(Step) /\ Legal(ns, s, l, b) /\ (Len(b) > 0 => b[1].lease.state # "Removed")
  BY <1>1, SyncPendingFacts, SyncPendingLegal, SyncPendingLeases DEF SameLease
<1> HIDE DEF step, b
<1>5. MovesLease(NoLease, step) /\ l.state # "Removed"
  BY <1>1, <1>3 DEF MovesLease
<1>6. <<step>> \o b \in Seq(Step) /\ Legal(ns, s, NoLease, <<step>> \o b) /\ Len(<<step>> \o b) = Len(b) + 1
  <2>1. PICK n : n = NoLease
    OBVIOUS
  <2>2. Legal(ns, s, n, <<step>> \o b)
    BY <1>3, <1>4, <1>5, <2>1, ConsLegal
  <2>3. <<step>> \o b \in Seq(Step) /\ Len(<<step>> \o b) = Len(b) + 1
    BY <1>3, <1>4, ConsFacts
  <2> QED
    BY <2>1, <2>2, <2>3
<1>7. <<step>> \o b # <<>>
  BY <1>4, <1>6
<1> QED
  BY <1>2, <1>6, <1>7

LEMMA PersistFacts ==
  ASSUME NEW ns, NEW s, NEW used \in 0 .. MaxClock
  PROVE  /\ Persist(used) \in Seq(Step) /\ Legal(ns, s, NoLease, Persist(used))
         /\ Leaseless(Persist(used)) /\ Len(Persist(used)) = 4
         /\ Persist(used)[1] = Do("link", Blobs, Blobs, used, NoLease)
         /\ Persist(used)[2] = Sync(Blobs, NoLease)
         /\ Persist(used)[3] = Do("publish", Reference, Reference, used, NoLease)
         /\ Persist(used)[4] = Sync(Reference, NoLease)
<1> DEFINE a == Do("link", Blobs, Blobs, used, NoLease)
           b == Sync(Blobs, NoLease)
           c == Do("publish", Reference, Reference, used, NoLease)
           d == Sync(Reference, NoLease)
<1>1. /\ a \in Step /\ a.op = "link" /\ a.lease = NoLease /\ c \in Step /\ c.op = "publish"
      /\ c.lease = NoLease
  BY LeaseFacts, PathFacts DEF Do, Step
<1>2. /\ b \in Step /\ b.op = "sync" /\ b.lease = NoLease /\ d \in Step /\ d.op = "sync"
      /\ d.lease = NoLease
  BY LeaseFacts, PathFacts, StepFacts
<1>3. Persist(used) = <<a, b>> \o <<c, d>>
  BY DEF Persist, WriteSessionBlob, WriteSessionReference
<1> HIDE DEF a, b, c, d
<1> DEFINE p == <<a, b>> q == <<c, d>> r == p \o q
<1>4. /\ p \in Seq(Step) /\ Len(p) = 2 /\ p[1] = a /\ p[2] = b
      /\ q \in Seq(Step) /\ Len(q) = 2 /\ q[1] = c /\ q[2] = d
  BY <1>1, <1>2, TwoFacts
<1> HIDE DEF p, q
<1>5. /\ r \in Seq(Step) /\ Len(r) = 4 /\ r[1] = a /\ r[2] = b
      /\ r[3] = c /\ r[4] = d
  <2>1. /\ r \in Seq(Step) /\ Len(r) = Len(p) + Len(q)
        /\ \A i \in 1 .. Len(p) : r[i] = p[i]
        /\ \A i \in 1 .. Len(q) : r[Len(p) + i] = q[i]
    BY <1>4, JoinFacts
  <2> HIDE DEF r
  <2>2. r[2 + 1] = q[1] /\ r[2 + 2] = q[2] /\ r[1] = p[1] /\ r[2] = p[2] /\ Len(r) = 4
    BY <1>4, <2>1
  <2> QED
    BY <1>4, <2>1, <2>2
<1> HIDE DEF r
<1>6. SameLease(NoLease, NoLease)
  BY LeaseFacts, SyncedFacts
<1>7. Legal(ns, s, NoLease, r)
  <2>1. \A i \in 1 .. 4 : Before(NoLease, r, i) = NoLease
    BY <1>1, <1>2, <1>5 DEF Before
  <2>2. \A i \in 1 .. 4 : r[i].op \in {"sync", "remove", "link", "publish"} /\ r[i].lease = NoLease
    BY <1>1, <1>2, <1>5
  <2> QED
    BY <1>5, <1>6, <2>1, <2>2 DEF Legal, LegalStep
<1>8. Leaseless(r)
  BY <1>1, <1>2, <1>5 DEF Leaseless
<1> QED
  BY <1>3, <1>5, <1>7, <1>8 DEF p, q, r, a, b, c, d

-----------------------------------------------------------------------------
(* The lease that a script leaves *)

LEMMA NotEmpty ==
  ASSUME NEW a \in Seq(Step)
  PROVE  /\ Len(a) \in Nat /\ (a = <<>> <=> Len(a) = 0)
         /\ a # <<>> => Len(a) > 0 /\ Len(a) \in 1 .. Len(a)
<1>1. Len(<<>>) = 0
  OBVIOUS
<1>2. a # <<>> => Len(a) # 0
  OBVIOUS
<1>3. Len(a) \in Nat
  OBVIOUS
<1> QED
  BY <1>1, <1>2, <1>3

LEMMA LongNotEmpty ==
  ASSUME NEW a \in Seq(Step), Len(a) > 0
  PROVE  a # <<>>
BY NotEmpty

LEMMA JoinFinal ==
  ASSUME NEW l, NEW a \in Seq(Step), NEW b \in Seq(Step), b # <<>>
  PROVE  FinalLease(l, a \o b) = b[Len(b)].lease /\ a \o b # <<>>
<1>1. Len(b) \in 1 .. Len(b) /\ Len(a) \in Nat /\ Len(b) \in Nat
  OBVIOUS
<1> DEFINE c == a \o b
<1>2. Len(c) = Len(a) + Len(b) /\ c[Len(a) + Len(b)] = b[Len(b)] /\ c \in Seq(Step)
  BY <1>1, JoinFacts
<1> HIDE DEF c
<1>3. c # <<>>
  BY <1>1, <1>2
<1> QED
  BY <1>2, <1>3 DEF FinalLease, c

\* No step of either part ends the lease.
LEMMA JoinAll ==
  ASSUME NEW a \in Seq(Step), NEW b \in Seq(Step),
         \A i \in 1 .. Len(a) : a[i].lease.state # "Removed",
         \A i \in 1 .. Len(b) : b[i].lease.state # "Removed"
  PROVE  \A i \in 1 .. Len(a \o b) : (a \o b)[i].lease.state # "Removed"
<1> DEFINE c == a \o b
<1>1. /\ Len(c) = Len(a) + Len(b) /\ Len(a) \in Nat /\ Len(b) \in Nat
      /\ \A i \in 1 .. Len(a) : c[i] = a[i]
      /\ \A i \in 1 .. Len(b) : c[Len(a) + i] = b[i]
  BY JoinFacts
<1> HIDE DEF c
<1>2. ASSUME NEW i \in 1 .. Len(c)
      PROVE  c[i].lease.state # "Removed"
  <2>1. CASE i \in 1 .. Len(a)
    BY <1>1, <2>1
  <2>2. CASE i \notin 1 .. Len(a)
    <3>1. i - Len(a) \in 1 .. Len(b) /\ i = Len(a) + (i - Len(a))
      BY <1>1, <2>2
    <3>2. c[Len(a) + (i - Len(a))] = b[i - Len(a)]
      BY <1>1, <3>1
    <3> QED
      BY <3>1, <3>2
  <2> QED
    BY <2>1, <2>2
<1> QED
  BY <1>2 DEF c

LEMMA SyncPendingFinal ==
  ASSUME NEW l \in Lease
  PROVE  SameLease(l, FinalLease(l, SyncPendingNamespaces(l)))
<1> DEFINE a == SyncPendingNamespaces(l)
<1>1. a \in Seq(Step) /\ Len(a) \in {0, 2} /\ \A i \in 1 .. Len(a) : SameLease(l, a[i].lease)
  BY SyncPendingFacts, SyncPendingLeases
<1> HIDE DEF a
<1>2. CASE Len(a) = 0
  BY <1>1, <1>2, SyncedFacts DEF FinalLease, a
<1>3. CASE Len(a) = 2
  <2>1. a # <<>>
    BY <1>3
  <2> QED
    BY <1>1, <1>3, <2>1 DEF FinalLease, a
<1> QED
  BY <1>1, <1>2, <1>3

LEMMA RemoveSupersededFinal ==
  ASSUME NEW l \in Lease, l.state = "Superseded"
  PROVE  FinalLease(l, RemoveSuperseded(l)) = RemovedLease(l)
<1> DEFINE path == Quarantine(l.nonce, "Superseded")
           a == SyncPendingNamespaces(l)
           b == <<Remove(path, Synced(l)), Sync(path, RemovedLease(l))>>
<1>1. path \in Paths
  BY PathFacts DEF Lease, Intent
<1>2. /\ Remove(path, Synced(l)) \in Step /\ Sync(path, RemovedLease(l)) \in Step
      /\ Sync(path, RemovedLease(l)).lease = RemovedLease(l)
  BY <1>1, StepFacts, SyncedFacts, RemovedFacts
<1>3. b \in Seq(Step) /\ Len(b) = 2 /\ b[2] = Sync(path, RemovedLease(l)) /\ a \in Seq(Step)
  BY <1>2, TwoFacts, SyncPendingFacts
<1>4. RemoveSuperseded(l) = a \o b
  BY DEF RemoveSuperseded
<1> HIDE DEF a, b, path
<1>5. b # <<>>
  <2>1. b \in Seq(Step) /\ Len(b) > 0
    BY <1>3
  <2> QED
    BY <2>1, LongNotEmpty
<1>6. FinalLease(l, a \o b) = b[Len(b)].lease
  BY <1>3, <1>5, JoinFinal
<1> QED
  BY <1>2, <1>3, <1>4, <1>6

LEMMA RetireFinal ==
  ASSUME NEW l \in Lease
  PROVE  FinalLease(l, Retire(l)).state \notin Intent
<1>1. CASE DiscardPending(l)
  BY <1>1, LeaseFacts DEF Retire, DiscardPending, FinalLease, Refuse, Do, Intent
<1>2. CASE ~DiscardPending(l) /\ l.state = "Restore"
  <2> DEFINE m == Moved(l, "Superseded")
             step == Move(PlaceOf(l), PlaceOf(m), m)
             b == RemoveSuperseded(m)
  <2>1. m \in Lease /\ step \in Step /\ m.state = "Superseded" /\ m.nonce = l.nonce
    BY <1>2, MoveLegal DEF Intent
  <2>2. PlaceOf(l) = Quarantine(l.nonce, "Restore") /\ PlaceOf(m) = Quarantine(l.nonce, "Superseded")
    BY <1>2, <2>1 DEF PlaceOf
  <2>3. Retire(l) = <<step>> \o b
    BY <1>2, <2>2 DEF Retire, DiscardPending
  <2>4. b \in Seq(Step) /\ b # <<>> /\ FinalLease(m, b) = RemovedLease(m)
    BY <2>1, RemoveSupersededFacts, RemoveSupersededFinal
  <2>5. RemovedLease(m).state = "Removed" /\ <<step>> \in Seq(Step)
    BY <2>1, RemovedFacts
  <2> HIDE DEF m, step, b
  <2>6. FinalLease(l, <<step>> \o b) = b[Len(b)].lease
    BY <2>4, <2>5, JoinFinal
  <2> QED
    BY <2>3, <2>4, <2>5, <2>6 DEF FinalLease, Intent
<1>3. CASE ~DiscardPending(l) /\ l.state = "Superseded"
  BY <1>3, RemoveSupersededFinal, RemovedFacts DEF Retire, DiscardPending, Intent
<1>4. CASE ~DiscardPending(l) /\ l.state = "Active"
  BY <1>4, SyncPendingFinal DEF Retire, DiscardPending, SameLease, Intent
<1>5. CASE ~DiscardPending(l) /\ l.state \in {"Removed", "None"}
  BY <1>5 DEF Retire, DiscardPending, FinalLease, Intent
<1> QED
  BY <1>1, <1>2, <1>3, <1>4, <1>5 DEF Lease, LeaseState, DiscardPending

LEMMA RestoreMovesBack ==
  ASSUME NEW s, NEW l \in Lease, ~l.discard, l.state = "Restore", ~ActiveSupersedes(s, l)
  PROVE  /\ FinalLease(l, Restore(s, l)).state = "Active"
         /\ \A i \in 1 .. Len(Restore(s, l)) : Restore(s, l)[i].lease.state # "Removed"
<1> DEFINE m == Moved(l, "Active")
           step == Move(PlaceOf(l), PlaceOf(m), m)
           b == SyncPendingNamespaces(m)
<1>1. m \in Lease /\ step \in Step /\ m.state = "Active" /\ m.pending /\ step.lease = m
  BY MoveLegal DEF Intent
<1>2. PlaceOf(l) = Quarantine(l.nonce, "Restore") /\ PlaceOf(m) = Reference
  BY <1>1 DEF PlaceOf
<1>3. Restore(s, l) = <<step>> \o b
  BY <1>2 DEF Restore, ActiveConflicts
<1>4. /\ b \in Seq(Step) /\ Len(b) = 2 /\ SameLease(m, FinalLease(m, b))
      /\ \A i \in 1 .. Len(b) : SameLease(m, b[i].lease)
  BY <1>1, SyncPendingFacts, SyncPendingFinal, SyncPendingLeases
<1>5. <<step>> \in Seq(Step)
  BY <1>1
<1> HIDE DEF m, step, b
<1>6. b # <<>>
  BY <1>4, NotEmpty
<1>7. FinalLease(l, <<step>> \o b).state = "Active"
  BY <1>1, <1>4, <1>5, <1>6, JoinFinal DEF FinalLease, SameLease
<1> DEFINE c == <<step>> \o b
<1>8. c \in Seq(Step) /\ Len(c) = 3 /\ c[1] = step /\ \A i \in 1 .. Len(b) : c[i + 1] = b[i]
  <2>1. c \in Seq(Step) /\ Len(c) = Len(b) + 1 /\ c[1] = step /\ \A i \in 1 .. Len(b) : c[i + 1] = b[i]
    BY <1>1, <1>4, ConsFacts
  <2> QED
    BY <1>4, <2>1
<1> HIDE DEF c
<1>9. \A i \in 1 .. Len(c) : c[i].lease.state = "Active"
  <2>1. c[1 + 1] = b[1] /\ c[2 + 1] = b[2]
    BY <1>4, <1>8
  <2>2. c[1].lease.state = "Active" /\ c[2].lease.state = "Active" /\ c[3].lease.state = "Active"
    BY <1>1, <1>4, <1>8, <2>1 DEF SameLease
  <2> QED
    BY <1>8, <2>2
<1> QED
  BY <1>3, <1>7, <1>9 DEF c

LEMMA RestoreFinal ==
  ASSUME NEW s, NEW l \in Lease
  PROVE  FinalLease(l, Restore(s, l)).state \notin Intent
<1>1. CASE l.discard \/ ActiveConflicts(s, l) \/ l.state \in {"Discard", "Removed"}
  BY <1>1, LeaseFacts DEF Restore, FinalLease, Refuse, Do, Intent
<1>2. CASE ~l.discard /\ ~ActiveConflicts(s, l) /\ l.state = "Restore" /\ ~ActiveSupersedes(s, l)
  BY <1>2, RestoreMovesBack DEF Intent
<1>3. CASE /\ ~l.discard /\ ~ActiveConflicts(s, l)
           /\ (l.state = "Restore" /\ ActiveSupersedes(s, l)) \/ l.state = "Superseded"
  BY <1>3, RetireFinal DEF Restore
<1>4. CASE ~l.discard /\ ~ActiveConflicts(s, l) /\ l.state = "Active"
  BY <1>4, SyncPendingFinal DEF Restore, SameLease, Intent
<1>5. CASE ~l.discard /\ ~ActiveConflicts(s, l) /\ l.state = "None"
  BY <1>5 DEF Restore, FinalLease, Intent
<1> QED
  BY <1>1, <1>2, <1>3, <1>4, <1>5 DEF Lease, LeaseState

LEMMA RequarantineFinal ==
  ASSUME NEW l \in Lease
  PROVE  /\ FinalLease(l, Requarantine(l)).state \in {"None", "Restore"}
         /\ \A i \in 1 .. Len(Requarantine(l)) : Requarantine(l)[i].lease.state # "Removed"
<1>1. CASE l.state # "Active"
  <2>1. Requarantine(l) = <<Do("refuse", Reference, Reference, 0, NoLease)>>
    BY <1>1 DEF Requarantine, Refuse
  <2> QED
    BY <2>1, LeaseFacts DEF FinalLease, Do
<1>2. CASE l.state = "Active"
  <2> DEFINE m == Moved(l, "Restore")
             step == Move(Reference, Quarantine(l.nonce, "Restore"), m)
             a == SyncPendingNamespaces(l)
             b == SyncPendingNamespaces(m)
             d == <<step>>
  <2>1. m \in Lease /\ m.state = "Restore" /\ m.pending
    BY MovedFacts DEF LeaseState
  <2>2. step \in Step /\ step.lease = m /\ d \in Seq(Step)
    BY <2>1, StepFacts, PathFacts DEF Lease, Intent
  <2>3. /\ a \in Seq(Step) /\ \A i \in 1 .. Len(a) : SameLease(l, a[i].lease)
        /\ b \in Seq(Step) /\ Len(b) = 2 /\ \A i \in 1 .. Len(b) : SameLease(m, b[i].lease)
    BY <2>1, SyncPendingFacts, SyncPendingLeases
  <2>4. Requarantine(l) = (a \o d) \o b
    BY <1>2 DEF Requarantine
  <2>5. Len(d) = 1 /\ d[1] = step
    BY <2>2, OneFacts
  <2> HIDE DEF m, step, a, b, d
  <2>6. b # <<>>
    <3>1. b \in Seq(Step) /\ Len(b) > 0
      BY <2>3
    <3> QED
      BY <3>1, LongNotEmpty
  <2> DEFINE e == a \o d
  <2>7. /\ e \in Seq(Step) /\ Len(e) = Len(a) + 1 /\ \A i \in 1 .. Len(a) : e[i] = a[i]
        /\ \A i \in 1 .. 1 : e[Len(a) + i] = d[i]
    <3>1. /\ e \in Seq(Step) /\ Len(e) = Len(a) + Len(d) /\ \A i \in 1 .. Len(a) : e[i] = a[i]
          /\ \A i \in 1 .. Len(d) : e[Len(a) + i] = d[i]
      BY <2>2, <2>3, JoinFacts
    <3> HIDE DEF e
    <3> QED
      BY <2>5, <3>1
  <2> HIDE DEF e
  <2>8. FinalLease(l, e \o b).state = "Restore"
    BY <2>1, <2>3, <2>6, <2>7, JoinFinal DEF SameLease
  <2>9. \A i \in 1 .. Len(e) : e[i].lease.state # "Removed"
    <3> SUFFICES ASSUME NEW i \in 1 .. Len(e)
                 PROVE  e[i].lease.state # "Removed"
      OBVIOUS
    <3>1. Len(a) \in Nat
      BY <2>3
    <3>2. CASE i \in 1 .. Len(a)
      BY <1>2, <2>3, <2>7, <3>2 DEF SameLease
    <3>3. CASE i = Len(a) + 1
      <4>1. e[Len(a) + 1] = d[1]
        BY <2>7
      <4> QED
        BY <2>1, <2>2, <2>5, <3>3, <4>1
    <3> QED
      BY <2>7, <3>1, <3>2, <3>3
  <2>10. \A i \in 1 .. Len(b) : b[i].lease.state # "Removed"
    BY <2>1, <2>3 DEF SameLease
  <2>11. \A i \in 1 .. Len(e \o b) : (e \o b)[i].lease.state # "Removed"
    BY <2>3, <2>7, <2>9, <2>10, JoinAll
  <2> QED
    BY <2>4, <2>8, <2>11 DEF e
<1> QED
  BY <1>1, <1>2

LEMMA DiscardFinal ==
  ASSUME NEW l \in Lease, l.state \in Intent \cup {"Active"}, l.discard
  PROVE  FinalLease(l, Discard(l)).state = "Removed" /\ Discard(l) # <<>>
<1> DEFINE m == IF l.state = "Discard" THEN l ELSE Moved(l, "Discard")
           mark == IF l.state = "Discard" THEN <<>>
                   ELSE <<Move(DiscardSource(l), Quarantine(l.nonce, "Discard"), m)>>
           a == SyncPendingNamespaces(m)
           b == DiscardTail(m)
<1>1. m \in Lease /\ m.state = "Discard" /\ m.nonce = l.nonce
  BY MovedFacts DEF LeaseState
<1>2. DiscardSource(l) \in Paths /\ Quarantine(l.nonce, "Discard") \in Paths
  BY PathFacts, PlaceFacts DEF DiscardSource, PlaceOf, Lease, Intent
<1>3. mark \in Seq(Step)
  <2>1. Move(DiscardSource(l), Quarantine(l.nonce, "Discard"), m) \in Step
    BY <1>1, <1>2, StepFacts
  <2> HIDE DEF m
  <2> QED
    BY <2>1
<1>4. Discard(l) = (mark \o a) \o b
  BY <1>1 DEF Discard, DiscardTail
<1>5. a \in Seq(Step) /\ b \in Seq(Step) /\ Len(b) = 4 /\ b[4] = Sync(Quarantine(m.nonce, "Discard"), RemovedLease(m))
  BY <1>1, SyncPendingFacts, DiscardTailFacts
<1>6. Sync(Quarantine(m.nonce, "Discard"), RemovedLease(m)).lease = RemovedLease(m)
  BY <1>1, <1>2, StepFacts, RemovedFacts
<1>7. RemovedLease(m).state = "Removed"
  BY <1>1, RemovedFacts
<1> HIDE DEF m, mark, a, b
<1>8. b # <<>> /\ mark \o a \in Seq(Step)
  <2>1. b \in Seq(Step) /\ Len(b) > 0
    BY <1>5
  <2>2. b # <<>>
    BY <2>1, LongNotEmpty
  <2> QED
    BY <1>3, <1>5, <2>2, JoinFacts
<1>9. FinalLease(l, (mark \o a) \o b) = b[Len(b)].lease /\ (mark \o a) \o b # <<>>
  BY <1>5, <1>8, JoinFinal
<1> QED
  BY <1>4, <1>5, <1>6, <1>7, <1>9

LEMMA LeaseReferenceFinal ==
  ASSUME TypeInv, NEW s \in Sessions
  PROVE  LET io == LeaseReference(s)
         IN  /\ FinalLease(NoLease, io).state = "Restore"
             /\ io[1].op = "move" /\ io[1].path = Reference /\ io[1].to.intent = "Restore"
             /\ \A i \in 1 .. Len(io) : io[i].lease.state # "Removed" /\ (i > 1 => io[i].op = "sync")
<1> DEFINE l == [state |-> "Restore", nonce |-> NewNonce(s), discard |-> FALSE, pending |-> TRUE,
                 slot |-> TRUE]
           step == Move(Reference, Quarantine(l.nonce, "Restore"), l)
           b == SyncPendingNamespaces(l)
           c == <<step>> \o b
<1>1. /\ l \in Lease /\ l.state = "Restore" /\ l.pending /\ l.nonce \in Nat
      /\ Quarantine(l.nonce, "Restore") \in Paths /\ Quarantine(l.nonce, "Restore").intent = "Restore"
  BY NonceFacts, PathFacts DEF Lease, LeaseState, Intent
<1>2. LeaseReference(s) = c
  BY DEF LeaseReference
<1> HIDE DEF l
<1>3. /\ step \in Step /\ step.op = "move" /\ step.path = Reference /\ step.to.intent = "Restore"
      /\ step.lease = l
  BY <1>1, StepFacts, PathFacts
<1>4. /\ b \in Seq(Step) /\ Len(b) = 2 /\ \A i \in 1 .. Len(b) : SameLease(l, b[i].lease)
      /\ b[1] = Sync(Reference, l) /\ b[2] = Sync(Quarantine(l.nonce, "Restore"), Synced(l))
  BY <1>1, SyncPendingFacts, SyncPendingLeases
<1>5. b[1].op = "sync" /\ b[2].op = "sync"
  BY <1>1, <1>4, StepFacts, PathFacts, SyncedFacts
<1> HIDE DEF step, b
<1>6. c \in Seq(Step) /\ Len(c) = 3 /\ c[1] = step /\ c[2] = b[1] /\ c[3] = b[2]
  <2>1. c \in Seq(Step) /\ Len(c) = Len(b) + 1 /\ c[1] = step /\ \A i \in 1 .. Len(b) : c[i + 1] = b[i]
    BY <1>3, <1>4, ConsFacts
  <2> HIDE DEF c
  <2>2. c[1 + 1] = b[1] /\ c[2 + 1] = b[2]
    BY <1>4, <2>1
  <2> QED
    BY <1>4, <2>1, <2>2
<1> HIDE DEF c
<1>7. c # <<>> /\ FinalLease(NoLease, c) = c[3].lease
  BY <1>6 DEF FinalLease
<1>8. c[1].lease.state = "Restore" /\ c[2].lease.state = "Restore" /\ c[3].lease.state = "Restore"
  BY <1>1, <1>3, <1>4, <1>6 DEF SameLease
<1>9. \A i \in 1 .. Len(c) : c[i].lease.state # "Removed" /\ (i > 1 => c[i].op = "sync")
  BY <1>5, <1>6, <1>8
<1> QED
  BY <1>2, <1>3, <1>6, <1>7, <1>8, <1>9

-----------------------------------------------------------------------------
(* Steps of the server that leave the files alone *)

\* What the invariant says of the call and of its session.
LEMMA Now ==
  ASSUME SessionInv
  PROVE  /\ proc \in CallType /\ proc.s \in Sessions /\ proc.v \in Sessions /\ proc.lease \in Lease
         /\ proc.top \in Tops /\ proc.ok \in BOOLEAN
         /\ mem \in [Sessions -> Held] /\ table \in [Sessions -> Lease]
         /\ CallOK(proc, clock) /\ WhereOK(proc, mem[proc.v].at)
         /\ HandOK(proc, mem[proc.v].lease, table[proc.v]) /\ EndOK(proc)
         /\ \A s \in Sessions : SessionOK(mem[s]) /\ RetainedOK(table[s])
         /\ \A s \in Sessions : mem[s].lease \in Lease /\ mem[s] \in Held
         /\ CountTypes /\ TypeInv
<1>1. TypeInv /\ ControlInv
  BY DEF SessionInv
<1>2. proc \in CallType /\ mem \in [Sessions -> Held] /\ table \in [Sessions -> Lease] /\ CountTypes
  BY <1>1 DEF TypeInv, CountTypes
<1>3. \A s \in Sessions : mem[s].lease \in Lease /\ mem[s] \in Held
  BY <1>2 DEF Held
<1> QED
  BY <1>1, <1>2, <1>3 DEF ControlInv, CallType

\* A step that ends the call, or goes on to insert_session or to the response.
LEMMA AwayTurn ==
  ASSUME SessionInv, NEW x \in Sessions, NEW h \in Held, NEW t \in Lease, NEW c \in CallType,
         Away(c), c.io = <<>>, c.v = c.s, SessionOK(h), RetainedOK(t),
         Num(h.lease) + Num(t) <= Num(mem[x].lease) + Num(table[x]) + Num(proc.lease),
         OneOf(mem[x].lease, h.lease, t, NoLease), OneOf(table[x], h.lease, t, NoLease),
         IF proc.v = x THEN OneOf(proc.lease, h.lease, t, NoLease) ELSE proc.lease.state \notin Intent
  PROVE  Turn(x, h, t, c) /\ \A time : CallOK(c, time)
<1>1. c.pc \in {"idle", "fit", "respond"} /\ c.lease = NoLease
  BY DEF Away
<1>2. \A time : CallOK(c, time)
  BY <1>1 DEF CallOK, Heading, Waking, Loading, LeasePcs, LeaseThens, DiscardThens, QuietPcs
<1>3. Legal(disk, c.v, c.lease, c.io) /\ Leaseless(c.io)
  BY EmptyFacts
<1>4. Num(c.lease) = 0 /\ Num(h.lease) \in Nat /\ Num(t) \in Nat
  BY <1>1, LeaseFacts DEF Num
<1>5. c.pc \notin StartPcs /\ c.pc # "leasing" /\ EndOK(c) /\ LeasingOK(disk, c)
  BY <1>1 DEF StartPcs, EndOK, LeasingOK, ReleasePcs, ScriptPcs
<1>6. Num(h.lease) + Num(t) + Num(c.lease) <= Num(mem[x].lease) + Num(table[x]) + Num(proc.lease)
  BY <1>4
<1> QED
  BY <1>1, <1>2, <1>3, <1>5, <1>6 DEF Turn, ScriptReady

LEMMA IdleKeeps ==
  ASSUME SessionInv, ~Starting, NEW x \in Sessions, NEW h \in Held, NEW t \in Lease, NEW c \in CallType,
         Away(c), c.io = <<>>, c.v = c.s, SessionOK(h), RetainedOK(t),
         Num(h.lease) + Num(t) <= Num(mem[x].lease) + Num(table[x]) + Num(proc.lease),
         OneOf(mem[x].lease, h.lease, t, NoLease), OneOf(table[x], h.lease, t, NoLease),
         IF proc.v = x THEN OneOf(proc.lease, h.lease, t, NoLease) ELSE proc.lease.state \notin Intent,
         CountTypes', mem' = [mem EXCEPT ![x] = h], table' = [table EXCEPT ![x] = t], proc' = c,
         UNCHANGED <<disk, durable>>
  PROVE  SessionInv'
BY AwayTurn, TurnKeeps

LEMMA IdleAway == Away(Idle) /\ Idle.io = <<>> /\ Idle.v = Idle.s /\ Idle \in CallType
BY IdleFacts DEF Away

\* The call ends and the session is where it was, or elsewhere with the same lease.
LEMMA EndKeeps ==
  ASSUME SessionInv, ~Starting, NEW x \in Sessions, NEW h \in Held, h.lease = mem[x].lease, SessionOK(h),
         NEW c \in CallType, Away(c), c.io = <<>>, c.v = c.s,
         proc.lease.state \notin Intent, CountTypes', mem' = [mem EXCEPT ![x] = h], UNCHANGED table,
         proc' = c, UNCHANGED <<disk, durable>>
  PROVE  SessionInv'
<1>1. RetainedOK(table[x]) /\ table[x] \in Lease /\ table' = [table EXCEPT ![x] = table[x]]
  BY Now
<1>2. /\ OneOf(mem[x].lease, h.lease, table[x], NoLease) /\ OneOf(table[x], h.lease, table[x], NoLease)
      /\ OneOf(proc.lease, h.lease, table[x], NoLease) /\ proc.lease.state \notin Intent
  BY DEF OneOf
<1>3. Num(h.lease) + Num(table[x]) <= Num(mem[x].lease) + Num(table[x]) + Num(proc.lease)
  BY DEF Num
<1> QED
  BY <1>1, <1>2, <1>3, IdleKeeps

\* The call ends and the lease in hand goes to the session.
LEMMA GiveKeeps ==
  ASSUME SessionInv, ~Starting, NEW h \in Held, h.lease = proc.lease, SessionOK(h),
         mem[proc.v].lease = NoLease,
         NEW c \in CallType, Away(c), c.io = <<>>, c.v = c.s,
         CountTypes', mem' = [mem EXCEPT ![proc.v] = h], UNCHANGED table, proc' = c,
         UNCHANGED <<disk, durable>>
  PROVE  SessionInv'
<1> DEFINE x == proc.v
<1>1. /\ x \in Sessions /\ RetainedOK(table[x]) /\ table[x] \in Lease
      /\ table' = [table EXCEPT ![x] = table[x]]
  BY Now
<1>2. /\ OneOf(mem[x].lease, h.lease, table[x], NoLease) /\ OneOf(table[x], h.lease, table[x], NoLease)
      /\ OneOf(proc.lease, h.lease, table[x], NoLease)
  BY LeaseFacts DEF OneOf, Intent
<1>3. Num(h.lease) + Num(table[x]) <= Num(mem[x].lease) + Num(table[x]) + Num(proc.lease)
  BY LeaseFacts DEF Num
<1> QED
  BY <1>1, <1>2, <1>3, IdleKeeps

\* The call ends and the lease in hand is retained.
LEMMA RetainKeeps ==
  ASSUME SessionInv, ~Starting, NEW h \in Held, h.lease = mem[proc.v].lease, SessionOK(h),
         table[proc.v] = NoLease, RetainedOK(proc.lease),
         NEW c \in CallType, Away(c), c.io = <<>>, c.v = c.s,
         CountTypes', mem' = [mem EXCEPT ![proc.v] = h],
         table' = [table EXCEPT ![proc.v] = proc.lease], proc' = c,
         UNCHANGED <<disk, durable>>
  PROVE  SessionInv'
<1> DEFINE x == proc.v
<1>1. x \in Sessions /\ proc.lease \in Lease
  BY Now
<1>2. /\ OneOf(mem[x].lease, h.lease, proc.lease, NoLease) /\ OneOf(table[x], h.lease, proc.lease, NoLease)
      /\ OneOf(proc.lease, h.lease, proc.lease, NoLease)
  BY LeaseFacts DEF OneOf, Intent
<1>3. Num(h.lease) + Num(proc.lease) <= Num(mem[x].lease) + Num(table[x]) + Num(proc.lease)
  BY LeaseFacts DEF Num
<1> QED
  BY <1>1, <1>2, <1>3, IdleKeeps

\* Retained keeps a lease that has a slot, and its session's place is free.
LEMMA RetainedFacts ==
  ASSUME SessionInv, table[proc.v] = NoLease, RetainedOK(proc.lease)
  PROVE  /\ Retained(proc.v, proc.lease) = [table EXCEPT ![proc.v] = proc.lease]
         /\ proc.lease # NoLease => CanRetain(proc.v)
<1>1. table \in [Sessions -> Lease] /\ proc.v \in Sessions
  BY Now
<1>2. CASE proc.lease = NoLease
  BY <1>1, <1>2 DEF Retained
<1>3. CASE proc.lease # NoLease
  <2>1. proc.lease.slot
    BY <1>3 DEF RetainedOK
  <2>2. TypeInv /\ SlotInv /\ \A s \in Sessions : RetainedOK(table[s])
    BY Now DEF SessionInv
  <2>3. CanRetain(proc.v)
    BY <1>1, <2>1, <2>2, RetainRoom
  <2> QED
    BY <1>3, <2>3 DEF Retained
<1> QED
  BY <1>2, <1>3

\* The call goes on with the session and the lease it has.
LEMMA StayKeeps ==
  ASSUME SessionInv, ~Starting, NEW h \in Held, h.lease = mem[proc.v].lease, SessionOK(h),
         NEW c \in CallType, c.v = proc.v,
         CallOK(c, clock'), WhereOK(c, h.at), HandOK(c, mem[c.v].lease, table[c.v]), ScriptReady(c),
         (c.lease.state = proc.lease.state /\ c.lease.nonce = proc.lease.nonce)
           \/ proc.lease.state \notin Intent,
         c.lease.slot => proc.lease.slot,
         c.pc = "leasing" /\ c.lease = NoLease => Slots(mem, table, proc.lease) < RecoveryLimit,
         CountTypes', mem' = [mem EXCEPT ![proc.v] = h], UNCHANGED table, proc' = c,
         UNCHANGED <<disk, durable>>
  PROVE  SessionInv'
<1> DEFINE x == proc.v
<1>1. /\ x \in Sessions /\ RetainedOK(table[x]) /\ table[x] \in Lease
      /\ table' = [table EXCEPT ![x] = table[x]]
  BY Now
<1>2. /\ OneOf(mem[x].lease, h.lease, table[x], c.lease) /\ OneOf(table[x], h.lease, table[x], c.lease)
      /\ OneOf(proc.lease, h.lease, table[x], c.lease)
  BY DEF OneOf
<1>3. Num(h.lease) + Num(table[x]) + Num(c.lease) <= Num(mem[x].lease) + Num(table[x]) + Num(proc.lease)
  BY DEF Num
<1>4. Turn(x, h, table[x], c)
  BY <1>1, <1>2, <1>3 DEF Turn
<1> QED
  BY <1>1, <1>4, TurnKeeps

\* A call begins with the lease of a session.
LEMMA TakeKeeps ==
  ASSUME SessionInv, ~Starting, NEW x \in Sessions, NEW h \in Held, h.lease = NoLease, SessionOK(h),
         NEW c \in CallType, c.v = x, c.lease = mem[x].lease, proc.lease.state \notin Intent,
         CallOK(c, clock'), WhereOK(c, h.at), HandOK(c, NoLease, table[x]), ScriptReady(c),
         c.pc # "leasing",
         CountTypes', mem' = [mem EXCEPT ![x] = h], UNCHANGED table, proc' = c,
         UNCHANGED <<disk, durable>>
  PROVE  SessionInv'
<1>1. RetainedOK(table[x]) /\ table[x] \in Lease /\ table' = [table EXCEPT ![x] = table[x]]
  BY Now
<1>2. /\ OneOf(mem[x].lease, h.lease, table[x], c.lease) /\ OneOf(table[x], h.lease, table[x], c.lease)
      /\ OneOf(proc.lease, h.lease, table[x], c.lease) /\ proc.lease.state \notin Intent
  BY DEF OneOf
<1>3. Num(h.lease) + Num(table[x]) + Num(c.lease) <= Num(mem[x].lease) + Num(table[x]) + Num(proc.lease)
  BY LeaseFacts DEF Num
<1>4. Turn(x, h, table[x], c)
  BY <1>1, <1>2, <1>3 DEF Turn
<1> QED
  BY <1>1, <1>4, TurnKeeps

\* A call with nothing left to do to the files.
LEMMA NoScriptReady ==
  ASSUME NEW c \in CallType, c.io = <<>>,
         c.pc \in QuietPcs \cup LeaseThens \cup {"discard", "panic"}
  PROVE  ScriptReady(c)
<1>1. Legal(disk, c.v, c.lease, c.io) /\ Leaseless(c.io)
  BY EmptyFacts
<1>2. c.pc \notin StartPcs /\ EndOK(c) /\ LeasingOK(disk, c)
  BY DEF StartPcs, EndOK, LeasingOK, QuietPcs, LeaseThens, DiscardThens, ReleasePcs, ScriptPcs
<1> QED
  BY <1>1, <1>2 DEF ScriptReady

\* restore() of a lease, whatever it is for.
LEMMA RestoreReady ==
  ASSUME NEW c \in CallType, NEW s, c.lease \in Lease, c.io = Restore(s, c.lease),
         c.pc \in ScriptPcs \ {"persisted"}
  PROVE  ScriptReady(c)
<1>1. Legal(disk, c.v, c.lease, c.io)
  BY RestoreFacts
<1>2. FinalLease(c.lease, c.io).state \notin Intent
  BY RestoreFinal
<1>3. c.lease = NoLease => Leaseless(c.io)
  <2>1. c.lease = NoLease => c.io \in {Refuse, <<>>}
    BY LeaseFacts DEF Restore
  <2> QED
    BY <2>1, RefuseFacts, EmptyFacts
<1>4. c.pc \notin StartPcs /\ EndOK(c) /\ LeasingOK(disk, c)
  BY <1>2 DEF StartPcs, EndOK, LeasingOK, ReleasePcs, ScriptPcs
<1> QED
  BY <1>1, <1>3, <1>4 DEF ScriptReady

USE DEF Heading, Waking, Hibernating, Loading, Finishing, Fitting, StartPcs, QuietPcs, DiscardPcs, LeasePcs,
        LeaseThens, DiscardThens, ScriptPcs, ReleasePcs, TableFree, Taken

LEMMA ContinueColdKeeps ==
  ASSUME SessionInv, ContinueCold
  PROVE  SessionInv'
<1> DEFINE x == proc.v
           h == IF proc.ok THEN [mem[x] EXCEPT !.at = "task"] ELSE mem[x]
<1>1. proc.pc = "cold" /\ ~Starting
  BY DEF ContinueCold, Reached, Starting
<1>2. /\ proc.s = x /\ x \in Sessions /\ proc.lease.state \notin Intent
      /\ proc.ok => mem[x].at = "absent"
  BY <1>1, Now, LeaseFacts DEF CallOK, WhereOK, HandOK, Intent
<1>3. h \in Held /\ h.lease = mem[x].lease /\ SessionOK(h)
  BY <1>2, Now, LeaseFacts DEF Held, SessionOK
<1>4. mem' = [mem EXCEPT ![x] = h]
  BY <1>2, Now DEF ContinueCold
<1>5. CountTypes' /\ UNCHANGED <<disk, durable, table>> /\ proc' = Idle
  BY Now DEF ContinueCold, CountTypes, disk_vars, history_vars
<1> QED
  BY <1>1, <1>2, <1>3, <1>4, <1>5, IdleAway, EndKeeps

LEMMA AttachResidentSessionKeeps ==
  ASSUME SessionInv, AttachResidentSession
  PROVE  SessionInv'
<1> DEFINE x == proc.v
<1>1. proc.pc = "attach" /\ ~Starting
  BY DEF AttachResidentSession, Reached, Starting
<1>2. /\ proc.s = x /\ x \in Sessions /\ mem[x].at = "resident" /\ mem[x].lease = NoLease
      /\ Waiting(proc.lease) /\ (LiveLease(proc.lease) => proc.lease.slot \/ proc.lease.discard)
      /\ ~proc.ok => proc.lease.state \notin Intent
      /\ ~DiscardPending(proc.lease)
  BY <1>1, Now, LeaseFacts DEF CallOK, WhereOK, HandOK, Intent, Waiting
<1>3. CountTypes' /\ UNCHANGED <<disk, durable, table>> /\ proc' = Idle
  BY Now DEF AttachResidentSession, CountTypes, disk_vars, history_vars
<1>4. CASE proc.ok /\ mem' = [mem EXCEPT ![proc.s].at = "task", ![proc.s].lease = proc.lease]
  <2> DEFINE h == [mem[x] EXCEPT !.at = "task", !.lease = proc.lease]
  <2>1. h \in Held /\ h.lease = proc.lease /\ h.at = "task"
    BY <1>2, Now DEF Held
  <2>3. SessionOK(h)
    BY <1>2, <2>1 DEF SessionOK, Waiting
  <2>2. mem' = [mem EXCEPT ![x] = h]
    BY <1>2, <1>4, Now
  <2> QED
    BY <1>1, <1>2, <1>3, <2>1, <2>3, <2>2, IdleAway, GiveKeeps
<1>5. CASE proc.ok /\ mem' = Holding(proc.s, proc.lease)
  <2> DEFINE h == [mem[x] EXCEPT !.lease = proc.lease]
  <2>1. h \in Held /\ h.lease = proc.lease /\ SessionOK(h)
    BY <1>2, Now DEF Held, SessionOK, Waiting
  <2>2. mem' = [mem EXCEPT ![x] = h]
    BY <1>2, <1>5, Now DEF Holding
  <2> QED
    BY <1>1, <1>2, <1>3, <2>1, <2>2, IdleAway, GiveKeeps
<1>6. CASE ~proc.ok /\ UNCHANGED mem
  <2>1. mem' = [mem EXCEPT ![x] = mem[x]] /\ mem[x] \in Held /\ SessionOK(mem[x])
    BY <1>2, <1>6, Now
  <2> QED
    BY <1>1, <1>2, <1>3, <1>6, <2>1, IdleAway, EndKeeps
<1> QED
  BY <1>4, <1>5, <1>6 DEF AttachResidentSession

LEMMA FinishWakeErrorKeeps ==
  ASSUME SessionInv, FinishWakeError
  PROVE  SessionInv'
<1> DEFINE x == proc.v
<1>1. proc.pc = "wakeFailed" /\ proc.io = <<>> /\ ~Starting
  BY DEF FinishWakeError, Reached, Starting
<1>2. /\ proc.s = x /\ x \in Sessions /\ mem[x].lease = NoLease /\ mem[x].at = "hibernated"
      /\ ~proc.ok => Waiting(proc.lease)
      /\ LiveLease(proc.lease) => proc.lease.slot \/ proc.lease.discard
      /\ proc.ok => proc.lease.state \notin Intent
  BY <1>1, Now DEF CallOK, WhereOK, HandOK, EndOK, FinalLease
<1>3. CountTypes' /\ UNCHANGED <<disk, durable, table>> /\ proc' = Idle
  BY Now DEF FinishWakeError, CountTypes, disk_vars, history_vars
<1>4. CASE proc.ok
  <2>1. mem' = [mem EXCEPT ![x] = mem[x]] /\ mem[x] \in Held /\ SessionOK(mem[x])
    BY <1>2, <1>4, Now DEF FinishWakeError
  <2> QED
    BY <1>1, <1>2, <1>3, <1>4, <2>1, IdleAway, EndKeeps
<1>5. CASE ~proc.ok
  <2> DEFINE h == [mem[x] EXCEPT !.lease = proc.lease]
  <2>1. h \in Held /\ h.lease = proc.lease /\ SessionOK(h)
    BY <1>2, <1>5, Now DEF Held, SessionOK, Waiting
  <2>2. mem' = [mem EXCEPT ![x] = h]
    BY <1>2, <1>5, Now DEF FinishWakeError, Holding
  <2> QED
    BY <1>1, <1>2, <1>3, <2>1, <2>2, IdleAway, GiveKeeps
<1> QED
  BY <1>4, <1>5

LEMMA ReferenceRestoredKeeps ==
  ASSUME SessionInv, ReferenceRestored
  PROVE  SessionInv'
<1> DEFINE x == proc.v
<1>1. proc.pc = "unloaded" /\ proc.io = <<>> /\ ~Starting
  BY DEF ReferenceRestored, Reached, Starting
<1>2. /\ proc.s = x /\ x \in Sessions /\ table[x] = NoLease
      /\ ~proc.ok => RetainedOK(proc.lease)
      /\ proc.ok => proc.lease.state \notin Intent
  BY <1>1, Now DEF CallOK, HandOK, EndOK, FinalLease, RetainedOK, Waiting
<1>3. CountTypes' /\ UNCHANGED <<disk, durable, mem>> /\ proc' = Idle
  BY Now DEF ReferenceRestored, CountTypes, disk_vars, history_vars
<1>4. mem' = [mem EXCEPT ![x] = mem[x]] /\ mem[x] \in Held /\ SessionOK(mem[x])
  BY <1>2, <1>3, Now
<1>5. CASE proc.ok
  <2>1. UNCHANGED table
    BY <1>5 DEF ReferenceRestored
  <2> QED
    BY <1>1, <1>2, <1>3, <1>4, <1>5, <2>1, IdleAway, EndKeeps
<1>6. CASE ~proc.ok
  <2>1. table' = [table EXCEPT ![x] = proc.lease]
    BY <1>2, <1>6, RetainedFacts DEF ReferenceRestored
  <2> QED
    BY <1>1, <1>2, <1>3, <1>4, <1>6, <2>1, IdleAway, RetainKeeps
<1> QED
  BY <1>5, <1>6

LEMMA LastUsedFacts ==
  ASSUME NEW ns \in Namespace, NEW s, NEW path
  PROVE  LastUsed(ns, s, path) \in 0 .. MaxClock
<1>1. \A f \in At(ns, s, path) : f.last_used \in 0 .. MaxClock
  BY DEF At, Namespace, StoredFile
<1> QED
  BY <1>1, StoreAssumption DEF LastUsed, Exists

LEMMA DiskFacts ==
  ASSUME SessionInv
  PROVE  disk \in Namespace /\ IsFiniteSet(disk.files)
BY DEF SessionInv, TypeInv

\* A lease is discarded.
LEMMA DiscardReady ==
  ASSUME NEW c \in CallType, c.lease \in Lease, LiveLease(c.lease), c.lease.discard,
         c.io = Discard(c.lease), c.pc \in {"discarded", "resolvedDiscard"}
  PROVE  ScriptReady(c)
<1>1. c.lease.state \in Intent \cup {"Active"} /\ c.lease # NoLease
  BY LeaseFacts DEF LiveLease, Lease, LeaseState, Intent
<1>2. Legal(disk, c.v, c.lease, c.io)
  BY <1>1, DiscardFacts
<1>3. FinalLease(c.lease, c.io).state \notin Intent
  BY <1>1, DiscardFinal DEF Intent
<1>4. c.pc \notin StartPcs /\ EndOK(c) /\ LeasingOK(disk, c)
  BY <1>3 DEF EndOK, LeasingOK
<1> QED
  BY <1>1, <1>2, <1>4 DEF ScriptReady

DiscardingOK(c, l) ==
  /\ c \in CallType /\ c.pc = "discarded" /\ c.lease \in Lease /\ c.lease.discard /\ LiveLease(c.lease)
  /\ c.lease.state = l.state /\ c.lease.nonce = l.nonce /\ c.lease.slot = l.slot
  /\ c.s = proc.s /\ c.v = proc.v /\ c.top = proc.top /\ c.ok /\ ScriptReady(c)

LEMMA DiscardLeasedFacts ==
  ASSUME proc \in CallType, NEW l \in Lease, LiveLease(l)
  PROVE  /\ DiscardingOK(DiscardLeased(l), l) /\ DiscardLeased(l).then = proc.then
         /\ \A then \in Thens : DiscardingOK([DiscardLeased(l) EXCEPT !.then = then], l)
                                /\ [DiscardLeased(l) EXCEPT !.then = then].then = then
<1> DEFINE d == [l EXCEPT !.discard = TRUE]
           b == DiscardLeased(l)
<1>1. d \in Lease /\ d.discard /\ d.state = l.state /\ d.nonce = l.nonce /\ d.slot = l.slot
  BY DiscardingFacts
<1>2. LiveLease(d) /\ d.state \in Intent \cup {"Active"}
  BY <1>1 DEF LiveLease, Lease, LeaseState, Intent
<1>3. b = Call("discarded", d, Discard(d))
  BY DEF DiscardLeased
<1> HIDE DEF d
<1>4. Discard(d) \in Seq(Step)
  BY <1>1, <1>2, DiscardFacts
<1>5. CallFieldsOK(b, "discarded", d, Discard(d), TRUE)
  <2>1. "discarded" \in Pcs
    BY DEF Pcs
  <2> QED
    BY <1>1, <1>3, <1>4, <2>1, CallFacts
<1> HIDE DEF b
<1>6. DiscardingOK(b, l) /\ b.then = proc.then
  BY <1>1, <1>2, <1>5, DiscardReady DEF DiscardingOK, CallFieldsOK
<1>7. ASSUME NEW then \in Thens
      PROVE  DiscardingOK([b EXCEPT !.then = then], l) /\ [b EXCEPT !.then = then].then = then
  <2> DEFINE c == [b EXCEPT !.then = then]
  <2>1. /\ c \in CallType /\ c.pc = "discarded" /\ c.lease = d /\ c.io = Discard(d) /\ c.ok
        /\ c.s = proc.s /\ c.v = proc.v /\ c.top = proc.top /\ c.then = then
    BY <1>5 DEF CallFieldsOK, CallType
  <2> HIDE DEF c
  <2>2. ScriptReady(c)
    BY <1>1, <1>2, <2>1, DiscardReady
  <2>3. DiscardingOK(c, l) /\ c.then = then
    BY <1>1, <1>2, <2>1, <2>2 DEF DiscardingOK
  <2> QED
    BY <2>3 DEF c
<1> QED
  BY <1>6, <1>7 DEF b

LEMMA WakeHibernatedSessionKeeps ==
  ASSUME SessionInv, WakeHibernatedSession
  PROVE  SessionInv'
<1> DEFINE x == proc.v
<1>1. proc.pc = "wake" /\ proc.io = <<>> /\ ~Starting
  BY DEF WakeHibernatedSession, Reached, Starting
<1>2. /\ proc.s = x /\ x \in Sessions /\ mem[x].at = "hibernated" /\ mem[x].lease = NoLease
      /\ proc.top \in {"continue", "fork"} /\ (proc.top = "fork" => clock < MaxClock)
      /\ Waiting(proc.lease) /\ (LiveLease(proc.lease) => proc.lease.slot \/ proc.lease.discard)
      /\ ~LiveLease(proc.lease) => ~proc.lease.slot
      /\ LiveLease(proc.lease) => ~DiscardPending(proc.lease)
      /\ ~proc.ok => proc.lease.state \notin Intent
      /\ proc.lease \in Lease /\ proc \in CallType
  BY <1>1, Now, LeaseFacts DEF CallOK, WhereOK, HandOK, Intent
<1>3. CountTypes' /\ UNCHANGED <<disk, durable, table, clock>>
  <2>1. kept' = kept \/ kept' = [kept EXCEPT ![proc.s] = 0]
    BY DEF WakeHibernatedSession
  <2>2. persisted' = persisted \/ persisted' = [persisted EXCEPT ![proc.s] = 0]
    BY DEF WakeHibernatedSession, RemoveSessionState
  <2>3. kept' \in [Sessions -> Nat] /\ persisted' \in [Sessions -> Nat]
    BY <2>1, <2>2, Now DEF CountTypes
  <2> QED
    BY <2>3, Now DEF WakeHibernatedSession, CountTypes, disk_vars
<1>4. mem[x] \in Held /\ SessionOK(mem[x]) /\ mem = [mem EXCEPT ![x] = mem[x]]
  BY <1>2, Now
<1>5. CASE ~proc.ok /\ proc' = Idle /\ UNCHANGED mem
  BY <1>1, <1>2, <1>3, <1>4, <1>5, IdleAway, EndKeeps
<1>6. ASSUME proc.ok, UNCHANGED mem, NEW outcome \in {"woken", "wakeFailed"},
             proc' = Call(outcome, proc.lease, Restore(proc.s, proc.lease))
      PROVE  SessionInv'
  <2> DEFINE c == proc'
  <2>1. Restore(proc.s, proc.lease) \in Seq(Step)
    BY <1>2, RestoreFacts
  <2>2. CallFieldsOK(c, outcome, proc.lease, Restore(proc.s, proc.lease), TRUE)
    <3>1. outcome \in Pcs
      BY <1>6 DEF Pcs
    <3> QED
      BY <1>2, <1>6, <2>1, <3>1, CallFacts
  <2> HIDE DEF c
  <2>3. ScriptReady(c)
    BY <1>2, <2>2, RestoreReady DEF CallFieldsOK
  <2>4. CallOK(c, clock') /\ WhereOK(c, mem[x].at) /\ HandOK(c, mem[c.v].lease, table[c.v])
    BY <1>2, <1>3, <2>2 DEF CallFieldsOK, CallOK, WhereOK, HandOK
  <2>5. proc' = c
    BY DEF c
  <2> QED
    BY <1>1, <1>2, <1>3, <1>4, <1>6, <2>2, <2>3, <2>4, <2>5, StayKeeps DEF CallFieldsOK
<1>7. CASE proc.ok /\ proc.lease = NoLease /\ RemoveSessionState(proc.s) /\ proc' = Idle
  <2>1. mem' = [mem EXCEPT ![x] = Absent] /\ Absent \in Held /\ SessionOK(Absent) /\ Absent.lease = mem[x].lease
    BY <1>2, <1>7, LeaseFacts DEF RemoveSessionState, Absent, Held, SessionOK
  <2>2. proc.lease.state \notin Intent
    BY <1>7, LeaseFacts DEF Intent
  <2> QED
    BY <1>1, <1>2, <1>3, <1>7, <2>1, <2>2, IdleAway, EndKeeps
<1>8. CASE /\ proc.ok /\ proc.lease # NoLease /\ proc' = [DiscardLeased(proc.lease) EXCEPT !.then = "ended"]
           /\ UNCHANGED mem
  <2> DEFINE c == proc'
  <2>1. DiscardingOK(c, proc.lease) /\ c.then = "ended"
    <3>1. LiveLease(proc.lease) /\ "ended" \in Thens
      BY <1>2, <1>8 DEF Waiting, Thens
    <3> QED
      BY <1>2, <1>8, <3>1, DiscardLeasedFacts
  <2> HIDE DEF c
  <2>2. proc' = c
    BY DEF c
  <2>3. CallOK(c, clock') /\ WhereOK(c, mem[x].at) /\ HandOK(c, mem[c.v].lease, table[c.v])
    BY <1>2, <2>1 DEF DiscardingOK, CallOK, WhereOK, HandOK, Waiting
  <2> QED
    BY <1>1, <1>2, <1>3, <1>4, <1>8, <2>1, <2>2, <2>3, StayKeeps DEF DiscardingOK
<1> QED
  BY <1>5, <1>6, <1>7, <1>8 DEF WakeHibernatedSession

\* A call that begins with no lease in hand.
LEMMA BeginFacts ==
  ASSUME NEW pc \in Pcs, NEW top \in Tops, NEW then \in Thens, NEW s \in Sessions
  PROVE  EnterOK(Begin(pc, top, then, s, NoLease), pc, top, then, s, s, NoLease)
BY EnterFacts, LeaseFacts DEF Begin

LEMMA FinishWakeKeeps ==
  ASSUME SessionInv, FinishWake
  PROVE  SessionInv'
<1> DEFINE x == proc.v
<1>1. proc.pc = "woken" /\ proc.io = <<>> /\ ~Starting
  BY DEF FinishWake, Reached, Starting
<1>2. /\ proc.s = x /\ x \in Sessions /\ mem[x].at = "hibernated" /\ mem[x].lease = NoLease
      /\ proc.top \in {"continue", "fork"} /\ (proc.top = "fork" => clock < MaxClock)
      /\ LiveLease(proc.lease) => proc.lease.slot \/ proc.lease.discard
      /\ ~proc.ok => Waiting(proc.lease)
      /\ proc.ok => proc.lease.state \notin Intent
      /\ proc.lease \in Lease /\ mem \in [Sessions -> Held] /\ mem[x] \in Held /\ CountTypes
  BY <1>1, Now DEF CallOK, WhereOK, HandOK, EndOK, FinalLease
<1>3. UNCHANGED <<disk, durable, table>>
  BY DEF FinishWake, disk_vars
<1>4. CountTypes'
  <2>1. clock' = clock \/ (clock' = clock + 1 /\ clock < MaxClock)
    BY <1>2 DEF FinishWake
  <2>2. clock' \in 0 .. MaxClock
    BY <1>2, <2>1, StoreAssumption DEF CountTypes
  <2> QED
    BY <1>2, <2>2 DEF FinishWake, CountTypes, disk_vars, history_vars
<1>5. CASE ~proc.ok /\ mem' = Holding(proc.s, proc.lease) /\ proc' = Idle
  <2> DEFINE h == [mem[x] EXCEPT !.lease = proc.lease]
  <2>1. h \in Held /\ h.lease = proc.lease /\ SessionOK(h)
    BY <1>2, <1>5 DEF Held, SessionOK, Waiting
  <2>2. mem' = [mem EXCEPT ![x] = h]
    BY <1>2, <1>5 DEF Holding
  <2> QED
    BY <1>1, <1>2, <1>3, <1>4, <1>5, <2>1, <2>2, IdleAway, GiveKeeps
<1>6. CASE proc.ok /\ proc' = Idle /\ UNCHANGED mem
  <2>1. mem' = [mem EXCEPT ![x] = mem[x]] /\ SessionOK(mem[x])
    BY <1>2, <1>6, Now
  <2> QED
    BY <1>1, <1>2, <1>3, <1>4, <1>6, <2>1, IdleAway, EndKeeps
<1>7. CASE /\ proc.ok /\ mem' = [mem EXCEPT ![proc.s].at = "resident"] /\ UNCHANGED clock
           /\ proc' = Begin("lease", "continue", "attach", proc.s, NoLease)
  <2> DEFINE c == proc'
             h == [mem[x] EXCEPT !.at = "resident"]
  <2>1. EnterOK(c, "lease", "continue", "attach", x, x, NoLease)
    <3>1. "lease" \in Pcs /\ "continue" \in Tops /\ "attach" \in Thens
      BY DEF Pcs, Tops, Thens
    <3> QED
      BY <1>2, <1>7, <3>1, BeginFacts
  <2>2. h \in Held /\ h.lease = mem[x].lease /\ SessionOK(h) /\ h.at = "resident"
    BY <1>2, LeaseFacts DEF Held, SessionOK
  <2>3. mem' = [mem EXCEPT ![x] = h]
    BY <1>2, <1>7
  <2> HIDE DEF c, h
  <2>4. ScriptReady(c)
    BY <2>1, NoScriptReady DEF EnterOK
  <2>5. CallOK(c, clock') /\ WhereOK(c, h.at) /\ HandOK(c, mem[c.v].lease, table[c.v])
    BY <1>2, <2>1, <2>2, LeaseFacts DEF EnterOK, CallOK, WhereOK, HandOK
  <2>6. proc' = c
    BY DEF c
  <2> QED
    BY <1>1, <1>2, <1>3, <1>4, <1>7, <2>1, <2>2, <2>3, <2>4, <2>5, <2>6, LeaseFacts, StayKeeps DEF EnterOK
<1>8. CASE /\ proc.ok /\ mem' = [mem EXCEPT ![proc.s].at = "resident", ![proc.s].last_used = clock + 1]
           /\ proc' = Begin("fit", "fork", "none", proc.s, NoLease)
  <2> DEFINE c == proc'
             h == [mem[x] EXCEPT !.at = "resident", !.last_used = clock + 1]
  <2>1. EnterOK(c, "fit", "fork", "none", x, x, NoLease)
    <3>1. "fit" \in Pcs /\ "fork" \in Tops /\ "none" \in Thens
      BY DEF Pcs, Tops, Thens
    <3> QED
      BY <1>2, <1>8, <3>1, BeginFacts
  <2>2. h \in Held /\ h.lease = mem[x].lease /\ SessionOK(h)
    <3>1. clock + 1 \in Nat
      BY <1>2, StoreAssumption DEF CountTypes
    <3> QED
      BY <1>2, <3>1, LeaseFacts DEF Held, SessionOK
  <2>3. mem' = [mem EXCEPT ![x] = h]
    BY <1>2, <1>8
  <2> HIDE DEF c, h
  <2>4. Away(c) /\ proc' = c /\ c \in CallType /\ c.io = <<>> /\ c.v = c.s
    BY <2>1 DEF EnterOK, Away, c
  <2>5. proc.lease.state \notin Intent
    BY <1>2, <1>8
  <2> QED
    BY <1>1, <1>2, <1>3, <1>4, <2>2, <2>3, <2>4, <2>5, EndKeeps
<1> QED
  BY <1>5, <1>6, <1>7, <1>8 DEF FinishWake

LEMMA RestorePersistedKeeps ==
  ASSUME SessionInv, RestorePersisted
  PROVE  SessionInv'
<1> DEFINE x == proc.v
<1>1. proc.pc = "restoring" /\ proc.io = <<>> /\ ~Starting
  BY DEF RestorePersisted, Reached, Starting
<1>2. /\ proc.s = x /\ x \in Sessions /\ proc.top \in {"continue", "fork"}
      /\ proc.top = "continue" => mem[x].at = "absent"
      /\ proc.ok => table[x] = NoLease
      /\ Waiting(proc.lease) /\ (LiveLease(proc.lease) => proc.lease.slot /\ ~DiscardPending(proc.lease))
      /\ ~LiveLease(proc.lease) => ~proc.lease.slot
      /\ ~proc.ok => proc.lease.state \notin Intent
      /\ proc.lease \in Lease /\ proc \in CallType /\ mem[x] \in Held /\ SessionOK(mem[x])
      /\ mem = [mem EXCEPT ![x] = mem[x]]
  BY <1>1, Now, LeaseFacts DEF CallOK, WhereOK, HandOK, Intent
<1>3. CountTypes' /\ UNCHANGED <<disk, durable, table, clock, persisted>>
  BY Now DEF RestorePersisted, CountTypes, disk_vars, history_vars
<1>4. CASE ~proc.ok /\ proc' = Idle /\ UNCHANGED mem
  BY <1>1, <1>2, <1>3, <1>4, IdleAway, EndKeeps
<1>5. CASE /\ proc.ok /\ proc.top = "continue" /\ proc' = Idle
           /\ mem' = [mem EXCEPT ![proc.s] = [at |-> "task", lease |-> proc.lease,
                                              last_used |-> persisted[proc.s]]]
  <2> DEFINE h == [at |-> "task", lease |-> proc.lease, last_used |-> persisted[proc.s]]
  <2>1. persisted[proc.s] \in Nat
    BY <1>2, Now DEF CountTypes
  <2>2. h \in Held /\ h.lease = proc.lease /\ SessionOK(h)
    BY <1>2, <2>1, LeaseFacts DEF Held, SessionOK, Waiting
  <2>3. mem' = [mem EXCEPT ![x] = h] /\ mem[x].lease = NoLease
    BY <1>2, <1>5 DEF SessionOK
  <2> HIDE DEF h
  <2> QED
    BY <1>1, <1>2, <1>3, <1>5, <2>2, <2>3, IdleAway, GiveKeeps
<1>6. CASE proc.ok /\ UNCHANGED mem /\ proc' = Call("unloaded", proc.lease, Restore(proc.s, proc.lease))
  <2> DEFINE c == proc'
  <2>1. Restore(proc.s, proc.lease) \in Seq(Step)
    BY <1>2, RestoreFacts
  <2>2. CallFieldsOK(c, "unloaded", proc.lease, Restore(proc.s, proc.lease), TRUE)
    <3>1. "unloaded" \in Pcs
      BY DEF Pcs
    <3> QED
      BY <1>2, <1>6, <2>1, <3>1, CallFacts
  <2> HIDE DEF c
  <2>3. ScriptReady(c)
    BY <1>2, <2>2, RestoreReady DEF CallFieldsOK
  <2>4. CallOK(c, clock') /\ WhereOK(c, mem[x].at) /\ HandOK(c, mem[c.v].lease, table[c.v])
    BY <1>2, <1>3, <1>6, <2>2 DEF CallFieldsOK, CallOK, WhereOK, HandOK
  <2>5. proc' = c
    BY DEF c
  <2> QED
    BY <1>1, <1>2, <1>3, <1>6, <2>2, <2>3, <2>4, <2>5, StayKeeps DEF CallFieldsOK
<1> QED
  BY <1>4, <1>5, <1>6 DEF RestorePersisted

LEMMA CachedFacts ==
  ASSUME CountTypes, NEW s \in Sessions, NEW used \in Nat
  PROVE  Cached(s, used) \in [Sessions -> Nat]
BY DEF Cached, CountTypes

LEMMA PersistedMetadataKeeps ==
  ASSUME SessionInv, PersistedMetadata
  PROVE  SessionInv'
<1> DEFINE x == proc.v
<1>1. proc.pc = "metadata" /\ proc.io = <<>> /\ ~Starting
  BY DEF PersistedMetadata, Reached, Starting
<1>2. /\ proc.s = x /\ x \in Sessions /\ proc.top \in {"continue", "fork"}
      /\ proc.top = "continue" => mem[x].at = "absent"
      /\ proc.ok => table[x] = NoLease
      /\ Waiting(proc.lease) /\ (LiveLease(proc.lease) => proc.lease.slot)
      /\ ~proc.ok => proc.lease = NoLease
      /\ proc.lease \in Lease /\ proc \in CallType /\ mem[x] \in Held /\ SessionOK(mem[x])
      /\ mem = [mem EXCEPT ![x] = mem[x]] /\ CountTypes
  BY <1>1, Now, LeaseFacts DEF CallOK, WhereOK, HandOK
<1>3. UNCHANGED <<disk, durable, clock, failures, crashes, kept, discarded>>
  BY DEF PersistedMetadata, disk_vars, history_vars
<1>4. RetainedOK(proc.lease)
  BY <1>2 DEF RetainedOK, Waiting
<1>5. proc.ok => table' = [table EXCEPT ![x] = proc.lease]
  BY <1>2, <1>4, RetainedFacts DEF PersistedMetadata
<1>6. CASE ~proc.ok /\ proc' = Idle /\ UNCHANGED <<mem, persisted>>
  <2>1. table' = table
    BY <1>2, <1>6 DEF PersistedMetadata, Retained
  <2>2. CountTypes' /\ proc.lease.state \notin Intent
    BY <1>2, <1>3, <1>6, LeaseFacts DEF CountTypes, Intent
  <2> QED
    BY <1>1, <1>2, <1>3, <1>6, <2>1, <2>2, IdleAway, EndKeeps
<1>7. ASSUME NEW used \in Nat, proc.ok, persisted' = Cached(proc.s, used), UNCHANGED mem,
             proc' = Begin("lease", proc.top, "restoring", proc.s, NoLease)
      PROVE  SessionInv'
  <2> DEFINE c == proc'
  <2>1. EnterOK(c, "lease", proc.top, "restoring", x, x, NoLease)
    <3>1. "lease" \in Pcs /\ proc.top \in Tops /\ "restoring" \in Thens
      BY <1>2 DEF Pcs, Tops, Thens
    <3> QED
      BY <1>2, <1>7, <3>1, BeginFacts
  <2> HIDE DEF c
  <2>2. ScriptReady(c)
    BY <2>1, NoScriptReady DEF EnterOK
  <2>3. CallOK(c, clock') /\ WhereOK(c, mem[x].at) /\ HandOK(c, mem[x].lease, proc.lease)
    BY <1>2, <2>1, LeaseFacts DEF EnterOK, CallOK, WhereOK, HandOK
  <2>4. CountTypes'
    BY <1>2, <1>3, <1>7, CachedFacts DEF CountTypes
  <2>5. /\ OneOf(mem[x].lease, mem[x].lease, proc.lease, c.lease) /\ OneOf(table[x], mem[x].lease, proc.lease, c.lease)
        /\ OneOf(proc.lease, mem[x].lease, proc.lease, c.lease)
    BY <1>2, <1>7, LeaseFacts DEF OneOf, Intent
  <2>6. Num(mem[x].lease) + Num(proc.lease) + Num(c.lease) <= Num(mem[x].lease) + Num(table[x]) + Num(proc.lease)
    BY <2>1, LeaseFacts DEF Num, EnterOK
  <2>7. c.v = x /\ c \in CallType /\ c.pc # "leasing" /\ c = proc'
    BY <2>1 DEF EnterOK, c
  <2>8. Turn(x, mem[x], proc.lease, c)
    BY <1>2, <1>4, <2>2, <2>3, <2>5, <2>6, <2>7 DEF Turn
  <2> QED
    BY <1>1, <1>2, <1>3, <1>5, <1>7, <2>3, <2>4, <2>7, <2>8, TurnKeeps
<1>8. CASE /\ proc.ok /\ UNCHANGED persisted /\ proc' = Idle
           /\ mem' = IF proc.top = "continue" THEN [mem EXCEPT ![proc.s].at = "task"] ELSE mem
  <2> DEFINE h == IF proc.top = "continue" THEN [mem[x] EXCEPT !.at = "task"] ELSE mem[x]
  <2>1. h \in Held /\ h.lease = mem[x].lease /\ SessionOK(h)
    BY <1>2, LeaseFacts DEF Held, SessionOK
  <2>2. mem' = [mem EXCEPT ![x] = h]
    BY <1>2, <1>8
  <2>3. CountTypes'
    BY <1>2, <1>3, <1>8 DEF CountTypes
  <2> HIDE DEF h
  <2> QED
    BY <1>1, <1>2, <1>3, <1>4, <1>5, <1>8, <2>1, <2>2, <2>3, IdleAway, RetainKeeps
<1>9. \A path : LastUsed(disk, proc.s, path) \in Nat
  BY DiskFacts, LastUsedFacts, StoreAssumption
<1> QED
  BY <1>6, <1>7, <1>8, <1>9 DEF PersistedMetadata

\* A call begins, and the session keeps its lease.
LEMMA BeginKeeps ==
  ASSUME SessionInv, ~Starting, NEW x \in Sessions, NEW h \in Held, h.lease = mem[x].lease, SessionOK(h),
         NEW c \in CallType, c.v = x, c.lease = NoLease, proc.lease.state \notin Intent,
         CallOK(c, clock'), WhereOK(c, h.at), HandOK(c, h.lease, table[x]), ScriptReady(c),
         c.pc # "leasing",
         CountTypes', mem' = [mem EXCEPT ![x] = h], UNCHANGED table, proc' = c,
         UNCHANGED <<disk, durable>>
  PROVE  SessionInv'
<1>1. RetainedOK(table[x]) /\ table[x] \in Lease /\ table' = [table EXCEPT ![x] = table[x]]
  BY Now
<1>2. /\ OneOf(mem[x].lease, h.lease, table[x], c.lease) /\ OneOf(table[x], h.lease, table[x], c.lease)
      /\ OneOf(proc.lease, h.lease, table[x], c.lease) /\ proc.lease.state \notin Intent
  BY DEF OneOf
<1>3. Num(h.lease) + Num(table[x]) + Num(c.lease) <= Num(mem[x].lease) + Num(table[x]) + Num(proc.lease)
  BY LeaseFacts DEF Num
<1>4. Turn(x, h, table[x], c)
  BY <1>1, <1>2, <1>3 DEF Turn
<1> QED
  BY <1>1, <1>4, TurnKeeps

\* retire() of a lease.
LEMMA RetireReady ==
  ASSUME NEW c \in CallType, c.lease \in Lease, c.io = Retire(c.lease),
         c.pc \in {"retired", "resolvedRetire"}
  PROVE  ScriptReady(c)
<1>1. Legal(disk, c.v, c.lease, c.io)
  BY RetireFacts
<1>2. FinalLease(c.lease, c.io).state \notin Intent
  BY RetireFinal
<1>3. c.lease = NoLease => Leaseless(c.io)
  <2>1. c.lease = NoLease => c.io \in {Refuse, <<>>}
    BY LeaseFacts DEF Retire
  <2> QED
    BY <2>1, RefuseFacts, EmptyFacts
<1>4. c.pc \notin StartPcs /\ EndOK(c) /\ LeasingOK(disk, c)
  BY <1>2 DEF EndOK, LeasingOK
<1> QED
  BY <1>1, <1>3, <1>4 DEF ScriptReady

LEMMA PersistedKeeps ==
  ASSUME SessionInv, Persisted
  PROVE  SessionInv'
<1> DEFINE x == proc.v
           l == mem[x].lease
           h == [mem[x] EXCEPT !.lease = NoLease]
<1>1. proc.pc = "persisted" /\ proc.io = <<>> /\ ~Starting
  BY DEF Persisted, Reached, Starting
<1>2. /\ proc.s = x /\ x \in Sessions /\ mem[x].at = "task" /\ clock < MaxClock
      /\ proc.lease.state \notin Intent /\ proc \in CallType
      /\ mem \in [Sessions -> Held] /\ mem[x] \in Held /\ l \in Lease /\ SessionOK(mem[x]) /\ CountTypes
  BY <1>1, Now, LeaseFacts DEF CallOK, WhereOK, HandOK, Intent
<1>3. /\ Waiting(l) /\ ~DiscardPending(l) /\ (LiveLease(l) => l.slot \/ l.discard)
      /\ ~LiveLease(l) => ~l.slot
  BY <1>2, LeaseFacts DEF SessionOK, Waiting
<1>4. h \in Held /\ h.lease = NoLease /\ SessionOK(h) /\ h.at = "task" /\ mem' = [mem EXCEPT ![x] = h]
  BY <1>2, LeaseFacts DEF Held, SessionOK, Persisted, TakeLease
<1>5. UNCHANGED <<disk, durable, table, clock, failures, crashes, kept, discarded>>
  BY DEF Persisted, disk_vars, history_vars
<1>6. CountTypes'
  <2>1. persisted' = Cached(proc.s, mem[proc.s].last_used) \/ persisted' = [persisted EXCEPT ![proc.s] = 0]
    BY DEF Persisted
  <2>2. mem[proc.s].last_used \in Nat
    BY <1>2 DEF Held
  <2>3. persisted' \in [Sessions -> Nat]
    <3>1. Cached(proc.s, mem[proc.s].last_used) \in [Sessions -> Nat]
      BY <1>2, <2>2, CachedFacts
    <3> QED
      BY <1>2, <2>1, <3>1 DEF CountTypes
  <2> QED
    BY <1>2, <1>5, <2>3 DEF CountTypes
<1> HIDE DEF h, l
<1> DEFINE c == proc'
<1>7. CASE proc.ok
  <2>1. Retire(l) \in Seq(Step) /\ "retired" \in Pcs
    BY <1>2, RetireFacts DEF Pcs
  <2>2. CallFieldsOK(c, "retired", l, Retire(l), TRUE)
    <3>1. c = Call("retired", l, Retire(l))
      BY <1>2, <1>7 DEF Persisted, l
    <3> QED
      BY <1>2, <2>1, <3>1, CallFacts
  <2>3. proc' = c
    OBVIOUS
  <2> HIDE DEF c
  <2>4. ScriptReady(c)
    BY <1>2, <2>2, RetireReady DEF CallFieldsOK
  <2>5. CallOK(c, clock') /\ WhereOK(c, h.at) /\ HandOK(c, NoLease, table[x])
    BY <1>2, <1>3, <1>4, <2>2 DEF CallFieldsOK, CallOK, WhereOK, HandOK
  <2>6. c.v = x /\ c.lease = mem[x].lease /\ c.pc # "leasing" /\ c \in CallType
    BY <2>2 DEF CallFieldsOK, l
  <2> QED
    BY <1>1, <1>2, <1>4, <1>5, <1>6, <2>3, <2>4, <2>5, <2>6, TakeKeeps
<1>8. CASE ~proc.ok
  <2>1. Restore(proc.s, l) \in Seq(Step) /\ "retained" \in Pcs /\ "retain" \in Tops
    BY <1>2, RestoreFacts DEF Pcs, Tops
  <2> DEFINE b == Call("retained", l, Restore(proc.s, l))
  <2>2. CallFieldsOK(b, "retained", l, Restore(proc.s, l), TRUE)
    BY <1>2, <2>1, CallFacts
  <2>3. c = [b EXCEPT !.top = "retain"]
    BY <1>2, <1>8 DEF Persisted, l
  <2> HIDE DEF b
  <2>4. /\ c \in CallType /\ c.pc = "retained" /\ c.lease = l /\ c.io = Restore(proc.s, l) /\ c.ok
        /\ c.s = proc.s /\ c.v = proc.v /\ c.top = "retain" /\ c.then = proc.then
    BY <2>1, <2>2, <2>3 DEF CallFieldsOK, CallType
  <2>5. proc' = c
    OBVIOUS
  <2> HIDE DEF c
  <2>6. ScriptReady(c)
    BY <1>2, <2>4, RestoreReady
  <2>7. CallOK(c, clock') /\ WhereOK(c, h.at) /\ HandOK(c, NoLease, table[x])
    BY <1>2, <1>3, <1>4, <1>5, <2>4 DEF CallOK, WhereOK, HandOK
  <2>8. c.lease = mem[x].lease /\ c.pc # "leasing"
    BY <2>4 DEF l
  <2> QED
    BY <1>1, <1>2, <1>4, <1>5, <1>6, <2>4, <2>5, <2>6, <2>7, <2>8, TakeKeeps
<1> QED
  BY <1>7, <1>8

LEMMA ProceedFacts ==
  ASSUME SessionInv, NEW pc \in Pcs, NEW then \in Thens, NEW v \in Sessions, NEW l \in Lease
  PROVE  EnterOK(Proceed(pc, then, v, l), pc, proc.top, then, proc.s, v, l)
BY EnterFacts, Now DEF Proceed

\* insert_session goes on.
LEMMA FitAway ==
  ASSUME SessionInv
  PROVE  LET c == Proceed("fit", "none", proc.s, NoLease)
         IN  c \in CallType /\ Away(c) /\ c.io = <<>> /\ c.v = c.s
<1>1. "fit" \in Pcs /\ "none" \in Thens
  BY DEF Pcs, Thens
<1> QED
  BY <1>1, Now, LeaseFacts, ProceedFacts DEF EnterOK, Away

LEMMA RetiredKeeps ==
  ASSUME SessionInv, Retired
  PROVE  SessionInv'
<1> DEFINE x == proc.v
<1>1. proc.pc = "retired" /\ proc.io = <<>> /\ ~Starting
  BY DEF Retired, Reached, Starting
<1>2. /\ proc.s = x /\ x \in Sessions /\ mem[x].at = "task" /\ mem[x].lease = NoLease
      /\ proc.ok => proc.lease.state \notin Intent
      /\ ~proc.ok => Waiting(proc.lease)
      /\ LiveLease(proc.lease) => (proc.lease.slot \/ proc.lease.discard) /\ ~DiscardPending(proc.lease)
      /\ proc.lease \in Lease /\ mem \in [Sessions -> Held] /\ mem[x] \in Held /\ table \in [Sessions -> Lease]
  BY <1>1, Now DEF CallOK, WhereOK, HandOK, EndOK, FinalLease
<1>3. UNCHANGED <<disk, durable>> /\ CountTypes'
  BY Now DEF Retired, CountTypes, disk_vars, history_vars
<1>4. CASE proc.ok
  <2> DEFINE h == [mem[x] EXCEPT !.at = "resident"]
  <2>1. h \in Held /\ h.lease = mem[x].lease /\ SessionOK(h)
    BY <1>2, LeaseFacts DEF Held, SessionOK
  <2>2. mem' = [mem EXCEPT ![x] = h] /\ proc' = Proceed("fit", "none", proc.s, NoLease) /\ UNCHANGED table
    BY <1>2, <1>4 DEF Retired
  <2> HIDE DEF h
  <2>3. PICK c \in CallType : c = proc' /\ Away(c) /\ c.io = <<>> /\ c.v = c.s
    BY <2>2, FitAway
  <2> QED
    BY <1>1, <1>2, <1>3, <1>4, <2>1, <2>2, <2>3, EndKeeps
<1>5. CASE ~proc.ok
  <2>1. /\ table' = Retained(x, proc.lease) /\ proc' = Idle
        /\ mem' = [mem EXCEPT ![x].at = "resident",
                              ![x].lease = IF CanRetain(x) THEN NoLease ELSE proc.lease]
    BY <1>2, <1>5 DEF Retired
  <2>2. RetainedOK(proc.lease)
    BY <1>2, <1>5 DEF RetainedOK, Waiting, DiscardPending
  <2>3. CASE CanRetain(x)
    <3> DEFINE h == [mem[x] EXCEPT !.at = "resident", !.lease = NoLease]
    <3>1. h \in Held /\ h.lease = mem[x].lease /\ SessionOK(h)
      BY <1>2, LeaseFacts DEF Held, SessionOK
    <3>2. mem' = [mem EXCEPT ![x] = h]
      BY <1>2, <2>1, <2>3
    <3>3. table[x] = NoLease
      BY <2>3 DEF CanRetain
    <3>4. table' = [table EXCEPT ![x] = proc.lease]
      BY <2>1, <2>2, <3>3, RetainedFacts
    <3> HIDE DEF h
    <3> QED
      BY <1>1, <1>2, <1>3, <2>1, <2>2, <3>1, <3>2, <3>3, <3>4, IdleAway, RetainKeeps
  <2>4. CASE ~CanRetain(x)
    <3> DEFINE h == [mem[x] EXCEPT !.at = "resident", !.lease = proc.lease]
    <3>1. h \in Held /\ h.lease = proc.lease /\ h.at = "resident"
      BY <1>2 DEF Held
    <3>2. mem' = [mem EXCEPT ![x] = h] /\ UNCHANGED table
      BY <1>2, <2>1, <2>4 DEF Retained
    <3> HIDE DEF h
    <3>3. SessionOK(h)
      BY <2>2, <3>1 DEF SessionOK, RetainedOK
    <3> QED
      BY <1>1, <1>2, <1>3, <2>1, <3>1, <3>2, <3>3, IdleAway, GiveKeeps
  <2> QED
    BY <2>3, <2>4
<1> QED
  BY <1>4, <1>5

LEMMA RetainedSessionKeeps ==
  ASSUME SessionInv, RetainedSession
  PROVE  SessionInv'
<1> DEFINE x == proc.v
<1>1. proc.pc = "retained" /\ proc.io = <<>> /\ ~Starting
  BY DEF RetainedSession, Reached, Starting
<1>2. /\ proc.s = x /\ x \in Sessions /\ mem[x].at = "task" /\ mem[x].lease = NoLease
      /\ proc.ok => proc.lease.state \notin Intent
      /\ ~proc.ok => Waiting(proc.lease)
      /\ LiveLease(proc.lease) => proc.lease.slot \/ proc.lease.discard
      /\ clock < MaxClock /\ CountTypes
      /\ proc.lease \in Lease /\ mem \in [Sessions -> Held] /\ mem[x] \in Held
  BY <1>1, Now DEF CallOK, WhereOK, HandOK, EndOK, FinalLease
<1>3. UNCHANGED <<disk, durable, table>>
  BY DEF RetainedSession, disk_vars
<1>4. CountTypes'
  <2>1. clock' = clock \/ clock' = clock + 1
    BY DEF RetainedSession
  <2>2. clock' \in 0 .. MaxClock
    BY <1>2, <2>1, StoreAssumption DEF CountTypes
  <2> QED
    BY <1>2, <2>2 DEF RetainedSession, CountTypes, disk_vars, history_vars
<1>5. CASE ~proc.ok
  <2> DEFINE h == [mem[x] EXCEPT !.at = "resident", !.lease = proc.lease]
  <2>1. h \in Held /\ h.lease = proc.lease /\ h.at = "resident"
    BY <1>2 DEF Held
  <2>2. mem' = [mem EXCEPT ![x] = h] /\ proc' = Idle
    BY <1>2, <1>5 DEF RetainedSession
  <2> HIDE DEF h
  <2>3. SessionOK(h)
    BY <1>2, <1>5, <2>1 DEF SessionOK, Waiting
  <2> QED
    BY <1>1, <1>2, <1>3, <1>4, <2>1, <2>2, <2>3, IdleAway, GiveKeeps
<1>6. CASE proc.ok
  <2> DEFINE h == [mem[x] EXCEPT !.at = "resident", !.last_used = clock + 1]
  <2>1. h \in Held /\ h.lease = mem[x].lease /\ h.at = "resident"
    <3>1. clock + 1 \in Nat
      BY <1>2, StoreAssumption DEF CountTypes
    <3> QED
      BY <1>2, <3>1 DEF Held
  <2>2. mem' = [mem EXCEPT ![x] = h] /\ proc' = Proceed("fit", "none", proc.s, NoLease)
    BY <1>2, <1>6 DEF RetainedSession
  <2> HIDE DEF h
  <2>3. SessionOK(h)
    BY <1>2, <2>1, LeaseFacts DEF SessionOK
  <2>4. PICK c \in CallType : c = proc' /\ Away(c) /\ c.io = <<>> /\ c.v = c.s
    BY <2>2, FitAway
  <2> QED
    BY <1>1, <1>2, <1>3, <1>4, <1>6, <2>1, <2>2, <2>3, <2>4, EndKeeps
<1> QED
  BY <1>5, <1>6

LEMMA IdleNow ==
  ASSUME SessionInv, proc.pc = "idle"
  PROVE  ~Starting /\ proc.lease.state \notin Intent
BY Now, LeaseFacts DEF Starting, HandOK, Intent

\* The lease of a session, and the session without it.
LEMMA TakenFacts ==
  ASSUME SessionInv, NEW x \in Sessions
  PROVE  LET l == mem[x].lease
             h == [mem[x] EXCEPT !.lease = NoLease]
         IN  /\ l \in Lease /\ Waiting(l) /\ (LiveLease(l) => l.slot \/ l.discard)
             /\ ~LiveLease(l) => ~l.slot /\ ~DiscardPending(l)
             /\ mem[x].at = "task" => ~DiscardPending(l)
             /\ h \in Held /\ h.lease = NoLease /\ h.at = mem[x].at /\ SessionOK(h)
             /\ TakeLease(x) = [mem EXCEPT ![x] = h]
<1>1. mem \in [Sessions -> Held] /\ mem[x] \in Held /\ mem[x].lease \in Lease /\ SessionOK(mem[x])
  BY Now
<1>2. LET h == [mem[x] EXCEPT !.lease = NoLease]
      IN  h \in Held /\ h.lease = NoLease /\ h.at = mem[x].at /\ SessionOK(h) /\ TakeLease(x) = [mem EXCEPT ![x] = h]
  BY <1>1, LeaseFacts DEF Held, SessionOK, TakeLease
<1> QED
  BY <1>1, <1>2, LeaseFacts DEF SessionOK, Waiting

\* discard_session_with_reference begins with the lease of the session.
LEMMA DiscardBegins ==
  ASSUME SessionInv, ~Starting, NEW x \in Sessions, NEW top \in Tops, NEW then \in DiscardThens,
         NEW s \in Sessions, s = x \/ then = "fitDiscarded",
         then = "cancelled" => mem[x].at = "task",
         proc.lease.state \notin Intent, mem' = TakeLease(x),
         proc' = Enter("discard", top, then, s, x, mem[x].lease),
         CountTypes', UNCHANGED <<disk, durable, table>>
  PROVE  SessionInv'
<1> DEFINE l == mem[x].lease
           h == [mem[x] EXCEPT !.lease = NoLease]
           c == proc'
<1>1. /\ l \in Lease /\ Waiting(l) /\ (LiveLease(l) => l.slot \/ l.discard) /\ (~LiveLease(l) => ~l.slot)
      /\ h \in Held /\ h.lease = NoLease /\ h.at = mem[x].at /\ SessionOK(h)
      /\ mem' = [mem EXCEPT ![x] = h]
  BY TakenFacts
<1>2. EnterOK(c, "discard", top, then, s, x, l)
  <2>1. "discard" \in Pcs /\ then \in Thens
    BY DEF Pcs, Thens
  <2> QED
    BY <1>1, <2>1, EnterFacts
<1>3. proc' = c
  OBVIOUS
<1> HIDE DEF h, c
<1>4. ScriptReady(c)
  BY <1>2, NoScriptReady DEF EnterOK
<1>5. CallOK(c, clock') /\ WhereOK(c, h.at) /\ HandOK(c, NoLease, table[x])
  BY <1>1, <1>2 DEF EnterOK, CallOK, WhereOK, HandOK
<1>6. c \in CallType /\ c.v = x /\ c.lease = mem[x].lease /\ c.pc # "leasing"
  BY <1>2 DEF EnterOK
<1> QED
  BY <1>1, <1>3, <1>4, <1>5, <1>6, TakeKeeps

LEMMA TaskDiscardedKeeps ==
  ASSUME SessionInv, TaskDiscarded
  PROVE  SessionInv'
<1> DEFINE x == proc.v
<1>1. proc.pc \in {"cancelled", "ended"} /\ ~Starting
  BY DEF TaskDiscarded, Reached, Starting
<1>2. /\ proc.s = x /\ x \in Sessions /\ proc.lease.state \notin Intent
      /\ proc.pc = "cancelled" => mem[x].lease = NoLease
      /\ mem[x] \in Held /\ SessionOK(mem[x]) /\ mem \in [Sessions -> Held]
  BY <1>1, Now, LeaseFacts DEF CallOK, HandOK, Intent
<1>3. CountTypes' /\ UNCHANGED <<disk, durable, table, mem>>
  BY Now DEF TaskDiscarded, CountTypes, disk_vars, history_vars
<1>4. CASE proc' = Idle
  <2>1. mem' = [mem EXCEPT ![x] = mem[x]]
    BY <1>2, <1>3
  <2> QED
    BY <1>1, <1>2, <1>3, <1>4, <2>1, IdleAway, EndKeeps
<1>5. CASE proc.pc = "cancelled" /\ proc' = Begin("discard", "ended", "ended", proc.s, NoLease)
  <2>1. [mem[x] EXCEPT !.lease = NoLease] = mem[x]
    BY <1>2, <1>5 DEF Held
  <2>2. mem' = TakeLease(x)
    BY <1>2, <1>3, <2>1, TakenFacts
  <2>3. /\ "ended" \in Tops /\ "ended" \in DiscardThens
        /\ proc' = Enter("discard", "ended", "ended", x, x, mem[x].lease)
    BY <1>2, <1>3, <1>5 DEF Begin, Tops
  <2> QED
    BY <1>1, <1>2, <1>3, <2>2, <2>3, DiscardBegins
<1> QED
  BY <1>4, <1>5 DEF TaskDiscarded, Reached

LEMMA RespondKeeps ==
  ASSUME SessionInv, Respond
  PROVE  SessionInv'
<1> DEFINE x == proc.v
<1>1. proc.pc = "respond" /\ ~Starting
  BY DEF Respond, Reached, Starting
<1>2. /\ proc.s = x /\ x \in Sessions /\ proc.lease.state \notin Intent
      /\ mem[x] \in Held /\ SessionOK(mem[x]) /\ mem \in [Sessions -> Held] /\ CountTypes
  BY <1>1, Now, LeaseFacts DEF CallOK, HandOK, Intent
<1>3. UNCHANGED <<disk, durable, table>> /\ CountTypes'
  <2>1. kept' = kept \/ kept' = [kept EXCEPT ![proc.s] = clock]
    BY DEF Respond
  <2>2. clock \in Nat
    BY <1>2, StoreAssumption DEF CountTypes
  <2>3. kept' \in [Sessions -> Nat]
    BY <1>2, <2>1, <2>2 DEF CountTypes
  <2> QED
    BY <1>2, <2>3 DEF Respond, CountTypes, disk_vars
<1>4. CASE proc' = Idle /\ UNCHANGED mem
  <2>1. mem' = [mem EXCEPT ![x] = mem[x]]
    BY <1>2, <1>4
  <2> QED
    BY <1>1, <1>2, <1>3, <1>4, <2>1, IdleAway, EndKeeps
<1>5. CASE mem' = TakeLease(proc.s) /\ proc' = Begin("discard", "ended", "ended", proc.s, mem[proc.s].lease)
  <2>1. /\ mem' = TakeLease(x) /\ "ended" \in Tops /\ "ended" \in DiscardThens
        /\ proc' = Enter("discard", "ended", "ended", x, x, mem[x].lease)
    BY <1>2, <1>5 DEF Begin, Tops
  <2> QED
    BY <1>1, <1>2, <1>3, <2>1, DiscardBegins
<1> QED
  BY <1>4, <1>5 DEF Respond

LEMMA DiscardStoredSessionKeeps ==
  ASSUME SessionInv, NEW s \in Sessions, NEW why \in {"cancelled", "ended"}, DiscardStoredSession(s, why)
  PROVE  SessionInv'
<1>1. proc.pc = "idle" /\ mem[s].at = "task" /\ mem' = TakeLease(s)
  BY DEF DiscardStoredSession
<1>2. proc' = Enter("discard", why, why, s, s, mem[s].lease) /\ why \in Tops /\ why \in DiscardThens
  BY DEF DiscardStoredSession, Begin, Tops
<1>3. CountTypes' /\ UNCHANGED <<disk, durable, table>>
  BY Now DEF DiscardStoredSession, CountTypes, disk_vars, history_vars
<1> QED
  BY <1>1, <1>2, <1>3, IdleNow, DiscardBegins

LEMMA RetainFailedSessionKeeps ==
  ASSUME SessionInv, NEW s \in Sessions, RetainFailedSession(s)
  PROVE  SessionInv'
<1> DEFINE l == mem[s].lease
           h == [mem[s] EXCEPT !.lease = NoLease]
           b == Begin("retained", "retain", "none", s, l)
           c == proc'
<1>1. /\ proc.pc = "idle" /\ mem[s].at = "task" /\ clock < MaxClock /\ mem' = TakeLease(s)
      /\ c = [b EXCEPT !.io = Restore(s, l)]
  BY DEF RetainFailedSession
<1>2. /\ l \in Lease /\ Waiting(l) /\ (LiveLease(l) => l.slot \/ l.discard) /\ (~LiveLease(l) => ~l.slot)
      /\ ~DiscardPending(l)
      /\ h \in Held /\ h.lease = NoLease /\ h.at = "task" /\ SessionOK(h)
      /\ mem' = [mem EXCEPT ![s] = h]
  BY <1>1, TakenFacts
<1>3. UNCHANGED <<disk, durable, table, clock>> /\ CountTypes'
  <2>1. persisted' \in [Sessions -> Nat]
    BY Now DEF RetainFailedSession, CountTypes
  <2> QED
    BY <2>1, Now DEF RetainFailedSession, CountTypes, disk_vars, history_vars
<1>4. EnterOK(b, "retained", "retain", "none", s, s, l)
  <2>1. "retained" \in Pcs /\ "retain" \in Tops /\ "none" \in Thens
    BY DEF Pcs, Tops, Thens
  <2> QED
    BY <1>2, <2>1, EnterFacts DEF Begin
<1>5. Restore(s, l) \in Seq(Step)
  BY <1>2, RestoreFacts
<1>6. proc' = c
  OBVIOUS
<1> HIDE DEF b, h
<1>7. /\ c \in CallType /\ c.pc = "retained" /\ c.lease = l /\ c.io = Restore(s, l) /\ c.ok
      /\ c.s = s /\ c.v = s /\ c.top = "retain" /\ c.then = "none"
  BY <1>1, <1>4, <1>5 DEF EnterOK, CallType
<1> HIDE DEF c
<1>8. ScriptReady(c)
  BY <1>2, <1>7, RestoreReady
<1>9. CallOK(c, clock') /\ WhereOK(c, h.at) /\ HandOK(c, NoLease, table[s])
  BY <1>1, <1>2, <1>3, <1>7 DEF CallOK, WhereOK, HandOK
<1>10. c.lease = mem[s].lease /\ c.pc # "leasing"
  BY <1>7
<1> QED
  BY <1>1, <1>2, <1>3, <1>6, <1>7, <1>8, <1>9, <1>10, IdleNow, TakeKeeps

LEMMA PersistChatSessionKeeps ==
  ASSUME SessionInv, NEW s \in Sessions, PersistChatSession(s)
  PROVE  SessionInv'
<1> DEFINE h == [mem[s] EXCEPT !.last_used = clock + 1]
           b == Begin("persisted", "finish", "none", s, NoLease)
           c == proc'
<1>1. /\ proc.pc = "idle" /\ mem[s].at = "task" /\ clock + 1 < MaxClock /\ clock' = clock + 1
      /\ mem' = [mem EXCEPT ![s].last_used = clock + 1] /\ c = [b EXCEPT !.io = Persist(clock + 1)]
  BY DEF PersistChatSession
<1>2. clock + 1 \in 0 .. MaxClock /\ clock + 1 \in Nat
  BY <1>1, Now, StoreAssumption DEF CountTypes
<1>3. h \in Held /\ h.lease = mem[s].lease /\ h.at = "task" /\ SessionOK(h) /\ mem' = [mem EXCEPT ![s] = h]
  <2>1. mem \in [Sessions -> Held] /\ mem[s] \in Held /\ SessionOK(mem[s])
    BY Now
  <2> QED
    BY <1>1, <1>2, <2>1 DEF Held, SessionOK
<1>4. UNCHANGED <<disk, durable, table>> /\ CountTypes'
  BY <1>1, <1>2, Now DEF PersistChatSession, CountTypes, disk_vars
<1>5. EnterOK(b, "persisted", "finish", "none", s, s, NoLease)
  <2>1. "persisted" \in Pcs /\ "finish" \in Tops /\ "none" \in Thens
    BY DEF Pcs, Tops, Thens
  <2> QED
    BY <2>1, BeginFacts
<1>6. /\ Persist(clock + 1) \in Seq(Step) /\ Legal(disk, s, NoLease, Persist(clock + 1))
      /\ Leaseless(Persist(clock + 1))
  BY <1>2, PersistFacts
<1>7. proc' = c
  OBVIOUS
<1> HIDE DEF b, h
<1>8. /\ c \in CallType /\ c.pc = "persisted" /\ c.lease = NoLease /\ c.io = Persist(clock + 1) /\ c.ok
      /\ c.s = s /\ c.v = s /\ c.top = "finish" /\ c.then = "none"
  BY <1>1, <1>5, <1>6 DEF EnterOK, CallType
<1> HIDE DEF c
<1>9. ScriptReady(c)
  BY <1>6, <1>8 DEF ScriptReady, EndOK, LeasingOK
<1>10. CallOK(c, clock') /\ WhereOK(c, h.at) /\ HandOK(c, h.lease, table[s])
  BY <1>1, <1>3, <1>8, LeaseFacts DEF CallOK, WhereOK, HandOK
<1>11. c.pc # "leasing"
  BY <1>8
<1> QED
  BY <1>1, <1>3, <1>4, <1>7, <1>8, <1>9, <1>10, <1>11, IdleNow, BeginKeeps

-----------------------------------------------------------------------------
(* Calls of the server that take a session *)

\* A call begins with the lease of its session.
LEMMA EnterKeeps ==
  ASSUME SessionInv, ~Starting, NEW x \in Sessions, NEW pc \in {"lease"} \cup LeaseThens, NEW top \in Tops,
         NEW then \in Thens, NEW s \in Sessions, NEW c, c = Enter(pc, top, then, s, x, mem[x].lease),
         proc.lease.state \notin Intent, mem' = TakeLease(x), proc' = c,
         CallOK(c, clock'), WhereOK(c, mem[x].at), HandOK(c, NoLease, table[x]),
         CountTypes', UNCHANGED <<disk, durable, table>>
  PROVE  SessionInv'
<1> DEFINE l == mem[x].lease
           h == [mem[x] EXCEPT !.lease = NoLease]
<1>1. /\ l \in Lease /\ h \in Held /\ h.lease = NoLease /\ h.at = mem[x].at /\ SessionOK(h)
      /\ mem' = [mem EXCEPT ![x] = h]
  BY TakenFacts
<1>2. EnterOK(c, pc, top, then, s, x, l)
  <2>1. pc \in Pcs
    BY DEF Pcs
  <2> QED
    BY <1>1, <2>1, EnterFacts
<1> HIDE DEF h
<1>3. c \in CallType /\ c.v = x /\ c.lease = mem[x].lease /\ c.pc # "leasing" /\ ScriptReady(c)
  BY <1>2, NoScriptReady DEF EnterOK
<1> QED
  BY <1>1, <1>3, TakeKeeps

LEMMA LeaseContinueSessionKeeps ==
  ASSUME SessionInv, NEW s \in Sessions, LeaseContinueSession(s)
  PROVE  SessionInv'
<1> DEFINE l == mem[s].lease
<1>1. proc.pc = "idle" /\ mem[s].at # "task" /\ mem' = TakeLease(s)
  BY DEF LeaseContinueSession
<1>2. /\ l \in Lease /\ Waiting(l) /\ (LiveLease(l) => l.slot \/ l.discard) /\ (~LiveLease(l) => ~l.slot)
      /\ (mem[s].at = "absent" => l = NoLease) /\ mem[s].at \in {"absent", "task", "resident", "hibernated"}
  <2>1. mem[s] \in Held /\ SessionOK(mem[s])
    BY Now
  <2> QED
    BY <2>1, TakenFacts DEF Held, SessionOK
<1>3. CountTypes' /\ UNCHANGED <<disk, durable, table, clock>>
  BY Now DEF LeaseContinueSession, CountTypes, disk_vars, history_vars
<1>4. CASE DiscardPending(l) /\ proc' = Begin("discard", "continue", "cold", s, l)
  <2>1. proc' = Enter("discard", "continue", "cold", s, s, l) /\ "continue" \in Tops /\ "cold" \in DiscardThens
    BY <1>4 DEF Begin, Tops
  <2> QED
    BY <1>1, <1>3, <2>1, IdleNow, DiscardBegins
<1>5. ASSUME NEW pc \in {"lease", "attach", "wake"},
             NEW then \in {"none", "attach", "wake", "restoring", "metadata"},
             proc' = Begin(pc, "continue", then, s, l),
             pc = "attach" => then = "none" /\ mem[s].at = "resident" /\ ~DiscardPending(l),
             pc = "wake" => then = "none" /\ mem[s].at = "hibernated" /\ ~DiscardPending(l),
             pc = "lease" => l = NoLease /\ then # "none",
             then = "attach" => mem[s].at = "resident",
             then = "wake" => mem[s].at = "hibernated",
             then \in {"restoring", "metadata"} => mem[s].at = "absent"
      PROVE  SessionInv'
  <2>1. PICK c : c = proc'
    OBVIOUS
  <2>2. c = Enter(pc, "continue", then, s, s, l) /\ "continue" \in Tops /\ then \in Thens /\ pc \in {"lease"} \cup LeaseThens
    BY <1>5, <2>1 DEF Begin, Tops, Thens
  <2>3. EnterOK(c, pc, "continue", then, s, s, l)
    <3>1. pc \in Pcs
      BY DEF Pcs
    <3> QED
      BY <1>2, <2>2, <3>1, EnterFacts
  <2>4. CallOK(c, clock') /\ WhereOK(c, mem[s].at)
    BY <1>5, <2>3 DEF EnterOK, CallOK, WhereOK
  <2>5. HandOK(c, NoLease, table[s])
    BY <1>2, <1>5, <2>3, LeaseFacts DEF EnterOK, HandOK
  <2> HIDE DEF l
  <2> QED
    BY <1>1, <1>3, <2>1, <2>2, <2>4, <2>5, IdleNow, EnterKeeps DEF l
<1>6. CASE ~DiscardPending(l) /\ mem[s].at = "resident"
  <2>1. \/ proc' = Begin("attach", "continue", "none", s, l)
        \/ l = NoLease /\ proc' = Begin("lease", "continue", "attach", s, l)
    BY <1>6 DEF LeaseContinueSession
  <2> QED
    BY <1>5, <1>6, <2>1
<1>7. CASE ~DiscardPending(l) /\ mem[s].at = "hibernated"
  <2>1. \/ proc' = Begin("wake", "continue", "none", s, l)
        \/ l = NoLease /\ proc' = Begin("lease", "continue", "wake", s, l)
    BY <1>7 DEF LeaseContinueSession
  <2> QED
    BY <1>5, <1>7, <2>1
<1>8. CASE mem[s].at = "absent"
  <2>1. l = NoLease /\ ~DiscardPending(l)
    BY <1>2, <1>8, LeaseFacts
  <2>2. \/ proc' = Begin("lease", "continue", "restoring", s, l)
        \/ proc' = Begin("lease", "continue", "metadata", s, l)
    BY <1>8, <2>1 DEF LeaseContinueSession
  <2> QED
    BY <1>5, <1>8, <2>1, <2>2
<1>9. DiscardPending(l) => proc' = Begin("discard", "continue", "cold", s, l)
  BY <1>2, <1>8, LeaseFacts DEF LeaseContinueSession
<1> QED
  BY <1>1, <1>2, <1>4, <1>6, <1>7, <1>8, <1>9

LEMMA LeaseForkSessionKeeps ==
  ASSUME SessionInv, NEW s \in Sessions, LeaseForkSession(s)
  PROVE  SessionInv'
<1> DEFINE l == mem[s].lease
<1>1. /\ proc.pc = "idle" /\ mem[s].at # "resident" /\ ~DiscardPending(l)
      /\ mem[s].at = "hibernated" => clock < MaxClock
  BY DEF LeaseForkSession
<1>2. /\ l \in Lease /\ Waiting(l) /\ (LiveLease(l) => l.slot \/ l.discard) /\ (~LiveLease(l) => ~l.slot)
  BY TakenFacts
<1>3. CountTypes' /\ UNCHANGED <<disk, durable, table, clock>>
  BY Now DEF LeaseForkSession, CountTypes, disk_vars, history_vars
<1>4. PICK c : c = proc'
  OBVIOUS
<1>5. "fork" \in Tops /\ "lease" \in Pcs /\ "wake" \in Pcs /\ {"none", "wake", "restoring", "metadata"} \subseteq Thens
  BY DEF Tops, Pcs, Thens
<1>6. CASE mem[s].at = "hibernated"
  <2>1. /\ mem' = TakeLease(s)
        /\ \/ c = Begin("wake", "fork", "none", s, l)
           \/ l = NoLease /\ c = Begin("lease", "fork", "wake", s, l)
    BY <1>4, <1>6 DEF LeaseForkSession
  <2>2. ASSUME NEW pc \in {"lease", "wake"}, NEW then \in {"none", "wake"}, c = Begin(pc, "fork", then, s, l),
               pc = "lease" => then = "wake" /\ l = NoLease
        PROVE  SessionInv'
    <3>1. c = Enter(pc, "fork", then, s, s, l) /\ then \in Thens /\ pc \in Pcs /\ pc \in {"lease"} \cup LeaseThens
      BY <1>5, <2>2 DEF Begin
    <3>2. EnterOK(c, pc, "fork", then, s, s, l)
      BY <1>2, <1>5, <3>1, EnterFacts
    <3>3. CallOK(c, clock') /\ WhereOK(c, mem[s].at)
      BY <1>1, <1>3, <1>6, <2>2, <3>2 DEF EnterOK, CallOK, WhereOK
    <3>4. HandOK(c, NoLease, table[s])
      BY <1>1, <1>2, <2>2, <3>2, LeaseFacts DEF EnterOK, HandOK
    <3> HIDE DEF l
    <3> QED
      BY <1>1, <1>3, <1>4, <1>5, <2>1, <3>1, <3>3, <3>4, IdleNow, EnterKeeps DEF l
  <2> QED
    BY <2>1, <2>2
<1>7. CASE mem[s].at # "hibernated"
  <2>1. PICK then \in {"restoring", "metadata"} : c = Begin("lease", "fork", then, s, NoLease)
    BY <1>4, <1>7 DEF LeaseForkSession
  <2>2. EnterOK(c, "lease", "fork", then, s, s, NoLease)
    BY <1>5, <2>1, BeginFacts
  <2>3. c \in CallType /\ c.v = s /\ c.lease = NoLease /\ c.pc # "leasing" /\ ScriptReady(c)
    BY <2>2, NoScriptReady DEF EnterOK
  <2>4. CallOK(c, clock') /\ WhereOK(c, mem[s].at) /\ HandOK(c, mem[s].lease, table[s])
    BY <2>1, <2>2, LeaseFacts DEF EnterOK, CallOK, WhereOK, HandOK
  <2>5. mem' = [mem EXCEPT ![s] = mem[s]] /\ mem[s] \in Held /\ SessionOK(mem[s])
    BY <1>7, Now DEF LeaseForkSession
  <2> QED
    BY <1>1, <1>3, <1>4, <2>3, <2>4, <2>5, IdleNow, BeginKeeps
<1> QED
  BY <1>6, <1>7

-----------------------------------------------------------------------------
(* insert_session *)

\* A set of natural numbers has a least element.
LEMMA LeastNat ==
  ASSUME NEW S, S \subseteq Nat, S # {}
  PROVE  \E m \in S : \A k \in S : m <= k
<1> DEFINE R == OpToRel(<, Nat)
<1>1. IsWellFoundedOn(R, Nat)
  BY NatLessThanWellFounded, Zenon
<1>2. \A a, b \in Nat : b < a => <<b, a>> \in R
  BY Zenon DEF OpToRel
<1> HIDE DEF R
<1>3. PICK m \in S : \A k \in S : ~(<<k, m>> \in R)
  BY <1>1, WFMin, Zenon
<1>4. \A k \in S : ~(k < m)
  BY <1>2, <1>3
<1> QED
  BY <1>4

\* The session that was used least recently.
LEMMA OldestFacts ==
  ASSUME SessionInv, NEW S, S \subseteq Sessions, S # {}
  PROVE  Oldest(S) \in S
<1> DEFINE U == {mem[s].last_used : s \in S}
<1>1. U \subseteq Nat /\ U # {}
  BY Now DEF Held
<1>2. PICK m \in U : \A k \in U : m <= k
  BY <1>1, LeastNat
<1>3. PICK s \in S : mem[s].last_used = m
  BY <1>2
<1>4. \A r \in S : mem[s].last_used <= mem[r].last_used
  BY <1>2, <1>3
<1> QED
  BY <1>4 DEF Oldest

LEMMA InsertEndsAway ==
  ASSUME SessionInv, NEW ok \in BOOLEAN, InsertEnds(ok)
  PROVE  \E c \in CallType : c = proc' /\ Away(c) /\ c.io = <<>> /\ c.v = c.s
<1> DEFINE b == Begin("respond", "finish", "none", proc.s, NoLease)
<1>1. EnterOK(b, "respond", "finish", "none", proc.s, proc.s, NoLease)
  <2>1. "respond" \in Pcs /\ "finish" \in Tops /\ "none" \in Thens /\ proc.s \in Sessions
    BY Now DEF Pcs, Tops, Thens
  <2> QED
    BY <2>1, BeginFacts
<1> HIDE DEF b
<1>2. LET c == [b EXCEPT !.ok = ok] IN c \in CallType /\ Away(c) /\ c.io = <<>> /\ c.v = c.s
  BY <1>1 DEF EnterOK, CallType, Away
<1>3. proc' = [b EXCEPT !.ok = ok] \/ proc' = Idle
  BY DEF InsertEnds, b
<1> QED
  BY <1>2, <1>3, IdleAway

\* insert_session ends, and the session is where it was.
LEMMA InsertEndsKeeps ==
  ASSUME SessionInv, ~Starting, NEW ok \in BOOLEAN, InsertEnds(ok), UNCHANGED mem,
         proc.lease.state \notin Intent, CountTypes', UNCHANGED <<disk, durable, table>>
  PROVE  SessionInv'
<1>1. PICK c \in CallType : c = proc' /\ Away(c) /\ c.io = <<>> /\ c.v = c.s
  BY InsertEndsAway
<1>2. PICK x \in Sessions : x = proc.v
  BY Now
<1>3. mem' = [mem EXCEPT ![x] = mem[x]] /\ mem[x] \in Held /\ SessionOK(mem[x])
  BY Now
<1> QED
  BY <1>1, <1>3, EndKeeps

LEMMA DiscardOldestHibernatedKeeps ==
  ASSUME SessionInv, ~Starting, proc.lease.state \notin Intent, InState("hibernated") # {},
         DiscardOldestHibernated, CountTypes', UNCHANGED <<disk, durable, table, clock>>
  PROVE  SessionInv'
<1>1. PICK v \in Sessions : v = Oldest(InState("hibernated")) /\ mem[v].at = "hibernated"
  <2>1. InState("hibernated") \subseteq Sessions /\ \A v \in InState("hibernated") : mem[v].at = "hibernated"
    BY DEF InState
  <2> QED
    BY <2>1, OldestFacts
<1> DEFINE l == mem[v].lease
           h == [mem[v] EXCEPT !.lease = NoLease]
<1>2. /\ l \in Lease /\ Waiting(l) /\ (LiveLease(l) => l.slot \/ l.discard) /\ (~LiveLease(l) => ~l.slot)
      /\ h \in Held /\ h.lease = NoLease /\ h.at = "hibernated" /\ SessionOK(h)
      /\ TakeLease(v) = [mem EXCEPT ![v] = h]
  BY <1>1, TakenFacts
<1>3. /\ proc.s \in Sessions /\ proc.top \in Tops /\ "fitDiscarded" \in DiscardThens
      /\ "evicted" \in Pcs /\ "none" \in Thens
  BY Now DEF Pcs, Thens
<1>4. CASE DiscardPending(l)
  <2>1. mem' = TakeLease(v) /\ proc' = Enter("discard", proc.top, "fitDiscarded", proc.s, v, l)
    BY <1>1, <1>4 DEF DiscardOldestHibernated, Proceed
  <2> QED
    BY <1>3, <2>1, DiscardBegins
<1>5. CASE ~DiscardPending(l)
  <2> DEFINE b == Proceed("evicted", "none", v, l)
  <2>1. EnterOK(b, "evicted", proc.top, "none", proc.s, v, l)
    BY <1>2, <1>3, ProceedFacts
  <2>2. mem' = TakeLease(v) /\ proc' = [b EXCEPT !.io = Restore(v, l)]
    BY <1>1, <1>5 DEF DiscardOldestHibernated
  <2>3. Restore(v, l) \in Seq(Step)
    BY <1>2, RestoreFacts
  <2> HIDE DEF b, h
  <2>4. PICK c : c = proc'
    OBVIOUS
  <2>5. /\ c \in CallType /\ c.pc = "evicted" /\ c.lease = l /\ c.io = Restore(v, l) /\ c.ok
        /\ c.s = proc.s /\ c.v = v /\ c.then = "none"
    BY <2>1, <2>2, <2>3, <2>4 DEF EnterOK, CallType
  <2>6. ScriptReady(c)
    BY <1>2, <2>5, RestoreReady
  <2>7. CallOK(c, clock') /\ WhereOK(c, h.at) /\ HandOK(c, NoLease, table[v])
    BY <1>2, <1>5, <2>5 DEF CallOK, WhereOK, HandOK
  <2>8. c.lease = mem[v].lease /\ c.pc # "leasing"
    BY <2>5
  <2> QED
    BY <1>2, <2>2, <2>4, <2>5, <2>6, <2>7, <2>8, TakeKeeps
<1> QED
  BY <1>4, <1>5

LEMMA FitKeeps ==
  ASSUME SessionInv, Fit
  PROVE  SessionInv'
<1>1. proc.pc = "fit" /\ ~Starting
  BY DEF Fit, Reached, Starting
<1>2. proc.lease.state \notin Intent /\ proc.s \in Sessions /\ proc.top \in Tops
  BY <1>1, Now, LeaseFacts DEF HandOK, Intent
<1>3. CountTypes' /\ UNCHANGED <<disk, durable, table, clock>>
  BY Now DEF Fit, CountTypes, disk_vars, history_vars
<1>4. \A at : Cardinality(InState(at)) > 0 => InState(at) # {} /\ InState(at) \subseteq Sessions
  BY FS_EmptySet DEF InState
<1>5. CASE Cardinality(InState("resident")) > MaxSessions
           /\ mem' = TakeLease(Oldest(InState("resident")))
  <2>1. InState("resident") # {} /\ InState("resident") \subseteq Sessions
    <3>1. Cardinality(InState("resident")) \in Nat
      <4>1. IsFiniteSet(InState("resident"))
        BY StoreAssumption, FS_Subset DEF InState
      <4> QED
        BY <4>1, FS_CardinalityType
    <3>2. Cardinality(InState("resident")) > 0
      BY <1>5, <3>1, StoreAssumption
    <3> QED
      BY <1>4, <3>2
  <2>2. PICK v \in Sessions : v = Oldest(InState("resident")) /\ mem[v].at = "resident"
    BY <2>1, OldestFacts DEF InState
  <2> DEFINE l == mem[v].lease
  <2>3. /\ l \in Lease /\ Waiting(l) /\ (LiveLease(l) => l.slot \/ l.discard) /\ (~LiveLease(l) => ~l.slot)
    BY TakenFacts
  <2>4. CASE proc' = Proceed("discard", "fitDiscarded", v, l)
    <3>1. mem' = TakeLease(v) /\ proc' = Enter("discard", proc.top, "fitDiscarded", proc.s, v, l)
      BY <1>5, <2>2, <2>4 DEF Proceed
    <3>2. "fitDiscarded" \in DiscardThens
      OBVIOUS
    <3> QED
      BY <1>1, <1>2, <1>3, <3>1, <3>2, DiscardBegins
  <2>5. ASSUME NEW pc \in {"hibernating", "lease"}, NEW then \in {"none", "hibernating"},
               proc' = Proceed(pc, then, v, l), ~DiscardPending(l),
               pc = "lease" => l = NoLease /\ then = "hibernating"
        PROVE  SessionInv'
    <3>1. PICK c : c = proc'
      OBVIOUS
    <3>2. c = Enter(pc, proc.top, then, proc.s, v, l) /\ pc \in {"lease"} \cup LeaseThens /\ then \in Thens
      BY <2>5, <3>1 DEF Proceed, Thens
    <3>3. EnterOK(c, pc, proc.top, then, proc.s, v, l)
      <4>1. pc \in Pcs
        BY DEF Pcs
      <4> QED
        BY <1>2, <2>3, <3>2, <4>1, EnterFacts
    <3>4. CallOK(c, clock') /\ WhereOK(c, mem[v].at)
      BY <2>2, <2>5, <3>3 DEF EnterOK, CallOK, WhereOK
    <3>5. HandOK(c, NoLease, table[v])
      BY <2>3, <2>5, <3>3, LeaseFacts DEF EnterOK, HandOK
    <3>6. mem' = TakeLease(v)
      BY <1>5, <2>2
    <3> HIDE DEF l
    <3> QED
      BY <1>1, <1>2, <1>3, <3>1, <3>2, <3>4, <3>5, <3>6, EnterKeeps DEF l
  <2>6. \/ proc' = Proceed("discard", "fitDiscarded", v, l)
        \/ ~DiscardPending(l) /\ proc' = Proceed("hibernating", "none", v, l)
        \/ ~DiscardPending(l) /\ l = NoLease /\ proc' = Proceed("lease", "hibernating", v, l)
        \/ InState("hibernated") # {} /\ DiscardOldestHibernated
        \/ InsertEnds(TRUE) /\ UNCHANGED mem
        \/ InsertEnds(FALSE) /\ UNCHANGED mem
        \/ Cardinality(InState("resident")) <= MaxSessions
    BY <2>2 DEF Fit
  <2>7. ~(Cardinality(InState("resident")) <= MaxSessions)
    <3>1. IsFiniteSet(InState("resident"))
      BY StoreAssumption, FS_Subset DEF InState
    <3> QED
      BY <1>5, <3>1, FS_CardinalityType, StoreAssumption
  <2>8. CASE InState("hibernated") # {} /\ DiscardOldestHibernated
    BY <1>1, <1>2, <1>3, <2>8, DiscardOldestHibernatedKeeps
  <2>9. CASE (InsertEnds(TRUE) \/ InsertEnds(FALSE)) /\ UNCHANGED mem
    BY <1>1, <1>2, <1>3, <2>9, InsertEndsKeeps
  <2> QED
    BY <2>4, <2>5, <2>6, <2>7, <2>8, <2>9
<1>6. CASE InState("hibernated") # {} /\ DiscardOldestHibernated
  BY <1>1, <1>2, <1>3, <1>6, DiscardOldestHibernatedKeeps
<1>7. CASE (InsertEnds(TRUE) \/ InsertEnds(FALSE)) /\ UNCHANGED mem
  BY <1>1, <1>2, <1>3, <1>7, InsertEndsKeeps
<1>8. Cardinality(InState("hibernated")) > MaxHibernated => InState("hibernated") # {}
  <2>1. IsFiniteSet(InState("hibernated"))
    BY StoreAssumption, FS_Subset DEF InState
  <2>2. Cardinality(InState("hibernated")) \in Nat
    BY <2>1, FS_CardinalityType
  <2> QED
    BY <1>4, <2>2, StoreAssumption
<1>9. \/ Cardinality(InState("resident")) > MaxSessions /\ mem' = TakeLease(Oldest(InState("resident")))
      \/ InState("hibernated") # {} /\ DiscardOldestHibernated
      \/ (InsertEnds(TRUE) \/ InsertEnds(FALSE)) /\ UNCHANGED mem
  BY <1>8 DEF Fit
<1> QED
  BY <1>5, <1>6, <1>7, <1>9

\* The session that made room has its lease again, or is gone.
LEMMA GivenFacts ==
  ASSUME SessionInv, proc.pc \in {"evicted", "captured", "uncaptured"}, proc.io = <<>>
  PROVE  /\ ~Starting /\ proc.v \in Sessions /\ mem[proc.v] \in Held /\ mem \in [Sessions -> Held]
         /\ mem[proc.v].lease = NoLease /\ mem[proc.v].at \in {"resident", "hibernated"}
         /\ proc.ok => proc.lease.state \notin Intent
         /\ ~proc.ok => Waiting(proc.lease) /\ (proc.lease = NoLease \/ proc.lease.slot \/ proc.lease.discard)
         /\ proc.lease \in Lease /\ SessionOK(mem[proc.v])
BY Now DEF CallOK, WhereOK, HandOK, EndOK, FinalLease, Waiting, Starting

LEMMA InsertContinuesKeeps ==
  ASSUME SessionInv, FitContinues
  PROVE  SessionInv'
<1> DEFINE x == proc.v
<1>1. proc.pc \in {"fitDiscarded", "evicted", "lost"} /\ proc.io = <<>> /\ ~Starting
  BY DEF FitContinues, Reached, Starting
<1>2. CountTypes' /\ UNCHANGED <<disk, durable, table>> /\ x \in Sessions
  BY Now DEF FitContinues, CountTypes, disk_vars, history_vars
<1>3. PICK c \in CallType : c = proc' /\ Away(c) /\ c.io = <<>> /\ c.v = c.s
  <2>1. proc' = Proceed("fit", "none", proc.s, NoLease) \/ InsertEnds(FALSE)
    BY DEF FitContinues
  <2> QED
    BY <2>1, FitAway, InsertEndsAway
<1>4. CASE proc.pc \in {"fitDiscarded", "lost"}
  <2>1. proc.lease.state \notin Intent
    BY <1>4, Now, LeaseFacts DEF HandOK, Intent
  <2>2. mem' = mem
    BY <1>4 DEF FitContinues, Reached
  <2>3. mem' = [mem EXCEPT ![x] = mem[x]] /\ mem[x] \in Held /\ SessionOK(mem[x])
    BY <2>2, Now
  <2> QED
    BY <1>1, <1>2, <1>3, <2>1, <2>3, EndKeeps
<1>5. CASE proc.pc = "evicted" /\ proc.ok
  <2>1. mem' = [mem EXCEPT ![x] = Absent]
    BY <1>5 DEF FitContinues, Reached
  <2>2. Absent \in Held /\ Absent.lease = NoLease /\ SessionOK(Absent)
    BY LeaseFacts DEF Absent, Held, SessionOK
  <2>3. proc.lease.state \notin Intent /\ Absent.lease = mem[x].lease
    BY <1>1, <1>5, <2>2, GivenFacts
  <2> QED
    BY <1>1, <1>2, <1>3, <2>1, <2>2, <2>3, EndKeeps
<1>6. CASE proc.pc = "evicted" /\ ~proc.ok
  <2> DEFINE h == [mem[x] EXCEPT !.lease = proc.lease]
  <2>1. mem' = [mem EXCEPT ![x] = h]
    BY <1>6, Now DEF FitContinues, Reached, Holding
  <2>2. h \in Held /\ h.lease = proc.lease /\ h.at = mem[x].at
    BY <1>1, <1>6, GivenFacts DEF Held
  <2> HIDE DEF h
  <2>3. SessionOK(h) /\ mem[x].lease = NoLease
    BY <1>1, <1>6, <2>2, GivenFacts DEF SessionOK
  <2> QED
    BY <1>1, <1>2, <1>3, <2>1, <2>2, <2>3, GiveKeeps
<1> QED
  BY <1>1, <1>4, <1>5, <1>6

LEMMA StoreHibernatedKeeps ==
  ASSUME SessionInv, StoreHibernated
  PROVE  SessionInv'
<1> DEFINE x == proc.v
           h == [mem[x] EXCEPT !.at = "hibernated", !.lease = IF proc.ok THEN NoLease ELSE proc.lease]
<1>1. proc.pc = "captured" /\ proc.io = <<>>
  BY DEF StoreHibernated, Reached
<1>2. /\ ~Starting /\ x \in Sessions /\ mem[x] \in Held /\ mem \in [Sessions -> Held]
      /\ mem[x].lease = NoLease
      /\ proc.ok => proc.lease.state \notin Intent
      /\ ~proc.ok => Waiting(proc.lease) /\ (proc.lease = NoLease \/ proc.lease.slot \/ proc.lease.discard)
      /\ proc.lease \in Lease
  BY <1>1, GivenFacts
<1>3. CountTypes' /\ UNCHANGED <<disk, durable, table>>
  BY Now DEF StoreHibernated, CountTypes, disk_vars, history_vars
<1>4. PICK c \in CallType : c = proc' /\ Away(c) /\ c.io = <<>> /\ c.v = c.s
  <2>1. proc' = Proceed("fit", "none", proc.s, NoLease) \/ InsertEnds(FALSE)
    BY DEF StoreHibernated
  <2> QED
    BY <2>1, FitAway, InsertEndsAway
<1>5. mem' = [mem EXCEPT ![x] = h]
  BY <1>2 DEF StoreHibernated
<1>6. h \in Held /\ h.at = "hibernated" /\ h.lease = IF proc.ok THEN NoLease ELSE proc.lease
  BY <1>2, LeaseFacts DEF Held
<1> HIDE DEF h
<1>7. SessionOK(h)
  BY <1>2, <1>6, LeaseFacts DEF SessionOK
<1>8. CASE proc.ok
  <2>1. h.lease = mem[x].lease
    BY <1>2, <1>6, <1>8
  <2> QED
    BY <1>2, <1>3, <1>4, <1>5, <1>6, <1>7, <1>8, <2>1, EndKeeps
<1>9. CASE ~proc.ok
  <2>1. h.lease = proc.lease
    BY <1>6, <1>9
  <2> QED
    BY <1>2, <1>3, <1>4, <1>5, <1>6, <1>7, <2>1, GiveKeeps
<1> QED
  BY <1>8, <1>9

LEMMA RestoreFailedHibernationKeeps ==
  ASSUME SessionInv, RestoreFailedHibernation
  PROVE  SessionInv'
<1> DEFINE x == proc.v
<1>1. proc.pc = "uncaptured" /\ proc.io = <<>>
  BY DEF RestoreFailedHibernation, Reached
<1>2. /\ ~Starting /\ x \in Sessions /\ mem[x] \in Held /\ mem \in [Sessions -> Held]
      /\ mem[x].lease = NoLease /\ mem[x].at \in {"resident", "hibernated"} /\ SessionOK(mem[x])
      /\ proc.ok => proc.lease.state \notin Intent
      /\ ~proc.ok => Waiting(proc.lease) /\ (proc.lease = NoLease \/ proc.lease.slot \/ proc.lease.discard)
      /\ proc.lease \in Lease
  BY <1>1, GivenFacts
<1>3. CountTypes' /\ UNCHANGED <<disk, durable, table>>
  BY Now DEF RestoreFailedHibernation, CountTypes, disk_vars, history_vars
<1>4. PICK c \in CallType : c = proc' /\ Away(c) /\ c.io = <<>> /\ c.v = c.s
  BY InsertEndsAway DEF RestoreFailedHibernation
<1>5. CASE proc.ok
  <2>1. mem' = [mem EXCEPT ![x] = mem[x]]
    BY <1>2, <1>5 DEF RestoreFailedHibernation
  <2> QED
    BY <1>2, <1>3, <1>4, <1>5, <2>1, EndKeeps
<1>6. CASE ~proc.ok
  <2> DEFINE h == [mem[x] EXCEPT !.lease = proc.lease]
  <2>1. mem' = [mem EXCEPT ![x] = h]
    BY <1>2, <1>6 DEF RestoreFailedHibernation, Holding
  <2>2. h \in Held /\ h.lease = proc.lease /\ h.at = mem[x].at
    BY <1>2 DEF Held
  <2> HIDE DEF h
  <2>3. SessionOK(h)
    BY <1>2, <1>6, <2>2 DEF SessionOK
  <2> QED
    BY <1>2, <1>3, <1>4, <2>1, <2>2, <2>3, GiveKeeps
<1> QED
  BY <1>5, <1>6

LEMMA HibernateStoredKeeps ==
  ASSUME SessionInv, HibernateStored
  PROVE  SessionInv'
<1> DEFINE x == proc.v
<1>1. proc.pc = "hibernating" /\ proc.io = <<>> /\ ~Starting
  BY DEF HibernateStored, Reached, Starting
<1>2. /\ x \in Sessions /\ mem[x].at = "resident" /\ mem[x].lease = NoLease
      /\ Waiting(proc.lease) /\ (LiveLease(proc.lease) => proc.lease.slot \/ proc.lease.discard)
      /\ ~LiveLease(proc.lease) => ~proc.lease.slot
      /\ LiveLease(proc.lease) => ~DiscardPending(proc.lease)
      /\ ~proc.ok => proc.lease.state \notin Intent
      /\ proc.lease \in Lease /\ proc \in CallType
  BY <1>1, Now, LeaseFacts DEF CallOK, WhereOK, HandOK, Intent
<1>3. CountTypes' /\ UNCHANGED <<disk, durable, table, clock>>
  <2>1. kept' = kept \/ kept' = [kept EXCEPT ![proc.v] = 0]
    BY DEF HibernateStored
  <2>2. persisted' = persisted \/ persisted' = [persisted EXCEPT ![proc.v] = 0]
    BY DEF HibernateStored, RemoveSessionState
  <2>3. kept' \in [Sessions -> Nat] /\ persisted' \in [Sessions -> Nat]
    BY <2>1, <2>2, Now DEF CountTypes
  <2> QED
    BY <2>3, Now DEF HibernateStored, CountTypes, disk_vars
<1>4. mem[x] \in Held /\ SessionOK(mem[x]) /\ mem = [mem EXCEPT ![x] = mem[x]]
  BY <1>2, Now
<1>5. CASE ~proc.ok /\ InsertEnds(FALSE) /\ UNCHANGED mem
  BY <1>1, <1>2, <1>3, <1>5, InsertEndsKeeps
<1>6. ASSUME proc.ok, UNCHANGED mem, NEW outcome \in {"captured", "uncaptured"},
             proc' = Call(outcome, proc.lease, Restore(proc.v, proc.lease))
      PROVE  SessionInv'
  <2>1. Restore(proc.v, proc.lease) \in Seq(Step)
    BY <1>2, RestoreFacts
  <2>2. PICK c : c = proc'
    OBVIOUS
  <2>3. CallFieldsOK(c, outcome, proc.lease, Restore(proc.v, proc.lease), TRUE)
    <3>1. outcome \in Pcs
      BY <1>6 DEF Pcs
    <3> QED
      BY <1>2, <1>6, <2>1, <2>2, <3>1, CallFacts
  <2>4. ScriptReady(c)
    BY <1>2, <2>3, RestoreReady DEF CallFieldsOK
  <2>5. CallOK(c, clock') /\ WhereOK(c, mem[x].at) /\ HandOK(c, mem[c.v].lease, table[c.v])
    BY <1>2, <1>3, <2>3 DEF CallFieldsOK, CallOK, WhereOK, HandOK
  <2> QED
    BY <1>1, <1>2, <1>3, <1>4, <1>6, <2>2, <2>3, <2>4, <2>5, StayKeeps DEF CallFieldsOK
<1>7. Absent \in Held /\ SessionOK(Absent) /\ Absent.lease = mem[x].lease /\ Absent.at = "absent"
  BY <1>2, LeaseFacts DEF Absent, Held, SessionOK
<1>8. CASE proc.ok /\ proc.lease = NoLease /\ RemoveSessionState(proc.v) /\ InsertEnds(FALSE)
  <2>1. mem' = [mem EXCEPT ![x] = Absent]
    BY <1>8 DEF RemoveSessionState
  <2>2. proc.lease.state \notin Intent
    BY <1>8, LeaseFacts DEF Intent
  <2>3. PICK c \in CallType : c = proc' /\ Away(c) /\ c.io = <<>> /\ c.v = c.s
    BY <1>8, InsertEndsAway
  <2> QED
    BY <1>1, <1>2, <1>3, <1>7, <2>1, <2>2, <2>3, EndKeeps
<1>9. CASE /\ proc.ok /\ proc.lease # NoLease /\ proc' = [DiscardLeased(proc.lease) EXCEPT !.then = "lost"]
           /\ mem' = [mem EXCEPT ![proc.v] = Absent]
  <2>1. PICK c : c = proc'
    OBVIOUS
  <2>2. DiscardingOK(c, proc.lease) /\ c.then = "lost"
    <3>1. LiveLease(proc.lease) /\ "lost" \in Thens
      BY <1>2, <1>9 DEF Waiting, Thens
    <3> QED
      BY <1>2, <1>9, <2>1, <3>1, DiscardLeasedFacts
  <2>3. CallOK(c, clock') /\ WhereOK(c, Absent.at) /\ HandOK(c, mem[c.v].lease, table[c.v])
    BY <1>2, <2>2 DEF DiscardingOK, CallOK, WhereOK, HandOK, Waiting
  <2> QED
    BY <1>1, <1>2, <1>3, <1>7, <1>9, <2>1, <2>2, <2>3, StayKeeps DEF DiscardingOK
<1> QED
  BY <1>5, <1>6, <1>8, <1>9 DEF HibernateStored

-----------------------------------------------------------------------------
(* lease_reference *)

\* A retained lease is taken out of the table.
LEMMA TakeTableKeeps ==
  ASSUME SessionInv, ~Starting, NEW c \in CallType, c.v = proc.v, proc.lease.state \notin Intent,
         (c.lease.state = table[proc.v].state /\ c.lease.nonce = table[proc.v].nonce)
           \/ table[proc.v].state \notin Intent,
         c.lease.slot => table[proc.v].slot,
         CallOK(c, clock'), WhereOK(c, mem[proc.v].at), HandOK(c, mem[proc.v].lease, NoLease),
         ScriptReady(c), c.pc # "leasing",
         CountTypes', UNCHANGED mem, table' = [table EXCEPT ![proc.v] = NoLease], proc' = c,
         UNCHANGED <<disk, durable>>
  PROVE  SessionInv'
<1>1. PICK x \in Sessions : x = proc.v
  BY Now
<1>2. PICK n \in Lease : n = NoLease
  BY LeaseFacts
<1>3. mem[x] \in Held /\ SessionOK(mem[x]) /\ mem' = [mem EXCEPT ![x] = mem[x]] /\ RetainedOK(n)
  BY <1>2, Now, LeaseFacts DEF RetainedOK
<1>4. /\ OneOf(mem[x].lease, mem[x].lease, n, c.lease) /\ OneOf(table[x], mem[x].lease, n, c.lease)
      /\ OneOf(proc.lease, mem[x].lease, n, c.lease)
  BY <1>1 DEF OneOf
<1>5. Num(mem[x].lease) + Num(n) + Num(c.lease) <= Num(mem[x].lease) + Num(table[x]) + Num(proc.lease)
  BY <1>1, <1>2, LeaseFacts DEF Num
<1>6. Turn(x, mem[x], n, c)
  BY <1>1, <1>2, <1>3, <1>4, <1>5 DEF Turn
<1> QED
  BY <1>1, <1>2, <1>3, <1>6, TurnKeeps

\* The lease in hand goes to the table, and the call goes on.
LEMMA RetainGoesOn ==
  ASSUME SessionInv, ~Starting, NEW h \in Held, h.lease = mem[proc.v].lease, SessionOK(h),
         table[proc.v] = NoLease, RetainedOK(proc.lease),
         NEW c \in CallType, c.v = proc.v, c.lease = NoLease,
         CallOK(c, clock'), WhereOK(c, h.at), HandOK(c, h.lease, proc.lease), ScriptReady(c), c.pc # "leasing",
         CountTypes', mem' = [mem EXCEPT ![proc.v] = h], table' = [table EXCEPT ![proc.v] = proc.lease],
         proc' = c, UNCHANGED <<disk, durable>>
  PROVE  SessionInv'
<1>1. PICK x \in Sessions : x = proc.v
  BY Now
<1>2. PICK l \in Lease : l = proc.lease
  BY Now
<1>3. /\ OneOf(mem[x].lease, h.lease, l, c.lease) /\ OneOf(table[x], h.lease, l, c.lease)
      /\ OneOf(proc.lease, h.lease, l, c.lease)
  BY <1>1, <1>2, LeaseFacts DEF OneOf, Intent
<1>4. Num(h.lease) + Num(l) + Num(c.lease) <= Num(mem[x].lease) + Num(table[x]) + Num(proc.lease)
  BY <1>1, <1>2, LeaseFacts DEF Num
<1>5. Turn(x, h, l, c)
  BY <1>1, <1>2, <1>3, <1>4 DEF Turn
<1> QED
  BY <1>1, <1>2, <1>5, TurnKeeps

\* The call goes on within lease_reference, or returns from it.
LEMMA LeaseGoesOn ==
  ASSUME SessionInv, proc.pc \in LeasePcs, NEW c, NEW pc, NEW l, NEW io, NEW ok, clock' = clock,
         CallFieldsOK(c, pc, l, io, ok), pc \in LeasePcs \/ pc = proc.then,
         pc \in {"lease", "leaseActive", proc.then} \/ ~ok => io = <<>>
  PROVE  /\ CallOK(c, clock') /\ WhereOK(c, mem[proc.v].at) /\ c.then \in LeaseThens
         /\ c \in CallType /\ c.v = proc.v /\ c.lease = l
BY Now DEF CallFieldsOK, CallOK, WhereOK

LEMMA LeaseNow ==
  ASSUME SessionInv, proc.pc \in LeasePcs
  PROVE  /\ ~Starting /\ proc \in CallType /\ proc.v \in Sessions /\ proc.lease \in Lease
         /\ proc.then \in LeaseThens /\ proc.then \in Pcs
         /\ mem[proc.v] \in Held /\ SessionOK(mem[proc.v]) /\ mem = [mem EXCEPT ![proc.v] = mem[proc.v]]
         /\ proc.then \in {"attach", "wake", "hibernating"} => mem[proc.v].lease = NoLease
         /\ proc.pc # "lease" => table[proc.v] = NoLease
         /\ LiveLease(proc.lease) => proc.lease.slot
         /\ LiveLease(proc.lease) /\ proc.pc # "resolvedDiscard" => ~DiscardPending(proc.lease)
<1>1. proc.then \in LeaseThens
  BY Now DEF CallOK
<1>2. proc.then \in Pcs
  BY <1>1, ThenFacts
<1> QED
  BY <1>1, <1>2, Now DEF HandOK, Starting

\* lease_reference returns with this lease.
LEMMA LeaseReturns ==
  ASSUME SessionInv, proc.pc \in LeasePcs \ {"lease"}, NEW ok \in BOOLEAN, NEW l, l \in {NoLease, proc.lease},
         Waiting(l), ok \/ l = NoLease,
         l.state \in {"None", "Restore"}, LiveLease(l) => ~DiscardPending(l),
         l = proc.lease \/ proc.lease.state \notin Intent,
         proc' = Return(ok, l), UNCHANGED <<mem, table, clock, disk, durable>>, CountTypes'
  PROVE  SessionInv'
<1>1. l \in Lease /\ (l.slot => proc.lease.slot) /\ (LiveLease(l) => l.slot) /\ (~LiveLease(l) => ~l.slot)
  BY LeaseNow, LeaseFacts DEF Waiting
<1>2. PICK c : c = proc'
  OBVIOUS
<1>3. CallFieldsOK(c, proc.then, l, <<>>, ok)
  BY <1>1, <1>2, LeaseNow, ReturnFacts
<1>4. /\ CallOK(c, clock') /\ WhereOK(c, mem[proc.v].at) /\ c \in CallType /\ c.v = proc.v /\ c.lease = l
      /\ c.pc \in LeaseThens /\ c.io = <<>> /\ c.ok = ok
  <2>1. proc.then \in LeaseThens
    BY LeaseNow
  <2> QED
    BY <1>3, <2>1, LeaseGoesOn DEF CallFieldsOK
<1>5. HandOK(c, mem[proc.v].lease, table[proc.v])
  <2>1. c.pc = proc.then /\ c.then = proc.then
    BY <1>3 DEF CallFieldsOK
  <2> QED
    BY <1>1, <1>4, <2>1, LeaseNow DEF HandOK
<1>6. ScriptReady(c)
  BY <1>4, NoScriptReady
<1>7. c.pc # "leasing"
  BY <1>4
<1>8. (c.lease.state = proc.lease.state /\ c.lease.nonce = proc.lease.nonce) \/ proc.lease.state \notin Intent
  BY <1>4
<1> QED
  BY <1>1, <1>2, <1>4, <1>5, <1>6, <1>7, <1>8, LeaseNow, StayKeeps

\* CheckActive, from a call that has no lease in hand any more.
LEMMA CheckActiveFacts ==
  ASSUME SessionInv, proc.pc \in LeasePcs, clock' = clock, NEW c, c = CheckActive
  PROVE  /\ CallOK(c, clock') /\ WhereOK(c, mem[proc.v].at) /\ HandOK(c, mem[proc.v].lease, NoLease)
         /\ c \in CallType /\ c.v = proc.v /\ c.lease = NoLease /\ c.pc # "leasing" /\ ScriptReady(c)
<1>1. NoLease \in Lease /\ <<>> \in Seq(Step) /\ "leaseActive" \in Pcs
  BY LeaseFacts DEF Pcs
<1>2. PICK n : n = NoLease
  OBVIOUS
<1>3. CASE proc.then = "metadata"
  <2>1. CallFieldsOK(c, proc.then, n, <<>>, TRUE)
    BY <1>1, <1>2, <1>3, LeaseNow, ReturnFacts DEF CheckActive
  <2>2. CallOK(c, clock') /\ WhereOK(c, mem[proc.v].at) /\ c \in CallType /\ c.v = proc.v /\ c.lease = n
    BY <2>1, LeaseGoesOn
  <2>3. c.pc = "metadata" /\ c.ok /\ c.io = <<>> /\ c.then = "metadata"
    BY <1>3, <2>1 DEF CallFieldsOK
  <2> QED
    BY <1>2, <2>2, <2>3, LeaseFacts, NoScriptReady DEF HandOK
<1>4. CASE proc.then # "metadata"
  <2>1. CallFieldsOK(c, "leaseActive", n, <<>>, TRUE)
    BY <1>1, <1>2, <1>4, LeaseNow, CallFacts DEF CheckActive
  <2>2. CallOK(c, clock') /\ WhereOK(c, mem[proc.v].at) /\ c \in CallType /\ c.v = proc.v /\ c.lease = n
    BY <2>1, LeaseGoesOn
  <2>3. c.pc = "leaseActive" /\ c.ok /\ c.io = <<>> /\ c.then = proc.then
    BY <2>1 DEF CallFieldsOK
  <2> QED
    BY <1>2, <2>2, <2>3, LeaseFacts, LeaseNow, NoScriptReady DEF HandOK
<1> QED
  BY <1>3, <1>4

\* A retained lease that is resolved with files left to move.
LEMMA ResolvesKeeps ==
  ASSUME SessionInv, proc.pc = "lease", proc.lease = NoLease,
         NEW pc \in {"resolved", "resolvedRetire", "resolvedDiscard"}, NEW l \in Lease, NEW io \in Seq(Step),
         l.state = table[proc.v].state, l.nonce = table[proc.v].nonce, l.slot = table[proc.v].slot,
         LiveLease(l), IF pc = "resolvedDiscard" THEN l.discard ELSE ~DiscardPending(l),
         proc' = Call(pc, l, io),
         \A c \in CallType : CallFieldsOK(c, pc, l, io, TRUE) => ScriptReady(c),
         UNCHANGED <<mem, clock, disk, durable>>, CountTypes', table' = [table EXCEPT ![proc.v] = NoLease]
  PROVE  SessionInv'
<1>1. PICK c : c = proc'
  OBVIOUS
<1>2. CallFieldsOK(c, pc, l, io, TRUE)
  <2>1. pc \in Pcs
    BY DEF Pcs
  <2> QED
    BY <1>1, <2>1, LeaseNow, CallFacts
<1>3. /\ CallOK(c, clock') /\ WhereOK(c, mem[proc.v].at) /\ c \in CallType /\ c.v = proc.v /\ c.lease = l
      /\ ScriptReady(c) /\ c.pc = pc /\ c.then = proc.then /\ c.ok
  <2>1. ~(pc \in {"lease", "leaseActive", proc.then})
    BY LeaseNow
  <2> QED
    BY <1>2, <2>1, LeaseGoesOn DEF CallFieldsOK
<1>4. l.slot
  <2>1. RetainedOK(table[proc.v])
    BY Now
  <2> QED
    BY <2>1, LeaseFacts DEF RetainedOK, LiveLease
<1>5. HandOK(c, mem[proc.v].lease, NoLease)
  BY <1>3, <1>4, LeaseNow DEF HandOK, Waiting
<1>6. proc.lease.state \notin Intent
  BY LeaseFacts DEF Intent
<1> QED
  BY <1>1, <1>3, <1>5, <1>6, LeaseNow, TakeTableKeeps

LEMMA TakeRecoveryLeaseKeeps ==
  ASSUME SessionInv, TakeRecoveryLease
  PROVE  SessionInv'
<1>1. /\ proc.pc = "lease" /\ proc.io = <<>> /\ table' = [table EXCEPT ![proc.v] = NoLease]
      /\ UNCHANGED <<mem, clock, disk, durable>>
  BY DEF TakeRecoveryLease, Reached, disk_vars
<1>2. CountTypes'
  BY Now DEF TakeRecoveryLease, CountTypes, disk_vars, history_vars
<1>3. proc.lease = NoLease /\ proc.v \in Sessions
  BY <1>1, Now DEF HandOK
<1>4. PICK l \in Lease : l = table[proc.v]
  BY <1>3, Now
<1>5. Waiting(l) /\ (LiveLease(l) => l.state \in Intent \cup {"Active"}) /\ (l = NoLease => ~DiscardPending(l))
  <2>1. RetainedOK(table[proc.v])
    BY <1>3, Now
  <2> QED
    BY <1>4, <2>1, LeaseFacts DEF RetainedOK, LiveLease, Lease, LeaseState, Intent
<1>6. proc' = ResolveRecoveryLease(proc.v, l)
  BY <1>4 DEF TakeRecoveryLease
<1>7. CASE DiscardPending(l)
  <2> DEFINE d == [l EXCEPT !.discard = TRUE]
  <2>1. d \in Lease /\ d.discard /\ d.state = l.state /\ d.nonce = l.nonce /\ d.slot = l.slot
    BY DiscardingFacts
  <2>2. proc' = Call("resolvedDiscard", d, Discard(d))
    <3>1. l.state \notin {"Removed", "None"}
      BY <1>5, <1>7 DEF Waiting, LiveLease
    <3> QED
      BY <1>6, <1>7, <3>1 DEF ResolveRecoveryLease
  <2> HIDE DEF d
  <2>3. LiveLease(d) /\ d.state \in Intent \cup {"Active"}
    BY <1>5, <1>7, <2>1 DEF Waiting, LiveLease
  <2>4. Discard(d) \in Seq(Step)
    BY <2>1, <2>3, DiscardFacts
  <2>5. \A c \in CallType : CallFieldsOK(c, "resolvedDiscard", d, Discard(d), TRUE) => ScriptReady(c)
    BY <2>1, <2>3, DiscardReady DEF CallFieldsOK
  <2>6. d.state = table[proc.v].state /\ d.nonce = table[proc.v].nonce /\ d.slot = table[proc.v].slot
    BY <1>4, <2>1
  <2>7. PICK io \in Seq(Step) : io = Discard(d)
    BY <2>4
  <2> QED
    BY <1>1, <1>2, <1>3, <2>1, <2>2, <2>3, <2>5, <2>6, <2>7, ResolvesKeeps
<1>8. CASE ~DiscardPending(l) /\ LiveLease(l)
  <2>1. l.state = table[proc.v].state /\ l.nonce = table[proc.v].nonce /\ l.slot = table[proc.v].slot
    BY <1>4
  <2>2. ASSUME NEW io \in Seq(Step), io = Retire(l), proc' = Call("resolvedRetire", l, io)
        PROVE  SessionInv'
    <3>1. \A c \in CallType : CallFieldsOK(c, "resolvedRetire", l, io, TRUE) => ScriptReady(c)
      BY <2>2, RetireReady DEF CallFieldsOK
    <3> QED
      BY <1>1, <1>2, <1>3, <1>8, <2>1, <2>2, <3>1, ResolvesKeeps
  <2>3. ASSUME NEW io \in Seq(Step), proc' = Call("resolved", l, io), Legal(disk, proc.v, l, io),
               FinalLease(l, io).state \in {"None", "Restore"},
               \A i \in 1 .. Len(io) : io[i].lease.state # "Removed"
        PROVE  SessionInv'
    <3>1. l # NoLease /\ l.state # "Removed"
      BY <1>8, LeaseFacts DEF LiveLease
    <3>2. \A c \in CallType : CallFieldsOK(c, "resolved", l, io, TRUE) => ScriptReady(c)
      BY <2>3, <3>1 DEF CallFieldsOK, ScriptReady, EndOK, LeasingOK
    <3> QED
      BY <1>1, <1>2, <1>3, <1>8, <2>1, <2>3, <3>2, ResolvesKeeps
  <2>4. CASE ActiveConflicts(proc.v, l)
    <3>1. proc' = Call("resolved", l, Refuse)
      BY <1>6, <1>8, <2>4 DEF ResolveRecoveryLease, ActiveConflicts, ActiveSupersedes, LiveLease
    <3>2. PICK io \in Seq(Step) : io = Refuse
      BY RefuseFacts
    <3>3. Legal(disk, proc.v, l, io)
      BY <3>2, RefuseFacts
    <3>4. FinalLease(l, io).state \in {"None", "Restore"} /\ \A i \in 1 .. Len(io) : io[i].lease.state # "Removed"
      BY <3>2, LeaseFacts DEF Refuse, Do, FinalLease
    <3> QED
      BY <2>3, <3>1, <3>2, <3>3, <3>4
  <2>5. CASE ~ActiveConflicts(proc.v, l) /\ (ActiveSupersedes(proc.v, l) \/ l.state = "Superseded")
    <3>1. proc' = Call("resolvedRetire", l, Retire(l))
      BY <1>6, <1>8, <2>5 DEF ResolveRecoveryLease, ActiveSupersedes
    <3>2. Retire(l) \in Seq(Step)
      BY RetireFacts
    <3> QED
      BY <2>2, <3>1, <3>2
  <2>6. CASE ~ActiveSupersedes(proc.v, l) /\ l.state = "Restore"
    <3>1. proc' = Call("resolved", l, SyncPendingNamespaces(l))
      BY <1>6, <1>8, <2>6 DEF ResolveRecoveryLease, ActiveConflicts
    <3>2. PICK io \in Seq(Step) : io = SyncPendingNamespaces(l)
      BY SyncPendingFacts
    <3>3. Legal(disk, proc.v, l, io)
      BY <3>2, SyncPendingLegal
    <3>4. FinalLease(l, io).state \in {"None", "Restore"}
      BY <2>6, <3>2, SyncPendingFinal DEF SameLease
    <3>5. \A i \in 1 .. Len(io) : io[i].lease.state # "Removed"
      BY <2>6, <3>2, SyncPendingLeases DEF SameLease
    <3> QED
      BY <2>3, <3>1, <3>2, <3>3, <3>4, <3>5
  <2>7. CASE l.state = "Active"
    <3>1. proc' = Call("resolved", l, Requarantine(l))
      BY <1>6, <1>8, <2>7 DEF ResolveRecoveryLease, ActiveConflicts, ActiveSupersedes
    <3>2. Requarantine(l) \in Seq(Step) /\ Legal(disk, proc.v, l, Requarantine(l))
      BY <1>8, RequarantineFacts DEF DiscardPending
    <3>3. PICK io \in Seq(Step) : io = Requarantine(l) /\ Legal(disk, proc.v, l, io)
      BY <3>2
    <3>4. FinalLease(l, io).state \in {"None", "Restore"} /\ \A i \in 1 .. Len(io) : io[i].lease.state # "Removed"
      BY <3>3, RequarantineFinal
    <3> QED
      BY <2>3, <3>1, <3>3, <3>4
  <2>8. l.state \in {"Restore", "Superseded", "Active"}
    BY <1>5, <1>8 DEF Intent, DiscardPending
  <2> QED
    BY <2>4, <2>5, <2>6, <2>7, <2>8
<1>9. CASE ~LiveLease(l)
  <2>1. l = NoLease /\ l.state = "None" /\ ~DiscardPending(l)
    BY <1>5, <1>9, LeaseFacts DEF Waiting
  <2>2. proc' = CheckActive
    BY <1>6, <2>1 DEF ResolveRecoveryLease, ActiveConflicts, ActiveSupersedes
  <2>3. PICK c : c = proc'
    OBVIOUS
  <2>4. /\ CallOK(c, clock') /\ WhereOK(c, mem[proc.v].at) /\ HandOK(c, mem[proc.v].lease, NoLease)
        /\ c \in CallType /\ c.v = proc.v /\ c.lease = NoLease /\ c.pc # "leasing" /\ ScriptReady(c)
    BY <1>1, <2>2, <2>3, CheckActiveFacts
  <2>5. proc.lease.state \notin Intent /\ table[proc.v].state \notin Intent /\ ~NoLease.slot
    BY <1>3, <1>4, <2>1, LeaseFacts DEF Intent
  <2> QED
    BY <1>1, <1>2, <2>3, <2>4, <2>5, LeaseNow, TakeTableKeeps
<1> QED
  BY <1>5, <1>7, <1>8, <1>9

LEMMA FailureCounted ==
  ASSUME CountTypes, failures' = failures \/ MemoryFails
  PROVE  failures' \in 0 .. MaxFailures
<1>1. failures \in 0 .. MaxFailures /\ (failures' = failures \/ (failures < MaxFailures /\ failures' = failures + 1))
  BY DEF CountTypes, MemoryFails
<1> QED
  BY <1>1, StoreAssumption

\* lease_reference gives up: the lease in hand is retained.
LEMMA RetainReturns ==
  ASSUME SessionInv, proc.pc \in LeasePcs \ {"lease"}, Waiting(proc.lease),
         table' = Retained(proc.v, proc.lease), proc' = Return(FALSE, NoLease),
         UNCHANGED <<mem, clock, disk, durable>>, CountTypes'
  PROVE  SessionInv'
<1>1. RetainedOK(proc.lease) /\ table[proc.v] = NoLease
  BY LeaseNow DEF RetainedOK, Waiting
<1>2. table' = [table EXCEPT ![proc.v] = proc.lease]
  BY <1>1, RetainedFacts
<1>3. PICK c : c = proc'
  OBVIOUS
<1>4. PICK n \in Lease : n = NoLease
  BY LeaseFacts
<1>5. CallFieldsOK(c, proc.then, n, <<>>, FALSE)
  BY <1>3, <1>4, LeaseNow, ReturnFacts
<1>6. /\ CallOK(c, clock') /\ WhereOK(c, mem[proc.v].at) /\ c \in CallType /\ c.v = proc.v /\ c.lease = n
      /\ c.pc \in LeaseThens /\ c.io = <<>> /\ ~c.ok /\ c.pc = proc.then /\ c.then = proc.then
  <2>1. proc.then \in LeaseThens
    BY LeaseNow
  <2> QED
    BY <1>5, <2>1, LeaseGoesOn DEF CallFieldsOK
<1>7. HandOK(c, mem[proc.v].lease, proc.lease)
  BY <1>4, <1>6, LeaseNow, LeaseFacts DEF HandOK
<1>8. ScriptReady(c) /\ c.pc # "leasing"
  BY <1>6, NoScriptReady
<1> QED
  BY <1>1, <1>2, <1>3, <1>4, <1>6, <1>7, <1>8, LeaseNow, RetainGoesOn

LEMMA ResolvedKeeps ==
  ASSUME SessionInv, Resolved
  PROVE  SessionInv'
<1>1. proc.pc \in {"resolved", "resolvedRetire", "resolvedDiscard"} /\ proc.io = <<>>
  BY DEF Resolved, Reached
<1>2. UNCHANGED <<mem, clock, disk, durable>> /\ CountTypes'
  <2>1. discarded' \subseteq Sessions
    BY Now DEF Resolved, CountTypes
  <2> QED
    BY <2>1, Now DEF Resolved, CountTypes, disk_vars
<1>3. Waiting(proc.lease) \/ (proc.ok /\ proc.lease.state = "Removed")
  BY Now DEF HandOK
<1>4. PICK n : n = NoLease
  OBVIOUS
<1>5. CASE proc.pc = "resolved" /\ proc.ok
  <2>1. proc' = Return(TRUE, proc.lease) /\ UNCHANGED table
    BY <1>5 DEF Resolved, Reached
  <2>2. proc.lease.state \in {"None", "Restore"} /\ Waiting(proc.lease)
    BY <1>1, <1>3, <1>5, Now DEF EndOK, FinalLease
  <2>3. LiveLease(proc.lease) => ~DiscardPending(proc.lease)
    BY <1>5, LeaseNow
  <2> QED
    BY <1>2, <1>5, <2>1, <2>2, <2>3, LeaseReturns
<1>6. CASE proc.pc = "resolvedRetire" /\ proc.ok
  <2>1. proc' = CheckActive /\ UNCHANGED table
    BY <1>6 DEF Resolved, Reached
  <2>2. PICK c : c = proc'
    OBVIOUS
  <2>3. /\ CallOK(c, clock') /\ WhereOK(c, mem[proc.v].at) /\ HandOK(c, mem[proc.v].lease, NoLease)
        /\ c \in CallType /\ c.v = proc.v /\ c.lease = NoLease /\ c.pc # "leasing" /\ ScriptReady(c)
    BY <1>2, <1>6, <2>1, <2>2, CheckActiveFacts
  <2>4. proc.lease.state \notin Intent /\ table[proc.v] = NoLease
    BY <1>1, <1>6, Now, LeaseNow DEF EndOK, FinalLease
  <2>5. ~c.lease.slot
    BY <2>3, LeaseFacts
  <2> QED
    BY <1>2, <1>6, <2>1, <2>2, <2>3, <2>4, <2>5, LeaseNow, StayKeeps
<1>7. CASE proc.pc = "resolvedDiscard" /\ proc.ok
  <2>1. proc' = Return(TRUE, n) /\ UNCHANGED table
    BY <1>4, <1>7 DEF Resolved, Reached
  <2>2. proc.lease.state \notin Intent
    BY <1>1, <1>7, Now DEF EndOK, FinalLease
  <2>3. Waiting(n) /\ n.state = "None" /\ ~LiveLease(n)
    BY <1>4, LeaseFacts
  <2> QED
    BY <1>2, <1>4, <1>7, <2>1, <2>2, <2>3, LeaseReturns
<1>8. CASE ~proc.ok
  <2>1. table' = Retained(proc.v, proc.lease) /\ proc' = Return(FALSE, NoLease)
    BY <1>8 DEF Resolved
  <2> QED
    BY <1>1, <1>2, <1>3, <1>8, <2>1, RetainReturns
<1> QED
  BY <1>1, <1>5, <1>6, <1>7, <1>8

LEMMA LeaseActiveKeeps ==
  ASSUME SessionInv, LeaseActive
  PROVE  SessionInv'
<1>1. proc.pc = "leaseActive" /\ proc.io = <<>>
  BY DEF LeaseActive, Reached
<1>2. UNCHANGED <<mem, table, clock, disk, durable>> /\ CountTypes'
  <2>1. failures' \in 0 .. MaxFailures
    <3>1. failures' = failures \/ MemoryFails
      BY DEF LeaseActive
    <3> QED
      BY <3>1, Now, FailureCounted
  <2> QED
    BY <2>1, Now DEF LeaseActive, CountTypes, history_vars
<1>3. proc.lease = NoLease
  BY <1>1, Now DEF HandOK
<1>4. PICK n : n = NoLease
  OBVIOUS
<1>5. /\ Waiting(n) /\ n.state = "None" /\ ~LiveLease(n) /\ n = proc.lease /\ n \in Lease
  BY <1>3, <1>4, LeaseFacts
<1>6. CASE proc' = Return(FALSE, NoLease) \/ proc' = Return(TRUE, NoLease)
  BY <1>1, <1>2, <1>4, <1>5, <1>6, LeaseReturns
<1>7. CASE RecoverySlots < RecoveryLimit /\ proc' = Call("leasing", NoLease, LeaseReference(proc.v))
  <2>1. PICK c : c = proc'
    OBVIOUS
  <2> DEFINE io == LeaseReference(proc.v)
  <2>2. io \in Seq(Step) /\ Legal(disk, proc.v, NoLease, io)
    BY Now, LeaseReferenceFacts
  <2>3. /\ FinalLease(NoLease, io).state = "Restore"
        /\ io[1].op = "move" /\ io[1].path = Reference /\ io[1].to.intent = "Restore"
        /\ \A i \in 1 .. Len(io) : io[i].lease.state # "Removed" /\ (i > 1 => io[i].op = "sync")
    BY Now, LeaseReferenceFinal
  <2> HIDE DEF io
  <2>4. CallFieldsOK(c, "leasing", n, io, TRUE)
    <3>1. c = Call("leasing", n, io) /\ "leasing" \in Pcs
      BY <1>4, <1>7, <2>1 DEF io, Pcs
    <3> QED
      BY <1>1, <1>5, <2>2, <3>1, LeaseNow, CallFacts
  <2>5. CallOK(c, clock') /\ WhereOK(c, mem[proc.v].at) /\ c \in CallType /\ c.v = proc.v /\ c.lease = n
    <3>1. ~("leasing" \in {"lease", "leaseActive", proc.then})
      BY <1>1, LeaseNow
    <3> QED
      BY <1>1, <1>2, <2>4, <3>1, LeaseGoesOn
  <2>6. c.pc = "leasing" /\ c.io = io /\ c.ok /\ c.then = proc.then
    BY <2>4 DEF CallFieldsOK
  <2>7. HandOK(c, mem[proc.v].lease, table[proc.v])
    BY <1>1, <1>4, <2>5, <2>6, LeaseNow, LeaseFacts DEF HandOK
  <2>8. EndOK(c)
    BY <1>4, <1>5, <2>3, <2>5, <2>6 DEF EndOK
  <2>9. LeasingOK(disk, c)
    BY <1>5, <2>3, <2>5, <2>6 DEF LeasingOK
  <2>10. ScriptReady(c)
    BY <1>4, <2>2, <2>5, <2>6, <2>8, <2>9 DEF ScriptReady
  <2>11. Slots(mem, table, proc.lease) < RecoveryLimit
    BY <1>7 DEF Slots, RecoverySlots
  <2>12. (c.lease.state = proc.lease.state /\ c.lease.nonce = proc.lease.nonce)
    BY <1>5, <2>5
  <2>13. c.lease.slot => proc.lease.slot
    BY <1>5, <2>5
  <2> QED
    BY <1>1, <1>2, <2>1, <2>5, <2>7, <2>10, <2>11, <2>12, <2>13, LeaseNow, StayKeeps
<1> QED
  BY <1>6, <1>7 DEF LeaseActive

LEMMA LeasingKeeps ==
  ASSUME SessionInv, Leasing
  PROVE  SessionInv'
<1>1. proc.pc = "leasing" /\ proc.io = <<>>
  BY DEF Leasing, Reached
<1>2. UNCHANGED <<mem, table, clock, disk, durable>> /\ CountTypes'
  BY Now DEF Leasing, CountTypes, disk_vars, history_vars
<1>3. Waiting(proc.lease)
  BY <1>1, Now DEF HandOK, EndOK
<1>4. LiveLease(proc.lease) => ~DiscardPending(proc.lease)
  BY <1>1, LeaseNow
<1>5. CASE proc.ok \/ proc.lease = NoLease
  <2>1. proc' = Return(proc.ok, proc.lease)
    BY <1>5 DEF Leasing
  <2>2. proc.lease.state \in {"None", "Restore"} /\ proc.ok \in BOOLEAN
    BY <1>1, <1>5, Now, LeaseFacts DEF EndOK, FinalLease
  <2>3. PICK l : l = proc.lease
    OBVIOUS
  <2> QED
    BY <1>1, <1>2, <1>3, <1>4, <1>5, <2>1, <2>2, <2>3, LeaseReturns
<1>6. CASE ~(proc.ok \/ proc.lease = NoLease)
  <2>1. proc' = Call("unleasing", proc.lease, Restore(proc.v, proc.lease))
    BY <1>6 DEF Leasing
  <2>2. LiveLease(proc.lease) /\ proc.lease.state = "Restore" /\ ~Exists(disk, proc.v, Reference)
    BY <1>1, <1>3, <1>6 DEF Waiting, SessionInv, ControlInv, LeasingOK
  <2>3. PICK l \in Lease : l = proc.lease
    BY Now
  <2>4. PICK io : io = Restore(proc.v, l)
    OBVIOUS
  <2>5. /\ io \in Seq(Step) /\ Legal(disk, proc.v, l, io)
        /\ \A i \in 1 .. Len(io) : io[i].lease.state # "Removed"
    <3>1. ~l.discard /\ ~ActiveSupersedes(proc.v, l)
      BY <1>4, <2>2, <2>3 DEF DiscardPending, ActiveSupersedes
    <3> QED
      BY <2>2, <2>3, <2>4, <3>1, RestoreFacts, RestoreMovesBack
  <2>6. PICK c : c = proc'
    OBVIOUS
  <2>7. CallFieldsOK(c, "unleasing", l, io, TRUE)
    <3>1. "unleasing" \in Pcs
      BY DEF Pcs
    <3> QED
      BY <1>1, <2>1, <2>3, <2>4, <2>5, <2>6, <3>1, LeaseNow, CallFacts
  <2>8. CallOK(c, clock') /\ WhereOK(c, mem[proc.v].at) /\ c \in CallType /\ c.v = proc.v /\ c.lease = l
    <3>1. ~("unleasing" \in {"lease", "leaseActive", proc.then})
      BY <1>1, LeaseNow
    <3> QED
      BY <1>1, <1>2, <2>7, <3>1, LeaseGoesOn
  <2>9. c.pc = "unleasing" /\ c.io = io /\ c.ok /\ c.then = proc.then
    BY <2>7 DEF CallFieldsOK
  <2>10. HandOK(c, mem[proc.v].lease, table[proc.v])
    BY <1>1, <1>3, <1>4, <2>2, <2>3, <2>8, <2>9, LeaseNow DEF HandOK
  <2>11. ScriptReady(c)
    BY <2>2, <2>3, <2>5, <2>8, <2>9, LeaseFacts DEF ScriptReady, EndOK, LeasingOK, LiveLease
  <2> QED
    BY <1>1, <1>2, <2>3, <2>6, <2>8, <2>9, <2>10, <2>11, LeaseNow, StayKeeps
<1> QED
  BY <1>5, <1>6

LEMMA UnleasingKeeps ==
  ASSUME SessionInv, Unleasing
  PROVE  SessionInv'
<1>1. proc.pc = "unleasing" /\ proc.io = <<>>
  BY DEF Unleasing, Reached
<1>2. UNCHANGED <<mem, clock, disk, durable>> /\ CountTypes'
  BY Now DEF Unleasing, CountTypes, disk_vars, history_vars
<1>3. Waiting(proc.lease)
  BY <1>1, Now DEF HandOK, EndOK
<1> QED
  BY <1>1, <1>2, <1>3, RetainReturns DEF Unleasing

-----------------------------------------------------------------------------
(* discard_session_with_reference *)

LEMMA DiscardNow ==
  ASSUME SessionInv, proc.pc \in DiscardPcs
  PROVE  /\ ~Starting /\ proc \in CallType /\ proc.v \in Sessions /\ proc.lease \in Lease
         /\ proc.then \in DiscardThens \cup {"lost"} /\ proc.then \in Pcs
         /\ proc.pc = "discard" => proc.then \in DiscardThens
         /\ mem \in [Sessions -> Held] /\ mem[proc.v] \in Held /\ SessionOK(mem[proc.v])
         /\ mem = [mem EXCEPT ![proc.v] = mem[proc.v]]
         /\ mem[proc.v].lease = NoLease
         /\ proc.then = "cancelled" => mem[proc.v].at = "task"
         /\ proc.then \in {"fitDiscarded", "lost"} \/ proc.v = proc.s
         /\ LiveLease(proc.lease) => proc.lease.slot \/ proc.lease.discard
         /\ ~LiveLease(proc.lease) => ~proc.lease.slot
<1>1. proc.then \in DiscardThens \cup {"lost"} /\ (proc.pc = "discard" => proc.then \in DiscardThens)
  BY Now DEF CallOK
<1>2. proc.then \in Pcs
  BY <1>1, ThenFacts
<1>3. proc.then \in {"fitDiscarded", "lost"} \/ proc.v = proc.s
  BY Now DEF CallOK
<1> QED
  BY <1>1, <1>2, <1>3, Now DEF HandOK, WhereOK, Starting

\* The discard returns, and its session is this.
LEMMA DiscardReturnFacts ==
  ASSUME SessionInv, proc.pc \in DiscardPcs, NEW ok \in BOOLEAN, NEW c, c = Return(ok, NoLease),
         NEW at, NEW l, NEW n, proc.then = "cancelled" => l = NoLease, proc.then = "cold" /\ ok => at = "absent"
  PROVE  /\ CallOK(c, clock') /\ WhereOK(c, at) /\ HandOK(c, l, n) /\ ScriptReady(c)
         /\ c \in CallType /\ c.v = proc.v /\ c.lease = NoLease /\ c.pc # "leasing"
<1>1. CallFieldsOK(c, proc.then, NoLease, <<>>, ok)
  BY DiscardNow, LeaseFacts, ReturnFacts
<1>2. /\ c \in CallType /\ c.pc \in DiscardThens \cup {"lost"} /\ c.pc = proc.then /\ c.lease = NoLease
      /\ c.io = <<>> /\ c.ok = ok /\ c.v = proc.v /\ c.s = proc.s /\ c.then = proc.then
  BY <1>1, DiscardNow DEF CallFieldsOK
<1>3. c.pc \in {"fitDiscarded", "lost"} \/ c.v = c.s
  BY <1>2, DiscardNow
<1>4. CallOK(c, clock') /\ WhereOK(c, at)
  BY <1>2, <1>3 DEF CallOK, WhereOK
<1>5. HandOK(c, l, n)
  BY <1>2, LeaseFacts DEF HandOK
<1>6. ScriptReady(c)
  BY <1>2, NoScriptReady
<1> QED
  BY <1>2, <1>4, <1>5, <1>6

\* The session is removed and the discard returns.
LEMMA RemovedKeeps ==
  ASSUME SessionInv, proc.pc \in DiscardPcs, proc.lease.state \notin Intent, NEW ok \in BOOLEAN,
         mem' = [mem EXCEPT ![proc.v] = Absent], proc' = Return(ok, NoLease),
         CountTypes', UNCHANGED <<disk, durable, table>>
  PROVE  SessionInv'
<1>1. Absent \in Held /\ SessionOK(Absent) /\ Absent.lease = NoLease /\ Absent.at = "absent"
  BY LeaseFacts DEF Absent, Held, SessionOK
<1>2. PICK c : c = proc'
  OBVIOUS
<1>3. /\ CallOK(c, clock') /\ WhereOK(c, Absent.at) /\ HandOK(c, mem[proc.v].lease, table[proc.v]) /\ ScriptReady(c)
      /\ c \in CallType /\ c.v = proc.v /\ c.lease = NoLease /\ c.pc # "leasing"
  BY <1>1, <1>2, DiscardNow, DiscardReturnFacts
<1>4. ~c.lease.slot /\ Absent.lease = mem[proc.v].lease
  BY <1>1, <1>3, LeaseFacts, DiscardNow
<1> QED
  BY <1>1, <1>2, <1>3, <1>4, DiscardNow, StayKeeps

\* discard_leased_session begins.
LEMMA DiscardingFits ==
  ASSUME SessionInv, proc.pc = "discard", NEW c, NEW l, DiscardingOK(c, l), c.then = proc.then, NEW n
  PROVE  CallOK(c, clock') /\ WhereOK(c, mem[proc.v].at) /\ HandOK(c, mem[proc.v].lease, n)
<1>1. /\ c.pc = "discarded" /\ LiveLease(c.lease) /\ c.lease.discard /\ c.v = proc.v /\ c.s = proc.s /\ c.ok
  BY DEF DiscardingOK
<1>2. CallOK(c, clock') /\ WhereOK(c, mem[proc.v].at)
  BY <1>1, DiscardNow DEF CallOK, WhereOK
<1> QED
  BY <1>1, <1>2, DiscardNow DEF HandOK, Waiting

LEMMA DiscardSessionKeeps ==
  ASSUME SessionInv, DiscardSession
  PROVE  SessionInv'
<1> DEFINE x == proc.v
<1>1. proc.pc = "discard" /\ proc.io = <<>>
  BY DEF DiscardSession, Reached
<1>2. UNCHANGED <<disk, durable, clock>> /\ CountTypes'
  <2>1. failures' \in 0 .. MaxFailures
    <3>1. failures' = failures \/ MemoryFails
      BY DEF DiscardSession
    <3> QED
      BY <3>1, Now, FailureCounted
  <2>2. discarded' = discarded \/ discarded' = discarded \cup {x}
    BY DEF DiscardSession
  <2>3. persisted' = persisted \/ persisted' = [persisted EXCEPT ![x] = 0]
    BY DEF DiscardSession, RemoveSessionState
  <2>4. kept' = [kept EXCEPT ![x] = 0] /\ UNCHANGED <<disk, durable, clock, crashes>>
    BY DEF DiscardSession
  <2>5. x \in Sessions /\ CountTypes
    BY Now
  <2>6. discarded' \subseteq Sessions /\ persisted' \in [Sessions -> Nat] /\ kept' \in [Sessions -> Nat]
    BY <2>2, <2>3, <2>4, <2>5 DEF CountTypes
  <2> QED
    BY <2>1, <2>4, <2>5, <2>6 DEF CountTypes
<1>3. Waiting(proc.lease) /\ Waiting(table[x]) /\ RetainedOK(table[x]) /\ table[x] \in Lease
  BY <1>1, Now DEF HandOK, RetainedOK
<1>4. CASE proc.lease # NoLease /\ proc' = DiscardLeased(proc.lease) /\ UNCHANGED <<mem, table>>
  <2>1. PICK c : c = proc'
    OBVIOUS
  <2>2. DiscardingOK(c, proc.lease) /\ c.then = proc.then
    <3>1. LiveLease(proc.lease)
      BY <1>3, <1>4 DEF Waiting
    <3> QED
      BY <1>1, <1>4, <2>1, <3>1, DiscardNow, DiscardLeasedFacts
  <2>3. CallOK(c, clock') /\ WhereOK(c, mem[x].at) /\ HandOK(c, mem[x].lease, table[x])
    BY <1>1, <2>2, DiscardingFits
  <2> QED
    BY <1>1, <1>2, <1>4, <2>1, <2>2, <2>3, DiscardNow, StayKeeps DEF DiscardingOK
<1>5. CASE /\ proc.lease = NoLease /\ table[x] # NoLease /\ proc' = DiscardLeased(table[x]) /\ UNCHANGED mem
           /\ table' = [table EXCEPT ![x] = NoLease]
  <2>1. PICK c : c = proc'
    OBVIOUS
  <2>2. DiscardingOK(c, table[x]) /\ c.then = proc.then
    <3>1. LiveLease(table[x])
      BY <1>3, <1>5 DEF Waiting
    <3> QED
      BY <1>1, <1>3, <1>5, <2>1, <3>1, DiscardNow, DiscardLeasedFacts
  <2>3. CallOK(c, clock') /\ WhereOK(c, mem[x].at) /\ HandOK(c, mem[x].lease, NoLease)
    BY <1>1, <2>2, DiscardingFits
  <2>4. proc.lease.state \notin Intent
    BY <1>5, LeaseFacts DEF Intent
  <2> QED
    BY <1>1, <1>2, <1>5, <2>1, <2>2, <2>3, <2>4, DiscardNow, TakeTableKeeps DEF DiscardingOK
<1>6. CASE /\ proc.lease = NoLease /\ mem' = [mem EXCEPT ![x] = Absent] /\ UNCHANGED table
           /\ proc' = Return(FALSE, NoLease) \/ proc' = Return(TRUE, NoLease)
  <2>1. proc.lease.state \notin Intent
    BY <1>6, LeaseFacts DEF Intent
  <2> QED
    BY <1>1, <1>2, <1>6, <2>1, RemovedKeeps
<1>7. ASSUME NEW slot \in BOOLEAN, proc.lease = NoLease, UNCHANGED <<mem, table>>,
             slot => RecoverySlots < RecoveryLimit,
             proc' = DiscardLeased(ActiveDiscardLease(x, slot))
      PROVE  SessionInv'
  <2>1. PICK l : l = ActiveDiscardLease(x, slot)
    OBVIOUS
  <2>2. l \in Lease /\ l.state = "Active" /\ l.slot = slot
    <3>1. NewNonce(x) \in Nat
      BY Now, NonceFacts
    <3> QED
      BY <2>1, <3>1 DEF ActiveDiscardLease, Lease, LeaseState
  <2>3. PICK c : c = proc'
    OBVIOUS
  <2>4. DiscardingOK(c, l) /\ c.then = proc.then
    <3>1. LiveLease(l)
      BY <2>2 DEF LiveLease
    <3> QED
      BY <1>1, <1>7, <2>1, <2>2, <2>3, <3>1, DiscardNow, DiscardLeasedFacts
  <2>5. CallOK(c, clock') /\ WhereOK(c, mem[x].at) /\ HandOK(c, mem[x].lease, table[x])
    BY <1>1, <2>4, DiscardingFits
  <2>6. /\ OneOf(mem[x].lease, mem[x].lease, table[x], c.lease)
        /\ OneOf(table[x], mem[x].lease, table[x], c.lease)
        /\ OneOf(proc.lease, mem[x].lease, table[x], c.lease)
    BY <1>7, LeaseFacts DEF OneOf, Intent
  <2>7. Num(c.lease) = (IF slot THEN 1 ELSE 0) /\ Num(proc.lease) = 0 /\ \A m : Num(m) \in Nat
    BY <1>7, <2>2, <2>4, LeaseFacts DEF Num, DiscardingOK
  <2>8. slot => Slots(mem, table, proc.lease) < RecoveryLimit
    BY <1>7 DEF Slots, RecoverySlots
  <2>9. IF slot THEN Num(mem[x].lease) + Num(table[x]) + Num(c.lease)
                       <= Num(mem[x].lease) + Num(table[x]) + Num(proc.lease) + 1
        ELSE Num(mem[x].lease) + Num(table[x]) + Num(c.lease)
               <= Num(mem[x].lease) + Num(table[x]) + Num(proc.lease)
    BY <2>7
  <2>10. c \in CallType /\ c.v = x /\ c.pc # "leasing" /\ ScriptReady(c)
    BY <2>4 DEF DiscardingOK
  <2>11. Turn(x, mem[x], table[x], c)
    <3>1. SessionOK(mem[x]) /\ RetainedOK(table[x])
      BY <1>1, <1>3, DiscardNow
    <3> QED
      BY <2>5, <2>6, <2>8, <2>9, <2>10, <3>1 DEF Turn
  <2>12. mem' = [mem EXCEPT ![x] = mem[x]] /\ table' = [table EXCEPT ![x] = table[x]]
    BY <1>1, <1>7, Now
  <2> QED
    BY <1>1, <1>2, <1>3, <2>3, <2>5, <2>10, <2>11, <2>12, DiscardNow, TurnKeeps
<1>8. \/ proc.lease # NoLease /\ proc' = DiscardLeased(proc.lease) /\ UNCHANGED <<mem, table>>
      \/ /\ proc.lease = NoLease /\ table[x] # NoLease /\ proc' = DiscardLeased(table[x]) /\ UNCHANGED mem
         /\ table' = [table EXCEPT ![x] = NoLease]
      \/ /\ proc.lease = NoLease /\ mem' = [mem EXCEPT ![x] = Absent] /\ UNCHANGED table
         /\ proc' = Return(FALSE, NoLease) \/ proc' = Return(TRUE, NoLease)
      \/ /\ proc.lease = NoLease /\ UNCHANGED <<mem, table>>
         /\ proc' = DiscardLeased(ActiveDiscardLease(x, RecoverySlots < RecoveryLimit))
  BY DEF DiscardSession, RemoveSessionState
<1>9. (RecoverySlots < RecoveryLimit) \in BOOLEAN
  OBVIOUS
<1> QED
  BY <1>4, <1>5, <1>6, <1>7, <1>8, <1>9

LEMMA DiscardedKeeps ==
  ASSUME SessionInv, Discarded
  PROVE  SessionInv'
<1> DEFINE x == proc.v
<1>1. proc.pc = "discarded" /\ proc.io = <<>>
  BY DEF Discarded, Reached
<1>2. UNCHANGED <<disk, durable, clock>> /\ CountTypes'
  <2>1. discarded' = discarded \/ discarded' = discarded \cup {x}
    BY DEF Discarded
  <2>2. persisted' = persisted \/ persisted' = [persisted EXCEPT ![x] = 0]
    BY DEF Discarded, RemoveSessionState
  <2>3. x \in Sessions /\ CountTypes
    BY Now
  <2>4. discarded' \subseteq Sessions /\ persisted' \in [Sessions -> Nat]
    BY <2>1, <2>2, <2>3 DEF CountTypes
  <2> QED
    BY <2>3, <2>4 DEF Discarded, CountTypes, disk_vars
<1>3. /\ ~proc.ok => Waiting(proc.lease)
      /\ proc.ok => proc.lease.state \notin Intent
      /\ LiveLease(proc.lease) => proc.lease.discard
  BY <1>1, Now DEF HandOK, EndOK, FinalLease
<1>4. CASE proc.ok
  <2>1. mem' = [mem EXCEPT ![x] = Absent] /\ proc' = Return(TRUE, NoLease) /\ UNCHANGED table
    BY <1>4 DEF Discarded, RemoveSessionState
  <2> QED
    BY <1>1, <1>2, <1>3, <1>4, <2>1, RemovedKeeps
<1>5. CASE ~proc.ok /\ proc.lease.slot /\ CanRetain(x)
  <2>1. mem' = [mem EXCEPT ![x] = Absent] /\ proc' = Return(FALSE, NoLease) /\ table' = Retained(x, proc.lease)
    BY <1>5 DEF Discarded, RemoveSessionState
  <2>2. table[x] = NoLease /\ RetainedOK(proc.lease)
    BY <1>3, <1>5 DEF CanRetain, RetainedOK
  <2>3. table' = [table EXCEPT ![x] = proc.lease]
    BY <2>1, <2>2, RetainedFacts
  <2>4. Absent \in Held /\ SessionOK(Absent) /\ Absent.lease = NoLease /\ Absent.at = "absent"
    BY LeaseFacts DEF Absent, Held, SessionOK
  <2>5. PICK c : c = proc'
    OBVIOUS
  <2>6. /\ CallOK(c, clock') /\ WhereOK(c, Absent.at) /\ HandOK(c, Absent.lease, proc.lease) /\ ScriptReady(c)
        /\ c \in CallType /\ c.v = proc.v /\ c.lease = NoLease /\ c.pc # "leasing"
    BY <1>1, <2>1, <2>4, <2>5, DiscardReturnFacts
  <2>7. Absent.lease = mem[x].lease
    BY <1>1, <2>4, DiscardNow
  <2> QED
    BY <1>1, <1>2, <2>1, <2>2, <2>3, <2>4, <2>5, <2>6, <2>7, DiscardNow, RetainGoesOn
<1>6. CASE ~proc.ok /\ ~(proc.lease.slot /\ CanRetain(x)) /\ OwnerHeld(x)
  <2> DEFINE h == [mem[x] EXCEPT !.lease = proc.lease]
  <2>1. mem' = [mem EXCEPT ![x] = h] /\ proc' = Return(FALSE, NoLease) /\ UNCHANGED table
    BY <1>1, <1>6, DiscardNow DEF Discarded
  <2>2. h \in Held /\ h.lease = proc.lease /\ h.at = mem[x].at /\ mem[x].at \in {"resident", "hibernated"}
    BY <1>1, <1>6, DiscardNow DEF Held, OwnerHeld
  <2> HIDE DEF h
  <2>3. SessionOK(h)
    BY <1>3, <1>6, <2>2 DEF SessionOK, Waiting
  <2>4. PICK c : c = proc'
    OBVIOUS
  <2>5. /\ CallOK(c, clock') /\ WhereOK(c, h.at) /\ HandOK(c, h.lease, table[x]) /\ ScriptReady(c)
        /\ c \in CallType /\ c.v = proc.v /\ c.lease = NoLease /\ c.pc # "leasing"
    <3>1. proc.then # "cancelled"
      BY <1>1, <2>2, DiscardNow
    <3> QED
      BY <1>1, <2>1, <2>4, <3>1, DiscardReturnFacts
  <2>6. x \in Sessions /\ table[x] \in Lease /\ RetainedOK(table[x]) /\ table' = [table EXCEPT ![x] = table[x]]
    BY <2>1, Now
  <2>7. /\ OneOf(mem[x].lease, h.lease, table[x], c.lease) /\ OneOf(table[x], h.lease, table[x], c.lease)
        /\ OneOf(proc.lease, h.lease, table[x], c.lease)
    BY <1>1, <2>2, DiscardNow, LeaseFacts DEF OneOf, Intent
  <2>8. Num(h.lease) + Num(table[x]) + Num(c.lease) <= Num(mem[x].lease) + Num(table[x]) + Num(proc.lease)
    BY <1>1, <2>2, <2>5, DiscardNow, LeaseFacts DEF Num
  <2>9. Turn(x, h, table[x], c)
    BY <2>3, <2>5, <2>6, <2>7, <2>8 DEF Turn
  <2> QED
    BY <1>1, <1>2, <2>1, <2>2, <2>4, <2>5, <2>6, <2>9, DiscardNow, TurnKeeps
<1>7. CASE ~proc.ok /\ ~(proc.lease.slot /\ CanRetain(x)) /\ ~OwnerHeld(x)
  <2>1. proc' = [proc EXCEPT !.pc = "panic"] /\ UNCHANGED <<mem, table>>
    BY <1>7 DEF Discarded
  <2>2. PICK c : c = proc'
    OBVIOUS
  <2>3. /\ c \in CallType /\ c.pc = "panic" /\ c.lease = proc.lease /\ c.v = x /\ c.io = <<>>
        /\ ~c.ok
    <3>1. "panic" \in Pcs
      BY DEF Pcs
    <3> QED
      BY <1>1, <1>7, <2>1, <2>2, <3>1, DiscardNow DEF CallType
  <2>4. ScriptReady(c)
    BY <2>3, NoScriptReady
  <2>5. CallOK(c, clock') /\ WhereOK(c, mem[x].at)
    BY <2>3 DEF CallOK, WhereOK
  <2>6. HandOK(c, mem[x].lease, table[x])
    BY <1>1, <1>3, <1>7, <2>3, DiscardNow DEF HandOK
  <2> QED
    BY <1>1, <1>2, <2>1, <2>2, <2>3, <2>4, <2>5, <2>6, DiscardNow, StayKeeps
<1> QED
  BY <1>4, <1>5, <1>6, <1>7

-----------------------------------------------------------------------------
(* A file operation fails *)

LEMMA IoFailsKeeps ==
  ASSUME SessionInv, ~Starting, IoFails
  PROVE  SessionInv'
<1> DEFINE x == proc.v
<1>1. proc.io # <<>> /\ UNCHANGED <<mem, table, clock, disk, durable>>
  BY DEF IoFails
<1>2. CountTypes'
  <2>1. failures' = failures \/ (failures < MaxFailures /\ failures' = failures + 1)
    BY DEF IoFails
  <2>2. failures' \in 0 .. MaxFailures
    BY <2>1, Now, StoreAssumption DEF CountTypes
  <2> QED
    BY <2>2, Now DEF IoFails, CountTypes, history_vars
<1>3. PICK c : c = proc'
  OBVIOUS
<1>4. /\ c \in CallType /\ c.pc = proc.pc /\ c.lease = proc.lease /\ c.v = x /\ c.s = proc.s /\ c.io = <<>>
      /\ ~c.ok /\ c.top = proc.top /\ c.then = proc.then
  <2>1. <<>> \in Seq(Step) /\ proc \in CallType
    BY Now
  <2> QED
    BY <1>3, <2>1 DEF IoFails, CallType
<1>5. CallOK(c, clock') /\ WhereOK(c, mem[x].at)
  BY <1>1, <1>4, Now DEF CallOK, WhereOK
<1>6. HandOK(c, mem[x].lease, table[x])
  <2>1. proc.pc \notin QuietPcs \cup LeaseThens \cup {"discard", "panic"}
    BY <1>1, Now DEF CallOK
  <2> QED
    BY <1>1, <1>4, <2>1, Now DEF HandOK
<1>7. ScriptReady(c)
  <2>1. Legal(disk, c.v, c.lease, c.io) /\ Leaseless(c.io) /\ Len(c.io) = 0
    BY <1>4, EmptyFacts
  <2>2. EndOK(c)
    BY <1>4, <2>1, Now DEF EndOK
  <2>3. LeasingOK(disk, c)
    <3>1. LeasingOK(disk, proc)
      BY DEF SessionInv, ControlInv
    <3> QED
      BY <1>4, <2>1, <3>1 DEF LeasingOK
  <2>4. c.pc \notin StartPcs
    BY <1>4 DEF Starting
  <2> QED
    BY <2>1, <2>2, <2>3, <2>4 DEF ScriptReady
<1>8. c.pc = "leasing" /\ c.lease = NoLease => Slots(mem, table, proc.lease) < RecoveryLimit
  BY <1>1, <1>4 DEF SessionInv, SlotInv
<1>9. x \in Sessions /\ mem[x] \in Held /\ SessionOK(mem[x]) /\ mem = [mem EXCEPT ![x] = mem[x]]
  BY Now
<1> QED
  BY <1>1, <1>2, <1>3, <1>4, <1>5, <1>6, <1>7, <1>8, <1>9, StayKeeps

-----------------------------------------------------------------------------
(* A file operation succeeds *)

LEMMA HeadFacts ==
  ASSUME NEW io \in Seq(Step), io # <<>>
  PROVE  /\ Len(io) \in Nat /\ Len(io) >= 1 /\ 1 \in 1 .. Len(io)
         /\ Head(io) = io[1] /\ Head(io) \in Step
         /\ Tail(io) \in Seq(Step) /\ Len(Tail(io)) = Len(io) - 1
         /\ \A i \in 1 .. Len(Tail(io)) : i + 1 \in 1 .. Len(io) /\ Tail(io)[i] = io[i + 1]
         /\ Len(io) = 1 => Tail(io) = <<>>
<1>1. Len(io) \in Nat /\ Len(io) >= 1
  BY LenProperties, EmptySeq
<1>2. Tail(io) \in Seq(Step) /\ Len(Tail(io)) = Len(io) - 1 /\ \A i \in 1 .. Len(Tail(io)) : Tail(io)[i] = io[i + 1]
  BY <1>1, HeadTailProperties
<1>3. Head(io) = io[1] /\ Head(io) \in Step
  BY <1>1, HeadTailProperties
<1> QED
  BY <1>1, <1>2, <1>3, EmptySeq

\* The lease that a script leaves does not change as it runs.
LEMMA FinalTail ==
  ASSUME NEW io \in Seq(Step), io # <<>>, NEW l
  PROVE  FinalLease(io[1].lease, Tail(io)) = FinalLease(l, io)
<1>1. CASE Tail(io) = <<>>
  <2>1. Len(io) = 1
    <3>1. PICK b \in Seq(Step) : b = Tail(io) /\ Len(b) = Len(io) - 1 /\ Len(io) \in Nat
      BY HeadFacts
    <3>2. b = <<>>
      BY <1>1, <3>1
    <3>3. Len(b) = 0
      BY <3>2
    <3> QED
      BY <3>1, <3>3
  <2> QED
    BY <1>1, <2>1 DEF FinalLease
<1>2. CASE Tail(io) # <<>>
  <2>1. Tail(io) \in Seq(Step) /\ Len(Tail(io)) = Len(io) - 1 /\ Len(io) \in Nat
    BY HeadFacts
  <2>2. Len(Tail(io)) >= 1
    BY <1>2, <2>1, HeadFacts
  <2>3. Tail(io)[Len(Tail(io))] = io[Len(Tail(io)) + 1] /\ Len(Tail(io)) + 1 = Len(io)
    BY <2>1, <2>2, HeadFacts
  <2> QED
    BY <1>2, <2>3 DEF FinalLease
<1> QED
  BY <1>1, <1>2

LEMMA DropFacts ==
  ASSUME NEW ns \in Namespace, IsFiniteSet(ns.files), NEW s, NEW path
  PROVE  /\ Drop(ns, s, path) \in Namespace /\ IsFiniteSet(Drop(ns, s, path).files)
         /\ Drop(ns, s, path).files = ns.files \ At(ns, s, path) /\ Drop(ns, s, path).blobs = ns.blobs
         /\ ~Exists(Drop(ns, s, path), s, path)
<1>1. /\ Drop(ns, s, path) \in Namespace
      /\ Drop(ns, s, path).files = ns.files \ At(ns, s, path) /\ Drop(ns, s, path).blobs = ns.blobs
  BY DEF Drop, Namespace
<1>2. IsFiniteSet(ns.files \ At(ns, s, path))
  BY FS_Subset
<1>3. ~Exists(Drop(ns, s, path), s, path)
  BY <1>1 DEF Exists, At
<1> QED
  BY <1>1, <1>2, <1>3

LEMMA PutFacts ==
  ASSUME NEW ns \in Namespace, IsFiniteSet(ns.files), NEW s \in Sessions, NEW path \in Paths,
         path.intent # "Blob", NEW used \in 0 .. MaxClock
  PROVE  /\ Put(ns, s, path, used) \in Namespace /\ IsFiniteSet(Put(ns, s, path, used).files)
         /\ Put(ns, s, path, used).files = (ns.files \ At(ns, s, path)) \cup {Written(s, path, used)}
         /\ Put(ns, s, path, used).blobs = ns.blobs
         /\ Written(s, path, used).session = s /\ Written(s, path, used).nonce = path.nonce
         /\ Written(s, path, used).intent = path.intent /\ Written(s, path, used).last_used = used
<1>1. /\ Put(ns, s, path, used).files = (ns.files \ At(ns, s, path)) \cup {Written(s, path, used)}
      /\ Put(ns, s, path, used).blobs = ns.blobs
  BY DEF Put, Namespace
<1>2. Written(s, path, used) \in StoredFile
  BY DEF Written, StoredFile, Paths
<1>3. IsFiniteSet((ns.files \ At(ns, s, path)) \cup {Written(s, path, used)})
  BY FS_Subset, FS_AddElement
<1>4. Put(ns, s, path, used) \in Namespace
  BY <1>2 DEF Put, Namespace
<1> QED
  BY <1>1, <1>3, <1>4 DEF Written

\* The files after an operation of this session.
LEMMA EffectFacts ==
  ASSUME SessionInv, NEW step \in Step, step.op # "refuse", step.op = "move" => step.to.intent # "Blob"
  PROVE  LET ns == Effect(step)
         IN  /\ ns \in Namespace /\ IsFiniteSet(ns.files)
             /\ step.op = "sync" => ns = disk
             /\ step.op = "link" => ns.files = disk.files /\ ns.blobs = disk.blobs \cup {<<proc.v, step.last_used>>}
             /\ step.op = "remove" => ns = Drop(disk, proc.v, step.path)
             /\ step.op = "publish" => ns = Put(disk, proc.v, Reference, step.last_used)
             /\ step.op = "move" => ns = Put(Drop(disk, proc.v, step.path), proc.v, step.to,
                                             LastUsed(disk, proc.v, step.path))
<1>1. /\ disk \in Namespace /\ IsFiniteSet(disk.files) /\ proc.v \in Sessions
      /\ step.path \in Paths /\ step.to \in Paths /\ step.last_used \in 0 .. MaxClock
      /\ step.op \in {"move", "remove", "sync", "link", "publish"}
  BY Now, DiskFacts DEF Step
<1>2. CASE step.op = "sync"
  BY <1>1, <1>2 DEF Effect
<1>3. CASE step.op = "link"
  <2>1. Effect(step) = [disk EXCEPT !.blobs = @ \cup {<<proc.v, step.last_used>>}]
    BY <1>3 DEF Effect
  <2>2. step.last_used \in Nat
    BY <1>1, StoreAssumption
  <2> QED
    BY <1>1, <1>3, <2>1, <2>2 DEF Namespace
<1>4. CASE step.op = "remove"
  BY <1>1, <1>4, DropFacts DEF Effect
<1>5. CASE step.op = "publish"
  BY <1>1, <1>5, PutFacts, PathFacts DEF Effect
<1>6. CASE step.op = "move"
  <2>1. PICK ns \in Namespace : ns = Drop(disk, proc.v, step.path) /\ IsFiniteSet(ns.files)
    BY <1>1, DropFacts
  <2>2. LastUsed(disk, proc.v, step.path) \in 0 .. MaxClock
    BY <1>1, LastUsedFacts
  <2>3. Effect(step) = Put(ns, proc.v, step.to, LastUsed(disk, proc.v, step.path))
    BY <1>6, <2>1 DEF Effect
  <2> QED
    BY <1>1, <1>6, <2>1, <2>2, <2>3, PutFacts
<1> QED
  BY <1>1, <1>2, <1>3, <1>4, <1>5, <1>6

\* A script stays legal as it runs.
LEMMA LegalTail ==
  ASSUME NEW ns, NEW ns2, NEW s, NEW l, NEW io \in Seq(Step), io # <<>>, Legal(ns, s, l, io),
         io[1].op = "remove" => ~Exists(ns2, s, io[1].path)
  PROVE  Legal(ns2, s, io[1].lease, Tail(io))
<1>1. /\ Len(io) \in Nat /\ Len(io) >= 1
      /\ Tail(io) \in Seq(Step) /\ Len(Tail(io)) = Len(io) - 1
      /\ \A i \in 1 .. Len(Tail(io)) : i + 1 \in 1 .. Len(io) /\ Tail(io)[i] = io[i + 1]
  BY HeadFacts
<1>2. PICK b : b = Tail(io)
  OBVIOUS
<1>3. PICK m : m = io[1].lease
  OBVIOUS
<1> SUFFICES ASSUME NEW i \in 1 .. Len(b)
             PROVE  LegalStep(ns2, s, m, b, i)
  BY <1>2, <1>3 DEF Legal
<1>4. LegalStep(ns, s, l, io, i + 1) /\ b[i] = io[i + 1] /\ i \in Nat /\ i >= 1 /\ i + 1 # 1 /\ (i + 1) - 1 = i
  BY <1>1, <1>2 DEF Legal
<1>5. Before(m, b, i) = Before(l, io, i + 1)
  <2>1. CASE i = 1
    BY <1>3, <1>4, <2>1 DEF Before
  <2>2. CASE i # 1
    <3>1. i - 1 \in 1 .. Len(b) /\ (i - 1) + 1 = i
      BY <1>1, <1>2, <1>4, <2>2
    <3>2. b[i - 1] = io[(i - 1) + 1]
      BY <1>1, <1>2, <3>1
    <3>3. b[i - 1] = io[i]
      BY <3>1, <3>2
    <3> QED
      BY <1>4, <2>2, <3>3 DEF Before
  <2> QED
    BY <2>1, <2>2
<1>6. EndsLease(ns, s, l, io, i + 1) => EndsLease(ns2, s, m, b, i)
  <2> SUFFICES ASSUME EndsLease(ns, s, l, io, i + 1)
               PROVE  EndsLease(ns2, s, m, b, i)
    OBVIOUS
  <2>1. /\ io[i + 1].op = "sync" /\ i + 1 = Len(io) /\ io[i + 1].lease.state = "Removed" /\ ~io[i + 1].lease.slot
        /\ io[i].op = "remove" /\ io[i].path = PlaceOf(Before(l, io, i + 1))
    BY <1>4 DEF EndsLease
  <2>2. i = Len(b)
    BY <1>1, <1>2, <1>4, <2>1
  <2>3. CASE i = 1
    <3>1. Before(l, io, i + 1) = m
      BY <1>5, <2>3 DEF Before
    <3>2. ~Exists(ns2, s, PlaceOf(m))
      BY <2>1, <2>3, <3>1
    <3> QED
      BY <1>4, <2>1, <2>2, <2>3, <3>2 DEF EndsLease
  <2>4. CASE i # 1
    <3>1. i - 1 \in 1 .. Len(b) /\ (i - 1) + 1 = i
      BY <1>1, <1>2, <1>4, <2>4
    <3>2. b[i - 1] = io[(i - 1) + 1]
      BY <1>1, <1>2, <3>1
    <3>3. b[i - 1].op = "remove" /\ b[i - 1].path = PlaceOf(Before(m, b, i))
      BY <1>5, <2>1, <3>1, <3>2
    <3> QED
      BY <1>4, <2>1, <2>2, <2>4, <3>3 DEF EndsLease
  <2> QED
    BY <2>3, <2>4
<1> QED
  BY <1>4, <1>5, <1>6 DEF LegalStep

\* What the next step of a script does to the lease in hand.
Sames(l, step) == step.op \in {"sync", "remove", "link", "publish"} /\ SameLease(l, step.lease)
Ends(l, step, io) ==
  /\ step.op = "sync" /\ Len(io) = 1 /\ step.lease.state = "Removed" /\ ~step.lease.slot /\ ~step.lease.discard
  /\ ~Exists(disk, proc.v, PlaceOf(l))

LEMMA StepKinds ==
  ASSUME SessionInv, ~Starting, proc.io # <<>>, NEW step, step = Head(proc.io), CanDo(step)
  PROVE  /\ step \in Step /\ step = proc.io[1] /\ proc.ok /\ Waiting(proc.lease)
         /\ step.op # "refuse" /\ (step.op = "move" => step.to.intent # "Blob")
         /\ Sames(proc.lease, step) \/ MovesLease(proc.lease, step) \/ Ends(proc.lease, step, proc.io)
         /\ proc.lease = NoLease /\ proc.pc # "leasing" => step.lease = NoLease /\ Leaseless(proc.io)
         /\ proc.lease = NoLease /\ proc.pc = "leasing" =>
              /\ MovesLease(proc.lease, step) /\ step.path = Reference /\ step.to.intent = "Restore"
         /\ MovesLease(proc.lease, step) /\ proc.lease = NoLease => proc.pc = "leasing"
<1>1. proc.io \in Seq(Step) /\ proc.lease \in Lease
  BY Now DEF CallType
<1>2. step = proc.io[1] /\ step \in Step /\ 1 \in 1 .. Len(proc.io)
  BY <1>1, HeadFacts
<1>3. proc.ok /\ Waiting(proc.lease)
  BY Now DEF CallOK, HandOK
<1>4. step.op # "refuse"
  BY DEF CanDo
<1>5. Legal(disk, proc.v, proc.lease, proc.io)
  BY DEF SessionInv, ScriptInv
<1>6. LegalStep(disk, proc.v, proc.lease, proc.io, 1) /\ Before(proc.lease, proc.io, 1) = proc.lease
  BY <1>2, <1>5 DEF Legal, Before
<1>7. Sames(proc.lease, step) \/ MovesLease(proc.lease, step) \/ Ends(proc.lease, step, proc.io)
  BY <1>2, <1>4, <1>6 DEF LegalStep, Sames, Ends, EndsLease
<1>8. proc.lease = NoLease /\ proc.pc # "leasing" => step.lease = NoLease /\ Leaseless(proc.io)
  BY <1>2 DEF SessionInv, ScriptInv, Leaseless
<1>9. proc.lease = NoLease /\ proc.pc = "leasing" => step.op = "move" /\ step.path = Reference /\ step.to.intent = "Restore"
  BY <1>2 DEF SessionInv, ControlInv, LeasingOK
<1>10. MovesLease(proc.lease, step) => step.op = "move" /\ step.to.intent # "Blob" /\ step.lease # NoLease
  <2> SUFFICES ASSUME MovesLease(proc.lease, step)
               PROVE  step.op = "move" /\ step.to.intent # "Blob" /\ step.lease # NoLease
    OBVIOUS
  <2>1. /\ step.op = "move" /\ step.to = PlaceOf(step.lease)
        /\ step.lease.state \in {"Restore", "Active", "Superseded", "Discard"}
    BY DEF MovesLease
  <2>2. PlaceOf(step.lease).intent # "Blob"
    BY <2>1 DEF PlaceOf, Reference, Quarantine
  <2> QED
    BY <2>1, <2>2, LeaseFacts
<1>11. Sames(proc.lease, step) \/ Ends(proc.lease, step, proc.io) => step.op # "move"
  BY DEF Sames, Ends
<1> QED
  BY <1>2, <1>3, <1>4, <1>7, <1>8, <1>9, <1>10, <1>11

LEMMA IoSucceedsTypes ==
  ASSUME SessionInv, IoSucceeds, NEW step \in Step, step = Head(proc.io), step.op # "refuse",
         step.op = "move" => step.to.intent # "Blob"
  PROVE  /\ TypeInv' /\ disk' = Effect(step) /\ disk' \in Namespace /\ IsFiniteSet(disk'.files)
         /\ proc'.pc = proc.pc /\ proc'.top = proc.top /\ proc'.then = proc.then /\ proc'.s = proc.s
         /\ proc'.v = proc.v /\ proc'.ok = proc.ok /\ proc'.lease = step.lease /\ proc'.io = Tail(proc.io)
         /\ UNCHANGED <<mem, table, clock>> /\ CountTypes'
<1>1. proc.io # <<>> /\ proc.io \in Seq(Step) /\ proc \in CallType
  BY Now DEF IoSucceeds, CallType
<1>2. /\ disk' = Effect(step) /\ proc' = [proc EXCEPT !.io = Tail(@), !.lease = step.lease]
      /\ durable' = IF step.op = "sync" THEN SyncDirectory(step.path) ELSE durable \cup {disk'}
      /\ UNCHANGED <<mem, table, persisted, clock, failures, crashes, kept, discarded>>
  BY DEF IoSucceeds, history_vars
<1>3. disk' \in Namespace /\ IsFiniteSet(disk'.files) /\ (step.op = "sync" => disk' = disk)
  BY <1>2, EffectFacts
<1>4. Tail(proc.io) \in Seq(Step) /\ step.lease \in Lease
  BY <1>1, HeadFacts DEF Step
<1>5. /\ proc' \in CallType
      /\ proc'.pc = proc.pc /\ proc'.top = proc.top /\ proc'.then = proc.then /\ proc'.s = proc.s
      /\ proc'.v = proc.v /\ proc'.ok = proc.ok /\ proc'.lease = step.lease /\ proc'.io = Tail(proc.io)
  BY <1>1, <1>2, <1>4 DEF CallType
<1>6. /\ disk' \in durable' /\ durable' \subseteq Namespace /\ IsFiniteSet(durable')
      /\ \A ns \in durable' : IsFiniteSet(ns.files)
  <2>1. disk \in durable /\ durable \subseteq Namespace /\ IsFiniteSet(durable) /\ \A ns \in durable : IsFiniteSet(ns.files)
    BY DEF SessionInv, TypeInv
  <2>2. CASE step.op = "sync"
    <3>1. durable' \subseteq durable /\ disk' \in durable'
      BY <1>2, <1>3, <2>1, <2>2 DEF SyncDirectory
    <3> QED
      BY <2>1, <3>1, FS_Subset
  <2>3. CASE step.op # "sync"
    <3>1. durable' = durable \cup {disk'}
      BY <1>2, <2>3
    <3>2. IsFiniteSet(durable')
      BY <2>1, <3>1, FS_AddElement
    <3> QED
      BY <1>3, <2>1, <3>1, <3>2
  <2> QED
    BY <2>2, <2>3
<1>7. CountTypes'
  BY <1>2, Now DEF CountTypes
<1>8. TypeInv'
  BY <1>2, <1>5, <1>6, <1>7, Now DEF TypeInv, CountTypes
<1> QED
  BY <1>2, <1>3, <1>5, <1>7, <1>8

\* The lease in hand after the next step of a script.
LeaseTurns(l, n, pc) ==
  \/ l = NoLease /\ n = NoLease /\ pc # "leasing"
  \/ LiveLease(l) /\ SameLease(l, n)
  \/ LiveLease(l) /\ n.state = "Removed" /\ ~n.slot /\ ~n.discard
  \/ /\ l = NoLease /\ pc = "leasing" /\ n.state = "Restore" /\ n.slot /\ ~n.discard
  \/ /\ LiveLease(l) /\ LiveLease(n) /\ n.slot = l.slot /\ n.discard = l.discard
     /\ n.state = "Discard" => l.discard

LEMMA LeaseTurnsHand ==
  ASSUME NEW c \in CallType, NEW d \in CallType, NEW waits, NEW retained,
         HandOK(c, waits, retained), LeaseTurns(c.lease, d.lease, c.pc), c.ok,
         d.lease.state = "Removed" => d.io = <<>>,
         d.pc = c.pc, d.then = c.then, d.ok = c.ok,
         c.pc \notin QuietPcs \cup LeaseThens \cup {"discard", "panic"} \cup StartPcs
  PROVE  HandOK(d, waits, retained)
<1>1. c.lease \in Lease /\ d.lease \in Lease
  BY DEF CallType
<1>2. PICK l \in Lease, n \in Lease : l = c.lease /\ n = d.lease
  BY <1>1
<1>3. /\ Waiting(n) \/ (n.state = "Removed" /\ ~n.discard)
      /\ LiveLease(n) => \/ LiveLease(l) /\ n.slot = l.slot /\ n.discard = l.discard
                            /\ (DiscardPending(n) => DiscardPending(l))
                         \/ l = NoLease /\ n.slot /\ ~DiscardPending(n) /\ c.pc = "leasing"
      /\ ~LiveLease(n) => n = NoLease \/ ~n.slot
      /\ l = NoLease /\ c.pc # "leasing" => n = NoLease
  BY <1>2, LeaseFacts DEF LeaseTurns, SameLease, LiveLease, Waiting, DiscardPending
<1>4. ~LiveLease(NoLease) /\ ~NoLease.slot /\ Waiting(NoLease)
  BY LeaseFacts
<1> QED
  BY <1>2, <1>3, <1>4 DEF HandOK

LEMMA LeaseTurnsSlots ==
  ASSUME SessionInv, NEW n \in Lease, LeaseTurns(proc.lease, n, proc.pc), proc.io # <<>>
  PROVE  Slots(mem, table, n) <= RecoveryLimit
<1> DEFINE A == {s \in Sessions : mem[s].lease.slot}
           B == {s \in Sessions : table[s].slot}
<1>1. Cardinality(A) \in Nat /\ Cardinality(B) \in Nat
  <2>1. IsFiniteSet(A) /\ IsFiniteSet(B)
    BY StoreAssumption, FS_Subset
  <2> QED
    BY <2>1, FS_CardinalityType
<1>2. PICK a \in Nat, b \in Nat : a = Cardinality(A) /\ b = Cardinality(B)
  BY <1>1
<1>3. \A l : Slots(mem, table, l) = a + b + Num(l)
  BY <1>2 DEF Slots, Num
<1>4. proc.lease \in Lease /\ RecoveryLimit \in Nat
  BY Now, StoreAssumption DEF RecoveryLimit
<1>5. /\ a + b + Num(proc.lease) <= RecoveryLimit
      /\ proc.pc = "leasing" /\ proc.lease = NoLease => a + b + Num(proc.lease) < RecoveryLimit
  BY <1>3 DEF SessionInv, SlotInv
<1>6. /\ Num(n) \in 0 .. 1 /\ Num(proc.lease) \in 0 .. 1
      /\ Num(n) <= Num(proc.lease) \/ (proc.pc = "leasing" /\ proc.lease = NoLease)
  BY <1>4, LeaseFacts DEF Num, LeaseTurns, SameLease
<1>7. a + b + Num(n) <= RecoveryLimit
  BY <1>4, <1>5, <1>6
<1> QED
  BY <1>3, <1>7

\* Quarantined files that an operation of the script leaves.
LEMMA StepFiles ==
  ASSUME SessionInv, NEW step \in Step, step.op # "refuse", step.op = "move" => step.to.intent # "Blob",
         NEW f \in Effect(step).files, f.intent # "Active"
  PROVE  \/ f \in disk.files /\ (step.op = "move" => f \notin At(disk, proc.v, step.path))
         \/ step.op = "move" /\ f.session = proc.v /\ f.nonce = step.to.nonce /\ f.intent = step.to.intent
<1>1. /\ disk \in Namespace /\ IsFiniteSet(disk.files) /\ proc.v \in Sessions
      /\ step.path \in Paths /\ step.to \in Paths /\ step.last_used \in 0 .. MaxClock
      /\ step.op \in {"move", "remove", "sync", "link", "publish"}
  BY Now, DiskFacts DEF Step
<1>2. CASE step.op \in {"sync", "link"}
  BY <1>2, EffectFacts
<1>3. CASE step.op = "remove"
  BY <1>1, <1>3, EffectFacts, DropFacts
<1>4. CASE step.op = "publish"
  <2>1. Effect(step).files = (disk.files \ At(disk, proc.v, Reference)) \cup {Written(proc.v, Reference, step.last_used)}
    BY <1>1, <1>4, EffectFacts, PutFacts, PathFacts
  <2>2. Written(proc.v, Reference, step.last_used).intent = "Active"
    BY PathFacts DEF Written
  <2> QED
    BY <1>4, <2>1, <2>2
<1>5. CASE step.op = "move"
  <2>1. PICK ns \in Namespace : ns = Drop(disk, proc.v, step.path) /\ IsFiniteSet(ns.files)
                                 /\ ns.files = disk.files \ At(disk, proc.v, step.path)
    BY <1>1, DropFacts
  <2>2. PICK u \in 0 .. MaxClock : u = LastUsed(disk, proc.v, step.path)
    BY <1>1, LastUsedFacts
  <2>3. Effect(step) = Put(ns, proc.v, step.to, u)
    BY <1>5, <2>1, <2>2, EffectFacts
  <2>a. step.to.intent # "Blob"
    BY <1>5
  <2>4. Effect(step).files = (ns.files \ At(ns, proc.v, step.to)) \cup {Written(proc.v, step.to, u)}
    <3>1. PICK v \in Sessions : v = proc.v
      BY <1>1
    <3>2. PICK to \in Paths : to = step.to /\ to.intent # "Blob"
      BY <1>1, <2>a
    <3>3. IsFiniteSet(ns.files)
      BY <2>1
    <3>4. Put(ns, v, to, u).files = (ns.files \ At(ns, v, to)) \cup {Written(v, to, u)}
      BY <3>2, <3>3, PutFacts
    <3> QED
      BY <2>3, <3>1, <3>2, <3>4
  <2> QED
    BY <1>5, <2>1, <2>4 DEF Written
<1> QED
  BY <1>1, <1>2, <1>3, <1>4, <1>5

LEMMA IoSucceedsKeeps ==
  ASSUME SessionInv, ~Starting, IoSucceeds
  PROVE  SessionInv'
<1> DEFINE x == proc.v
           l == proc.lease
           io == proc.io
<1>1. io # <<>> /\ io \in Seq(Step) /\ l \in Lease /\ x \in Sessions
  BY Now DEF IoSucceeds, CallType
<1>2. PICK step : step = Head(io) /\ CanDo(step)
  BY DEF IoSucceeds
<1>3. /\ step \in Step /\ step = io[1] /\ proc.ok /\ Waiting(l)
      /\ step.op # "refuse" /\ (step.op = "move" => step.to.intent # "Blob")
      /\ Sames(l, step) \/ MovesLease(l, step) \/ Ends(l, step, io)
      /\ l = NoLease /\ proc.pc # "leasing" => step.lease = NoLease /\ Leaseless(io)
      /\ l = NoLease /\ proc.pc = "leasing" =>
           /\ MovesLease(l, step) /\ step.path = Reference /\ step.to.intent = "Restore"
      /\ MovesLease(l, step) /\ l = NoLease => proc.pc = "leasing"
  BY <1>1, <1>2, StepKinds
<1>4. PICK c : c = proc'
  OBVIOUS
<1>5. /\ TypeInv' /\ disk' = Effect(step) /\ disk' \in Namespace /\ IsFiniteSet(disk'.files)
      /\ c.pc = proc.pc /\ c.top = proc.top /\ c.then = proc.then /\ c.s = proc.s
      /\ c.v = x /\ c.ok = proc.ok /\ c.lease = step.lease /\ c.io = Tail(io)
      /\ UNCHANGED <<mem, table, clock>> /\ CountTypes'
  BY <1>2, <1>3, <1>4, IoSucceedsTypes
<1>6. step.lease \in Lease /\ c \in CallType
  BY <1>3, <1>4, <1>5 DEF Step, TypeInv
<1>7. proc.pc \notin QuietPcs \cup LeaseThens \cup {"discard", "panic"} \cup StartPcs
  BY <1>1, Now DEF CallOK, Starting
<1>8. Len(io) = 1 => c.io = <<>>
  BY <1>1, <1>5, HeadFacts
<1>t. /\ c.io \in Seq(Step) /\ Len(c.io) \in Nat
      /\ \A i \in 1 .. Len(c.io) : i + 1 \in 1 .. Len(io) /\ c.io[i] = io[i + 1] /\ i + 1 > 1
      /\ 1 \in 1 .. Len(io)
  BY <1>1, <1>5, HeadFacts
<1> HIDE DEF x, l, io
<1>9. LeaseTurns(l, step.lease, proc.pc) /\ (step.lease.state = "Removed" => c.io = <<>>)
  <2>1. CASE l = NoLease /\ proc.pc # "leasing"
    BY <1>3, <2>1, LeaseFacts DEF LeaseTurns
  <2>2. CASE l = NoLease /\ proc.pc = "leasing"
    BY <1>3, <2>2, LeaseFacts DEF LeaseTurns, MovesLease
  <2>3. CASE LiveLease(l)
    <3>1. CASE Sames(l, step)
      BY <2>3, <3>1 DEF LeaseTurns, Sames, SameLease, LiveLease
    <3>2. CASE Ends(l, step, io)
      BY <1>8, <2>3, <3>2 DEF LeaseTurns, Ends
    <3>3. CASE MovesLease(l, step)
      BY <2>3, <3>3, LeaseFacts DEF LeaseTurns, MovesLease, LiveLease
    <3> QED
      BY <1>3, <3>1, <3>2, <3>3
  <2> QED
    BY <1>3, <2>1, <2>2, <2>3 DEF Waiting
<1>10. CallOK(c, clock') /\ WhereOK(c, mem[x].at)
  BY <1>3, <1>5, <1>7, Now DEF CallOK, WhereOK, x
<1>11. HandOK(c, mem[x].lease, table[x])
  BY <1>3, <1>5, <1>6, <1>7, <1>9, Now, LeaseTurnsHand DEF x, l
<1>12. EndOK(c)
  <2>1. EndOK(proc)
    BY Now
  <2>2. FinalLease(c.lease, c.io) = FinalLease(l, io)
    BY <1>1, <1>3, <1>5, FinalTail
  <2>3. c.pc \in {"resolved", "leasing", "unleasing"} =>
          \A i \in 1 .. Len(io) : io[i].lease.state # "Removed"
    BY <1>5, <2>1 DEF EndOK, io
  <2>4. c.pc \in {"resolved", "leasing", "unleasing"} =>
          /\ c.lease.state # "Removed"
          /\ \A i \in 1 .. Len(c.io) : c.io[i].lease.state # "Removed"
    BY <1>3, <1>5, <1>t, <2>3
  <2> QED
    BY <1>5, <2>1, <2>2, <2>4 DEF EndOK, l, io
<1>13. c.pc = "leasing" => LiveLease(c.lease)
  <2> SUFFICES ASSUME c.pc = "leasing" PROVE LiveLease(c.lease)
    OBVIOUS
  <2>1. c.lease.state # "Removed"
    BY <1>12 DEF EndOK
  <2> QED
    BY <1>5, <1>9, <2>1 DEF LeaseTurns, SameLease, LiveLease
<1>14. LeasingOK(disk', c)
  <2> SUFFICES ASSUME c.pc = "leasing" PROVE LeasingOK(disk', c)
    BY DEF LeasingOK
  <2>1. LeasingOK(disk, proc)
    BY DEF SessionInv, ControlInv
  <2>2. \A i \in 1 .. Len(c.io) : c.io[i].op = "sync"
    BY <1>5, <1>t, <2>1 DEF LeasingOK, io
  <2>3. c.lease.state = "Restore" /\ ~Exists(disk', x, Reference)
    <3>1. CASE LiveLease(l)
      <4>1. step.op = "sync" /\ l.state = "Restore" /\ ~Exists(disk, x, Reference)
        BY <1>3, <1>5, <1>t, <2>1, <3>1 DEF LeasingOK, io, l, x
      <4>2. disk' = disk
        BY <1>3, <1>5, <4>1, EffectFacts
      <4>3. step.lease.state # "Removed"
        BY <1>5, <1>12 DEF EndOK
      <4>4. Sames(l, step)
        BY <1>3, <4>1, <4>3 DEF MovesLease, Ends
      <4> QED
        BY <1>5, <4>1, <4>2, <4>4 DEF Sames, SameLease
    <3>2. CASE l = NoLease
      <4>1. MovesLease(l, step) /\ step.path = Reference /\ step.to.intent = "Restore" /\ step.op = "move"
        BY <1>3, <1>5, <3>2 DEF MovesLease
      <4>2. step.lease.state = "Restore"
        BY <3>2, <4>1, LeaseFacts DEF MovesLease
      <4>3. /\ disk \in Namespace /\ IsFiniteSet(disk.files)
            /\ step.path \in Paths /\ step.to \in Paths
        BY <1>3, Now, DiskFacts DEF Step
      <4>4. PICK ns \in Namespace : ns = Drop(disk, x, Reference) /\ IsFiniteSet(ns.files) /\ ~Exists(ns, x, Reference)
        BY <4>3, DropFacts
      <4>5. PICK u \in 0 .. MaxClock : u = LastUsed(disk, x, Reference)
        BY <4>3, PathFacts, LastUsedFacts
      <4>6. disk' = Put(ns, x, step.to, u)
        BY <1>3, <1>5, <4>1, <4>4, <4>5, EffectFacts DEF x
      <4>7. disk'.files = (ns.files \ At(ns, x, step.to)) \cup {Written(x, step.to, u)}
            /\ Written(x, step.to, u).intent = "Restore"
        BY <1>1, <4>1, <4>3, <4>4, <4>6, PutFacts
      <4>8. ~Exists(disk', x, Reference)
        BY <4>4, <4>7, PathFacts DEF Exists, At
      <4> QED
        BY <1>5, <4>2, <4>8
    <3> QED
      BY <1>3, <3>1, <3>2 DEF Waiting
  <2> QED
    BY <1>5, <1>13, <2>2, <2>3, LeaseFacts DEF LeasingOK
<1>15. ~Starting' /\ c.pc # "load"
  BY <1>4, <1>5, <1>7 DEF Starting
<1>16. ControlInv'
  <2>1. \A s \in Sessions : SessionOK(mem'[s]) /\ RetainedOK(table'[s])
    BY <1>5, Now
  <2> QED
    BY <1>4, <1>5, <1>10, <1>11, <1>12, <1>14, <1>15, <2>1 DEF ControlInv, Starting
<1>17. SlotInv'
  <2>1. Slots(mem, table, c.lease) <= RecoveryLimit
    BY <1>1, <1>5, <1>6, <1>9, LeaseTurnsSlots DEF l, io
  <2>2. ~(c.pc = "leasing" /\ c.lease = NoLease)
    BY <1>13, LeaseFacts
  <2> QED
    BY <1>4, <1>5, <2>1, <2>2 DEF SlotInv
<1>18. ScriptInv'
  <2>1. step.op = "remove" => ~Exists(disk', x, step.path)
    <3> SUFFICES ASSUME step.op = "remove" PROVE ~Exists(disk', x, step.path)
      OBVIOUS
    <3>1. disk' = Drop(disk, x, step.path)
      BY <1>3, <1>5, EffectFacts DEF x
    <3> QED
      BY <3>1, DropFacts, DiskFacts
  <2>2. Legal(disk, x, l, io)
    BY DEF SessionInv, ScriptInv, x, l, io
  <2>3. Legal(disk', x, io[1].lease, Tail(io))
    BY <1>1, <1>3, <2>1, <2>2, LegalTail
  <2>4. c.pc # "leasing" /\ c.lease = NoLease => Leaseless(c.io)
    <3> SUFFICES ASSUME c.pc # "leasing", c.lease = NoLease PROVE Leaseless(c.io)
      OBVIOUS
    <3>1. l = NoLease
      BY <1>5, <1>9, LeaseFacts DEF LeaseTurns, SameLease, LiveLease
    <3>2. Leaseless(io)
      BY <1>3, <1>5, <3>1
    <3> QED
      BY <1>t, <3>2 DEF Leaseless
  <2> QED
    BY <1>3, <1>4, <1>5, <2>3, <2>4 DEF ScriptInv
<1>19. OwnedInv'
  <2> SUFFICES ASSUME NEW f \in disk'.files, f.intent # "Active"
               PROVE  HeldBy(mem, table, c, f.session, f.nonce, f.intent)
    BY <1>4, <1>5 DEF OwnedInv
  <2>0. f.intent \in Intent
    BY <1>5 DEF Namespace, StoredFile
  <2>1. \/ f \in disk.files /\ (step.op = "move" => f \notin At(disk, x, step.path))
        \/ step.op = "move" /\ f.session = x /\ f.nonce = step.to.nonce /\ f.intent = step.to.intent
    BY <1>3, <1>5, StepFiles DEF x
  <2>2. CASE step.op = "move" /\ f.session = x /\ f.nonce = step.to.nonce /\ f.intent = step.to.intent
    <3>1. step.to = PlaceOf(step.lease)
      BY <1>3, <2>2 DEF Sames, Ends, MovesLease
    <3>2. f.nonce = step.lease.nonce /\ f.intent = step.lease.state
      BY <2>2, <3>1 DEF PlaceOf, Reference, Quarantine
    <3> QED
      BY <1>5, <2>2, <3>2 DEF HeldBy
  <2>3. CASE f \in disk.files /\ (step.op = "move" => f \notin At(disk, x, step.path))
    <3>1. HeldBy(mem, table, proc, f.session, f.nonce, f.intent)
      BY <2>3 DEF SessionInv, OwnedInv
    <3>2. CASE f.session = x /\ l.nonce = f.nonce /\ l.state = f.intent
      <4>1. LiveLease(l) /\ PlaceOf(l).nonce = f.nonce /\ PlaceOf(l).intent = f.intent
        BY <2>0, <3>2 DEF LiveLease, Intent, PlaceOf, Quarantine
      <4>2. f \in At(disk, x, PlaceOf(l))
        BY <2>3, <3>2, <4>1 DEF At
      <4>3. CASE Sames(l, step)
        BY <1>5, <3>2, <4>3 DEF Sames, SameLease, HeldBy
      <4>4. ~Ends(l, step, io)
        BY <4>2 DEF Ends, Exists, x
      <4>5. ~MovesLease(l, step)
        BY <2>3, <4>1, <4>2, LeaseFacts DEF MovesLease
      <4> QED
        BY <1>3, <4>3, <4>4, <4>5
    <3>3. CASE ~(f.session = x /\ l.nonce = f.nonce /\ l.state = f.intent)
      BY <1>5, <3>1, <3>3 DEF HeldBy, x, l
    <3> QED
      BY <3>2, <3>3
  <2> QED
    BY <2>1, <2>2, <2>3
<1> QED
  BY <1>5, <1>16, <1>17, <1>18, <1>19 DEF SessionInv

-----------------------------------------------------------------------------
(* A start: recover the quarantine, then load *)

\* Nothing in memory uses a slot.
LEMMA NoSlots ==
  Slots([s \in Sessions |-> Absent], [s \in Sessions |-> NoLease], NoLease) = 0
<1>1. PICK m, t : m = [s \in Sessions |-> Absent] /\ t = [s \in Sessions |-> NoLease]
  OBVIOUS
<1>2. {s \in Sessions : m[s].lease.slot} = {}
  BY <1>1, LeaseFacts DEF Absent
<1>3. {s \in Sessions : t[s].slot} = {}
  BY <1>1, LeaseFacts
<1>4. Slots(m, t, NoLease) = Cardinality({}) + Cardinality({}) + (IF NoLease.slot THEN 1 ELSE 0)
  BY <1>2, <1>3 DEF Slots
<1> QED
  BY <1>1, <1>4, LeaseFacts, FS_EmptySet

LEMMA AbsentFacts ==
  /\ [s \in Sessions |-> Absent] \in [Sessions -> Held] /\ Absent \in Held
  /\ [s \in Sessions |-> NoLease] \in [Sessions -> Lease]
  /\ SessionOK(Absent) /\ RetainedOK(NoLease) /\ Absent.at = "absent" /\ Absent.lease = NoLease
BY LeaseFacts DEF Absent, Held, SessionOK, RetainedOK

\* The steps of a start.
StartScript(io) == io \in Seq(Step) /\ Leaseless(io) /\ MovesToRefs(io)

LEMMA StartKeeps ==
  ASSUME TypeInv', NEW c \in CallType, c = proc', c.pc \in StartPcs, c.lease = NoLease,
         mem' = [s \in Sessions |-> Absent], table' = [s \in Sessions |-> NoLease],
         StartScript(c.io), ~c.ok => c.io = <<>>,
         c.pc = "load" => /\ \A f \in disk'.files : f.intent = "Active"
                          /\ \A i \in 1 .. Len(c.io) : c.io[i].op = "sync"
  PROVE  SessionInv'
<1>1. c.v \in Sessions
  BY DEF CallType
<1>2. /\ mem'[c.v] = Absent /\ table'[c.v] = NoLease
      /\ \A s \in Sessions : mem'[s] = Absent /\ table'[s] = NoLease
  BY <1>1
<1>3. CallOK(c, clock') /\ WhereOK(c, mem'[c.v].at) /\ EndOK(c) /\ LeasingOK(disk', c)
  BY DEF CallOK, WhereOK, EndOK, LeasingOK, ScriptPcs, ReleasePcs
<1>4. HandOK(c, mem'[c.v].lease, table'[c.v])
  BY <1>2, LeaseFacts, AbsentFacts DEF HandOK
<1>5. Starting'
  BY DEF Starting
<1>6. ControlInv'
  BY <1>2, <1>3, <1>4, <1>5, AbsentFacts DEF ControlInv, StartScript
<1>7. SlotInv'
  <2>1. Slots(mem', table', c.lease) = 0 /\ 0 <= RecoveryLimit
    BY NoSlots, StoreAssumption DEF RecoveryLimit
  <2> QED
    BY <2>1 DEF SlotInv
<1>8. ScriptInv' /\ OwnedInv'
  BY <1>5 DEF ScriptInv, OwnedInv, StartScript
<1> QED
  BY <1>6, <1>7, <1>8 DEF SessionInv

\* A new process starts on the files that are there.
LEMMA NewProcessKeeps ==
  ASSUME SessionInv, Start, disk' \in durable', durable' \subseteq durable, crashes' \in 0 .. MaxCrashes
  PROVE  SessionInv'
<1>1. PICK c : c = proc'
  OBVIOUS
<1>2. /\ c \in CallType /\ c.pc = "recover" /\ c.lease = NoLease /\ c.io = <<>> /\ c.ok
  <2>1. Idle \in CallType /\ "recover" \in Pcs
    BY IdleFacts DEF Pcs
  <2>2. c = [Idle EXCEPT !.pc = "recover"]
    BY <1>1 DEF Start
  <2> QED
    BY <2>1, <2>2, IdleFacts DEF CallType
<1>3. /\ mem' = [s \in Sessions |-> Absent] /\ table' = [s \in Sessions |-> NoLease]
      /\ persisted' = [s \in Sessions |-> 0] /\ clock' = 0 /\ UNCHANGED <<failures, kept, discarded>>
  BY DEF Start
<1>4. TypeInv
  BY DEF SessionInv
<1>5. IsFiniteSet(durable') /\ durable' \subseteq Namespace /\ \A ns \in durable' : IsFiniteSet(ns.files)
  BY <1>4, FS_Subset DEF TypeInv
<1>6. persisted' \in [Sessions -> Nat] /\ clock' \in 0 .. MaxClock
  BY <1>3, StoreAssumption
<1>7. TypeInv'
  BY <1>1, <1>2, <1>3, <1>4, <1>5, <1>6, AbsentFacts DEF TypeInv
<1>8. StartScript(c.io)
  <2>1. <<>> \in Seq(Step) /\ Len(<<>>) = 0
    OBVIOUS
  <2> QED
    BY <1>2, <2>1 DEF StartScript, Leaseless, MovesToRefs
<1> QED
  BY <1>1, <1>2, <1>3, <1>7, <1>8, StartKeeps

LEMMA CrashKeeps ==
  ASSUME SessionInv, Crash
  PROVE  SessionInv'
<1>1. crashes' \in 0 .. MaxCrashes
  BY Now, StoreAssumption DEF Crash, CountTypes
<1>2. disk \in durable
  BY DEF SessionInv, TypeInv
<1>3. disk' \in durable' /\ durable' \subseteq durable
  BY <1>2 DEF Crash
<1> QED
  BY <1>1, <1>3, NewProcessKeeps DEF Crash

LEMMA PanicKeeps ==
  ASSUME SessionInv, Panic
  PROVE  SessionInv'
<1>1. crashes' \in 0 .. MaxCrashes /\ disk' \in durable' /\ durable' \subseteq durable
  BY Now DEF Panic, CountTypes, SessionInv, TypeInv
<1> QED
  BY <1>1, NewProcessKeeps DEF Panic

\* A start takes no lease, and restores references to refs/ only.
LEMMA StartJoin ==
  ASSUME NEW a \in Seq(Step), NEW b \in Seq(Step), StartScript(a), StartScript(b)
  PROVE  StartScript(a \o b)
<1>1. PICK c : c = a \o b
  OBVIOUS
<1>2. /\ c \in Seq(Step) /\ Len(c) = Len(a) + Len(b) /\ Len(a) \in Nat /\ Len(b) \in Nat
      /\ \A i \in 1 .. Len(a) : c[i] = a[i]
      /\ \A i \in 1 .. Len(b) : c[Len(a) + i] = b[i]
  BY <1>1, JoinFacts
<1>3. ASSUME NEW i \in 1 .. Len(c)
      PROVE  c[i].lease = NoLease /\ (c[i].op = "move" => c[i].to = Reference)
  <2>1. CASE i <= Len(a)
    <3>1. i \in 1 .. Len(a)
      BY <1>2, <2>1
    <3> QED
      BY <1>2, <3>1 DEF StartScript, Leaseless, MovesToRefs
  <2>2. CASE i > Len(a)
    <3>1. PICK k \in 1 .. Len(b) : i = Len(a) + k
      <4>1. i - Len(a) \in 1 .. Len(b) /\ i = Len(a) + (i - Len(a))
        BY <1>2, <2>2
      <4> QED
        BY <4>1
    <3>2. c[i] = b[k]
      BY <1>2, <3>1
    <3> QED
      BY <3>2 DEF StartScript, Leaseless, MovesToRefs
  <2> QED
    BY <1>2, <2>1, <2>2
<1> QED
  BY <1>1, <1>2, <1>3 DEF StartScript, Leaseless, MovesToRefs

\* The files to remove are listed in some order.
LEMMA RemoveFilesFacts ==
  ASSUME NEW files, IsFiniteSet(files), files \subseteq StoredFile, \A f \in files : f.intent # "Active"
  PROVE  StartScript(RemoveFiles(files))
<1> DEFINE S == [1 .. Cardinality(files) -> files]
           Ordered(seq) == \A i, j \in DOMAIN seq : seq[i] = seq[j] => i = j
<1>1. Cardinality(files) \in Nat /\ ExistsBijection(1 .. Cardinality(files), files)
  BY FS_CardinalityType
<1>2. PICK n \in Nat : n = Cardinality(files)
  BY <1>1
<1>3. \E seq \in S : Ordered(seq)
  BY <1>1 DEF ExistsBijection, Bijection, Injection, IsInjective
<1>4. PICK order : order = CHOOSE seq \in S : Ordered(seq)
  OBVIOUS
<1>5. order \in S
  BY <1>3, <1>4
<1>6. order \in [1 .. n -> files]
  BY <1>2, <1>5
<1>7. RemoveFiles(files) = [i \in 1 .. n |-> Remove(PathOf(order[i]), NoLease)]
  <2>1. DOMAIN order = 1 .. n
    BY <1>6
  <2> QED
    BY <1>4, <2>1 DEF RemoveFiles
<1>8. ASSUME NEW i \in 1 .. n
      PROVE  /\ Remove(PathOf(order[i]), NoLease) \in Step /\ Remove(PathOf(order[i]), NoLease).op = "remove"
             /\ Remove(PathOf(order[i]), NoLease).lease = NoLease
  <2>1. order[i] \in StoredFile /\ order[i].intent # "Active"
    BY <1>6, <1>8
  <2>2. PathOf(order[i]) \in Paths
    BY <2>1, PathFacts DEF PathOf, StoredFile
  <2> QED
    BY <2>2, StepFacts, LeaseFacts
<1>9. PICK io : io = RemoveFiles(files)
  OBVIOUS
<1>10. io \in [1 .. n -> Step] /\ \A i \in 1 .. n : io[i].lease = NoLease /\ io[i].op = "remove"
  BY <1>7, <1>8, <1>9
<1>11. io \in Seq(Step) /\ Len(io) = n
  BY <1>10
<1> QED
  BY <1>9, <1>10, <1>11 DEF StartScript, Leaseless, MovesToRefs

LEMMA StartSteps ==
  ASSUME NEW p \in Paths, NEW q \in Paths
  PROVE  /\ StartScript(<<Remove(p, NoLease), Sync(q, NoLease)>>)
         /\ StartScript(<<Move(p, Reference, NoLease), Sync(Reference, NoLease), Sync(q, NoLease)>>)
         /\ StartScript(<<Sync(p, NoLease), Remove(p, NoLease), Sync(p, NoLease)>>)
         /\ StartScript(<<Sync(p, NoLease), Sync(q, NoLease)>>)
         /\ StartScript(Refuse)
<1>1. PICK a, b, c, d, e : /\ a = Remove(p, NoLease) /\ b = Sync(q, NoLease) /\ c = Sync(p, NoLease)
                           /\ d = Move(p, Reference, NoLease) /\ e = Sync(Reference, NoLease)
  OBVIOUS
<1>2. /\ {a, b, c, d, e} \subseteq Step /\ a.op = "remove" /\ b.op = "sync" /\ c.op = "sync" /\ e.op = "sync"
      /\ d.to = Reference
      /\ a.lease = NoLease /\ b.lease = NoLease /\ c.lease = NoLease /\ d.lease = NoLease /\ e.lease = NoLease
  BY <1>1, PathFacts, LeaseFacts, StepFacts
<1>3. StartScript(<<a, b>>) /\ StartScript(<<d, e, b>>) /\ StartScript(<<c, a, c>>) /\ StartScript(<<c, b>>)
  <2>1. StartScript(<<a, b>>)
    BY <1>2 DEF StartScript, Leaseless, MovesToRefs
  <2>2. StartScript(<<d, e, b>>)
    BY <1>2 DEF StartScript, Leaseless, MovesToRefs
  <2>3. StartScript(<<c, a, c>>)
    BY <1>2 DEF StartScript, Leaseless, MovesToRefs
  <2>4. StartScript(<<c, b>>)
    BY <1>2 DEF StartScript, Leaseless, MovesToRefs
  <2> QED
    BY <2>1, <2>2, <2>3, <2>4
<1>4. StartScript(Refuse)
  <2>1. Refuse \in Seq(Step) /\ Len(Refuse) = 1 /\ Refuse[1].op = "refuse" /\ Leaseless(Refuse)
    BY RefuseFacts
  <2> QED
    BY <2>1 DEF StartScript, MovesToRefs
<1> QED
  BY <1>1, <1>3, <1>4

LEMMA RecoverReferenceFacts ==
  ASSUME SessionInv, NEW f \in disk.files, f.intent # "Active"
  PROVE  StartScript(RecoverReference(f)) /\ f.session \in Sessions
<1>1. disk \in Namespace /\ IsFiniteSet(disk.files) /\ f \in StoredFile /\ disk.files \subseteq StoredFile
  BY DiskFacts DEF Namespace
<1>2. f.session \in Sessions /\ f.intent \in Intent /\ f.nonce \in Nat
  BY <1>1 DEF StoredFile
<1>3. PICK p \in Paths : p = PathOf(f)
  BY <1>2, PathFacts DEF PathOf
<1>4. /\ StartScript(<<Remove(p, NoLease), Sync(p, NoLease)>>)
      /\ StartScript(<<Remove(Reference, NoLease), Sync(Reference, NoLease)>>)
      /\ StartScript(<<Move(p, Reference, NoLease), Sync(Reference, NoLease), Sync(p, NoLease)>>)
      /\ StartScript(<<Sync(p, NoLease), Remove(p, NoLease), Sync(p, NoLease)>>)
      /\ StartScript(Refuse)
  BY StartSteps, PathFacts
<1>5. CASE f.intent = "Discard"
  <2> DEFINE others == {g \in disk.files : g.session = f.session /\ g.intent # "Active" /\ g # f}
  <2>1. StartScript(RemoveFiles(others))
    <3>1. others \subseteq disk.files /\ \A g \in others : g.intent # "Active"
      OBVIOUS
    <3> HIDE DEF others
    <3>2. IsFiniteSet(others) /\ others \subseteq StoredFile
      BY <1>1, <3>1, FS_Subset
    <3> QED
      BY <3>1, <3>2, RemoveFilesFacts
  <2>2. PICK a, b, c : /\ a = <<Remove(Reference, NoLease), Sync(Reference, NoLease)>>
                       /\ b = RemoveFiles(others)
                       /\ c = <<Sync(p, NoLease), Remove(p, NoLease), Sync(p, NoLease)>>
    OBVIOUS
  <2>3. StartScript(a) /\ StartScript(b) /\ StartScript(c)
    BY <1>4, <2>1, <2>2
  <2>4. StartScript(a \o b)
    BY <2>3, StartJoin DEF StartScript
  <2>5. StartScript((a \o b) \o c)
    BY <2>3, <2>4, StartJoin DEF StartScript
  <2>6. RecoverReference(f) = (a \o b) \o c
    BY <1>3, <1>5, <2>2 DEF RecoverReference, RecoverDiscarded
  <2> QED
    BY <1>2, <2>5, <2>6
<1>6. CASE f.intent = "Superseded"
  BY <1>2, <1>3, <1>4, <1>6 DEF RecoverReference, RecoverSuperseded, ReconcileExisting
<1>7. CASE f.intent = "Restore"
  BY <1>2, <1>3, <1>4, <1>7 DEF RecoverReference, RecoverRestorable, ReconcileExisting
<1> QED
  BY <1>2, <1>5, <1>6, <1>7 DEF Intent

\* What the invariant says of a start.
LEMMA StartNow ==
  ASSUME SessionInv, Starting
  PROVE  /\ proc.lease = NoLease /\ StartScript(proc.io) /\ proc.pc \in StartPcs
         /\ mem = [s \in Sessions |-> Absent] /\ table = [s \in Sessions |-> NoLease]
         /\ proc.pc = "load" => /\ \A f \in disk.files : f.intent = "Active"
                                /\ \A i \in 1 .. Len(proc.io) : proc.io[i].op = "sync"
<1>1. proc.pc \in StartPcs
  BY DEF Starting
<1>2. proc.lease = NoLease /\ proc.io \in Seq(Step)
  BY <1>1, Now DEF HandOK, CallType
<1> QED
  BY <1>1, <1>2 DEF SessionInv, ControlInv, StartScript

LEMMA RecoverQuarantineKeeps ==
  ASSUME SessionInv, RecoverQuarantine
  PROVE  SessionInv'
<1>1. Starting /\ proc.pc = "recover"
  BY DEF RecoverQuarantine, Reached, Starting
<1>2. /\ UNCHANGED <<disk, durable, failures, mem, table, persisted, clock, crashes, kept, discarded>>
  BY DEF RecoverQuarantine, disk_vars, history_vars
<1>3. PICK c : c = proc'
  OBVIOUS
<1>4. CASE \E f \in OfIntent(NextIntent) :
             proc' = [proc EXCEPT !.v = f.session, !.io = RecoverReference(f), !.ok = TRUE]
  <2>1. PICK f \in OfIntent(NextIntent) :
             proc' = [proc EXCEPT !.v = f.session, !.io = RecoverReference(f), !.ok = TRUE]
    BY <1>4
  <2>2. f \in disk.files /\ f.intent # "Active"
    BY <2>1 DEF OfIntent, NextIntent
  <2>3. StartScript(RecoverReference(f)) /\ f.session \in Sessions
    BY <2>2, RecoverReferenceFacts
  <2>4. /\ c \in CallType /\ c.pc = "recover" /\ c.lease = NoLease /\ c.io = RecoverReference(f) /\ c.ok
    <3>1. proc \in CallType /\ proc.lease = NoLease
      BY <1>1, Now, StartNow
    <3> QED
      BY <1>1, <1>3, <2>1, <2>3, <3>1 DEF CallType, StartScript
  <2>5. TypeInv'
    BY <1>2, <1>3, <2>4, Now DEF TypeInv
  <2> QED
    BY <1>1, <1>2, <1>3, <2>3, <2>4, <2>5, StartNow, StartKeeps
<1>5. CASE /\ NextIntent = "None"
           /\ proc' = Call("load", NoLease, <<Sync(Reference, NoLease), Sync(Quarantine(0, "Restore"), NoLease)>>)
  <2>1. PICK p \in Paths : p = Quarantine(0, "Restore")
    BY PathFacts DEF Intent
  <2>2. PICK a, b : a = Sync(Reference, NoLease) /\ b = Sync(p, NoLease)
    OBVIOUS
  <2>3. a.op = "sync" /\ b.op = "sync" /\ a \in Step /\ b \in Step
    BY <2>2, PathFacts, LeaseFacts, StepFacts
  <2>4. PICK io : io = <<a, b>>
    OBVIOUS
  <2>5. StartScript(io) /\ \A i \in 1 .. Len(io) : io[i].op = "sync"
    <3>1. StartScript(io)
      BY <2>2, <2>4, StartSteps, PathFacts
    <3>2. Len(io) = 2 /\ io[1] = a /\ io[2] = b
      BY <2>4
    <3> QED
      BY <2>3, <3>1, <3>2
  <2>6. c = Call("load", NoLease, io)
    BY <1>3, <1>5, <2>1, <2>2, <2>4
  <2>7. c \in CallType /\ c.pc = "load" /\ c.lease = NoLease /\ c.io = io /\ c.ok
    <3>1. proc \in CallType /\ "load" \in Pcs
      BY Now DEF Pcs
    <3> QED
      BY <2>5, <2>6, <3>1, LeaseFacts DEF CallType, StartScript, Call
  <2>8. TypeInv'
    BY <1>2, <1>3, <2>7, Now DEF TypeInv
  <2>9. \A f \in disk'.files : f.intent = "Active"
    <3>1. OfIntent("Discard") = {} /\ OfIntent("Superseded") = {} /\ OfIntent("Restore") = {}
      BY <1>5 DEF NextIntent
    <3>2. \A f \in disk.files : f.intent \in Intent \cup {"Active"}
      BY DiskFacts DEF Namespace, StoredFile
    <3> QED
      BY <1>2, <3>1, <3>2 DEF OfIntent, Intent
  <2>10. mem' = [s \in Sessions |-> Absent] /\ table' = [s \in Sessions |-> NoLease]
    BY <1>1, <1>2, StartNow
  <2>11. c.pc \in StartPcs
    BY <2>7
  <2> QED
    BY <1>3, <2>5, <2>7, <2>8, <2>9, <2>10, <2>11, StartKeeps
<1> QED
  BY <1>4, <1>5 DEF RecoverQuarantine

\* A bounded set of numbers has a greatest.
LEMMA GreatestNat ==
  ASSUME NEW n \in Nat, NEW S, S \subseteq 0 .. n, S # {}
  PROVE  \E m \in S : \A k \in S : k <= m
<1> DEFINE T == {n - k : k \in S}
<1>0. \A k \in S : n - k \in Nat
  OBVIOUS
<1>1. T \subseteq Nat /\ T # {}
  BY <1>0
<1> HIDE DEF T
<1>2. PICK t \in T : \A u \in T : t <= u
  BY <1>1, LeastNat
<1>3. PICK m \in S : t = n - m
  BY <1>2 DEF T
<1>4. ASSUME NEW k \in S
      PROVE  k <= m
  <2>1. n - k \in T
    BY DEF T
  <2>2. n - m <= n - k
    BY <1>2, <1>3, <2>1
  <2> QED
    BY <1>3, <2>2
<1> QED
  BY <1>4

\* The clock that a start takes: the last_used of the newest reference.
LEMMA StartClock ==
  ASSUME NEW used \in [Sessions -> 0 .. MaxClock], NEW time,
         time = CHOOSE c \in {0} \cup {used[s] : s \in Sessions} : \A s \in Sessions : used[s] <= c
  PROVE  time \in 0 .. MaxClock /\ \A s \in Sessions : used[s] <= time
<1> DEFINE S == {0} \cup {used[s] : s \in Sessions}
<1>1. S \subseteq 0 .. MaxClock /\ S # {} /\ MaxClock \in Nat /\ \A s \in Sessions : used[s] \in S
  BY StoreAssumption
<1> HIDE DEF S
<1>2. \E c \in S : \A k \in S : k <= c
  BY <1>1, GreatestNat
<1>3. \E c \in S : \A s \in Sessions : used[s] <= c
  BY <1>1, <1>2
<1>4. time = CHOOSE c \in S : \A s \in Sessions : used[s] <= c
  BY DEF S
<1>5. time \in S /\ \A s \in Sessions : used[s] <= time
  BY <1>3, <1>4
<1> QED
  BY <1>1, <1>5

LEMMA LoadSessionArchivesKeeps ==
  ASSUME SessionInv, LoadSessionArchives
  PROVE  SessionInv'
<1>1. Starting /\ proc.pc = "load" /\ proc.io = <<>>
  BY DEF LoadSessionArchives, Reached, Starting
<1>2. /\ UNCHANGED <<disk, durable, failures, mem, table, crashes, kept, discarded>>
  BY DEF LoadSessionArchives, disk_vars, history_vars
<1>3. /\ mem = [s \in Sessions |-> Absent] /\ table = [s \in Sessions |-> NoLease]
      /\ \A f \in disk.files : f.intent = "Active"
  BY <1>1, StartNow
<1>4. CASE ~proc.ok
  <2>1. PICK c : c = proc'
    OBVIOUS
  <2>2. c = Call("recover", NoLease, <<>>) /\ UNCHANGED <<persisted, clock>>
    BY <1>4, <2>1 DEF LoadSessionArchives
  <2>3. <<>> \in Seq(Step) /\ Len(<<>>) = 0 /\ proc \in CallType /\ "recover" \in Pcs
    BY Now DEF Pcs
  <2>4. c \in CallType /\ c.pc = "recover" /\ c.lease = NoLease /\ c.io = <<>>
    BY <2>2, <2>3, LeaseFacts DEF Call, CallType
  <2>5. StartScript(c.io)
    BY <2>3, <2>4 DEF StartScript, Leaseless, MovesToRefs
  <2>6. TypeInv'
    BY <1>2, <2>1, <2>2, <2>4, Now DEF TypeInv
  <2> QED
    BY <1>2, <1>3, <2>1, <2>4, <2>5, <2>6, StartKeeps
<1>5. CASE proc.ok
  <2>1. PICK used : used = [s \in Sessions |-> LastUsed(disk, s, Reference)]
    OBVIOUS
  <2>2. used \in [Sessions -> 0 .. MaxClock]
    <3>1. \A s \in Sessions : LastUsed(disk, s, Reference) \in 0 .. MaxClock
      BY DiskFacts, LastUsedFacts
    <3> QED
      BY <2>1, <3>1
  <2>3. /\ persisted' = [s \in Sessions |-> IF s \in Newest(used) THEN used[s] ELSE 0]
        /\ clock' = CHOOSE c \in {0} \cup {used[s] : s \in Sessions} : \A s \in Sessions : used[s] <= c
        /\ proc' = Idle
    BY <1>5, <2>1 DEF LoadSessionArchives
  <2>4. clock' \in 0 .. MaxClock
    BY <2>2, <2>3, StartClock
  <2>5. persisted' \in [Sessions -> Nat]
    BY <2>2, <2>3, StoreAssumption
  <2>6. TypeInv'
    BY <1>2, <2>3, <2>4, <2>5, IdleFacts, Now DEF TypeInv, CountTypes
  <2>7. PICK c : c = proc'
    OBVIOUS
  <2>8. /\ c \in CallType /\ c.pc = "idle" /\ c.lease = NoLease /\ c.io = <<>> /\ c.v = c.s /\ c.v \in Sessions /\ c.ok
    BY <2>3, <2>7, IdleFacts
  <2>9. CallOK(c, clock') /\ EndOK(c) /\ LeasingOK(disk', c) /\ WhereOK(c, mem'[c.v].at)
    BY <2>8 DEF CallOK, EndOK, LeasingOK, WhereOK, ReleasePcs, ScriptPcs
  <2>10. HandOK(c, mem'[c.v].lease, table'[c.v])
    BY <2>8, LeaseFacts DEF HandOK
  <2>11. ~Starting' /\ c.pc # "load"
    BY <2>7, <2>8 DEF Starting
  <2>12. \A s \in Sessions : SessionOK(mem'[s]) /\ RetainedOK(table'[s])
    BY <1>2, Now
  <2>13. ControlInv'
    BY <2>7, <2>9, <2>10, <2>11, <2>12 DEF ControlInv
  <2>14. SlotInv'
    <3>1. Slots(mem', table', c.lease) = 0 /\ 0 <= RecoveryLimit
      BY <1>2, <1>3, <2>8, NoSlots, StoreAssumption DEF RecoveryLimit
    <3> QED
      BY <2>7, <2>8, <3>1 DEF SlotInv
  <2>15. ScriptInv'
    BY <2>7, <2>8, EmptyFacts DEF ScriptInv
  <2>16. OwnedInv'
    BY <1>2, <1>3 DEF OwnedInv
  <2> QED
    BY <2>6, <2>13, <2>14, <2>15, <2>16 DEF SessionInv
<1> QED
  BY <1>4, <1>5, Now

LEMMA StartIoFailsKeeps ==
  ASSUME SessionInv, Starting, IoFails
  PROVE  SessionInv'
<1>1. /\ proc' = [proc EXCEPT !.io = <<>>, !.ok = FALSE]
      /\ UNCHANGED <<disk, durable, mem, table, persisted, clock, crashes, kept, discarded>>
  BY DEF IoFails, history_vars
<1>2. failures' \in 0 .. MaxFailures
  <2>1. failures' = failures \/ (failures < MaxFailures /\ failures' = failures + 1)
    BY DEF IoFails
  <2> QED
    BY <2>1, Now, StoreAssumption DEF CountTypes
<1>3. PICK c : c = proc'
  OBVIOUS
<1>4. <<>> \in Seq(Step) /\ Len(<<>>) = 0 /\ proc \in CallType
  BY Now
<1>5. c \in CallType /\ c.pc = proc.pc /\ c.lease = NoLease /\ c.io = <<>>
  BY <1>1, <1>3, <1>4, StartNow DEF CallType
<1>6. StartScript(c.io)
  BY <1>4, <1>5 DEF StartScript, Leaseless, MovesToRefs
<1>7. TypeInv'
  BY <1>1, <1>2, <1>3, <1>5, Now DEF TypeInv
<1>8. Len(c.io) = 0
  BY <1>4, <1>5
<1>9. c.pc = "load" => /\ \A f \in disk'.files : f.intent = "Active"
                       /\ \A i \in 1 .. Len(c.io) : c.io[i].op = "sync"
  BY <1>1, <1>5, <1>8, StartNow
<1> QED
  BY <1>1, <1>3, <1>5, <1>6, <1>7, <1>9, StartNow, StartKeeps

LEMMA StartIoSucceedsKeeps ==
  ASSUME SessionInv, Starting, IoSucceeds
  PROVE  SessionInv'
<1>1. proc.io # <<>> /\ proc.io \in Seq(Step) /\ proc.pc \in StartPcs /\ StartScript(proc.io)
  BY StartNow DEF IoSucceeds, StartScript
<1>2. PICK step : step = Head(proc.io) /\ CanDo(step)
  BY DEF IoSucceeds
<1>3. step \in Step /\ step = proc.io[1] /\ 1 \in 1 .. Len(proc.io)
  BY <1>1, <1>2, HeadFacts
<1>4. step.op # "refuse" /\ (step.op = "move" => step.to.intent # "Blob") /\ step.lease = NoLease
  BY <1>1, <1>2, <1>3, PathFacts DEF CanDo, StartScript, Leaseless, MovesToRefs
<1>5. PICK c : c = proc'
  OBVIOUS
<1>6. /\ TypeInv' /\ disk' = Effect(step) /\ disk' \in Namespace
      /\ c.pc = proc.pc /\ c.lease = NoLease /\ c.io = Tail(proc.io) /\ c.ok = proc.ok
      /\ UNCHANGED <<mem, table>> /\ c \in CallType
  BY <1>2, <1>3, <1>4, <1>5, IoSucceedsTypes DEF TypeInv
<1>7. /\ c.io \in Seq(Step)
      /\ \A i \in 1 .. Len(c.io) : i + 1 \in 1 .. Len(proc.io) /\ c.io[i] = proc.io[i + 1]
  BY <1>1, <1>6, HeadFacts
<1>8. StartScript(c.io)
  BY <1>1, <1>7 DEF StartScript, Leaseless, MovesToRefs
<1>9. c.ok
  BY <1>1, <1>6, Now DEF CallOK
<1>10. c.pc = "load" => /\ \A f \in disk'.files : f.intent = "Active"
                        /\ \A i \in 1 .. Len(c.io) : c.io[i].op = "sync"
  <2> SUFFICES ASSUME c.pc = "load"
               PROVE  /\ \A f \in disk'.files : f.intent = "Active"
                      /\ \A i \in 1 .. Len(c.io) : c.io[i].op = "sync"
    OBVIOUS
  <2>1. step.op = "sync" /\ \A i \in 1 .. Len(proc.io) : proc.io[i].op = "sync"
    BY <1>3, <1>6, StartNow
  <2>2. disk' = disk
    BY <1>3, <1>6, <2>1, EffectFacts
  <2> QED
    BY <1>6, <1>7, <2>1, <2>2, StartNow
<1> QED
  BY <1>1, <1>5, <1>6, <1>8, <1>9, <1>10, StartNow, StartKeeps

-----------------------------------------------------------------------------
(* The invariant *)

LEMMA InitSessionInv == Init => SessionInv
<1> SUFFICES ASSUME Init
             PROVE  SessionInv
  OBVIOUS
<1>1. /\ proc = Idle /\ mem = [s \in Sessions |-> Absent] /\ table = [s \in Sessions |-> NoLease]
      /\ disk = [files |-> {}, blobs |-> {}] /\ durable = {disk}
  BY DEF Init
<1>2. PICK c : c = proc
  OBVIOUS
<1>3. /\ c \in CallType /\ c.pc = "idle" /\ c.lease = NoLease /\ c.io = <<>> /\ c.v = c.s /\ c.v \in Sessions /\ c.ok
  BY <1>1, <1>2, IdleFacts
<1>4. TypeInv
  <2>1. disk \in Namespace /\ disk.files = {} /\ IsFiniteSet(disk.files)
    BY <1>1, FS_EmptySet DEF Namespace
  <2>2. IsFiniteSet(durable)
    BY <1>1, FS_Singleton
  <2>3. /\ persisted \in [Sessions -> Nat] /\ kept \in [Sessions -> Nat] /\ clock \in 0 .. MaxClock
        /\ failures \in 0 .. MaxFailures /\ crashes \in 0 .. MaxCrashes /\ discarded \subseteq Sessions
    BY StoreAssumption DEF Init
  <2> QED
    BY <1>1, <1>2, <1>3, <2>1, <2>2, <2>3, AbsentFacts DEF TypeInv
<1>5. CallOK(c, clock) /\ EndOK(c) /\ LeasingOK(disk, c) /\ WhereOK(c, mem[c.v].at)
  BY <1>3 DEF CallOK, EndOK, LeasingOK, WhereOK, ReleasePcs, ScriptPcs
<1>6. HandOK(c, mem[c.v].lease, table[c.v])
  BY <1>3, LeaseFacts DEF HandOK
<1>7. \A s \in Sessions : SessionOK(mem[s]) /\ RetainedOK(table[s])
  BY <1>1, AbsentFacts
<1>8. ControlInv
  BY <1>2, <1>3, <1>5, <1>6, <1>7 DEF ControlInv, Starting
<1>9. SlotInv
  <2>1. Slots(mem, table, c.lease) = 0 /\ 0 <= RecoveryLimit
    BY <1>1, <1>3, NoSlots, StoreAssumption DEF RecoveryLimit
  <2> QED
    BY <1>2, <1>3, <2>1 DEF SlotInv
<1>10. ScriptInv
  BY <1>2, <1>3, EmptyFacts DEF ScriptInv
<1>11. OwnedInv
  BY <1>1 DEF OwnedInv
<1> QED
  BY <1>4, <1>8, <1>9, <1>10, <1>11 DEF SessionInv

LEMMA StoreStepKeeps ==
  ASSUME SessionInv, StoreStep
  PROVE  SessionInv'
<1>1. CASE IoSucceeds
  BY <1>1, IoSucceedsKeeps, StartIoSucceedsKeeps
<1>2. CASE IoFails
  BY <1>2, IoFailsKeeps, StartIoFailsKeeps
<1>3. CASE TakeRecoveryLease \/ Resolved \/ LeaseActive \/ Leasing \/ Unleasing
  BY <1>3, TakeRecoveryLeaseKeeps, ResolvedKeeps, LeaseActiveKeeps, LeasingKeeps, UnleasingKeeps
<1>4. CASE DiscardSession \/ Discarded
  BY <1>4, DiscardSessionKeeps, DiscardedKeeps
<1>5. CASE RecoverQuarantine \/ LoadSessionArchives
  BY <1>5, RecoverQuarantineKeeps, LoadSessionArchivesKeeps
<1> QED
  BY <1>1, <1>2, <1>3, <1>4, <1>5 DEF StoreStep

LEMMA ServerStepKeeps ==
  ASSUME SessionInv, ServerStep
  PROVE  SessionInv'
<1>1. CASE ContinueCold \/ AttachResidentSession \/ WakeHibernatedSession \/ FinishWake \/ FinishWakeError
  BY <1>1, ContinueColdKeeps, AttachResidentSessionKeeps, WakeHibernatedSessionKeeps, FinishWakeKeeps,
     FinishWakeErrorKeeps
<1>2. CASE PersistedMetadata \/ RestorePersisted \/ ReferenceRestored
  BY <1>2, PersistedMetadataKeeps, RestorePersistedKeeps, ReferenceRestoredKeeps
<1>3. CASE Persisted \/ Retired \/ RetainedSession \/ TaskDiscarded \/ Respond
  BY <1>3, PersistedKeeps, RetiredKeeps, RetainedSessionKeeps, TaskDiscardedKeeps, RespondKeeps
<1>4. CASE Fit \/ FitContinues \/ HibernateStored \/ StoreHibernated \/ RestoreFailedHibernation
  BY <1>4, FitKeeps, InsertContinuesKeeps, HibernateStoredKeeps, StoreHibernatedKeeps,
     RestoreFailedHibernationKeeps
<1> QED
  BY <1>1, <1>2, <1>3, <1>4 DEF ServerStep

LEMMA RequestKeeps ==
  ASSUME SessionInv, Request
  PROVE  SessionInv'
BY LeaseContinueSessionKeeps, LeaseForkSessionKeeps, PersistChatSessionKeeps, RetainFailedSessionKeeps,
   DiscardStoredSessionKeeps DEF Request

LEMMA NextSessionInv == SessionInv /\ [Next]_vars => SessionInv'
<1> SUFFICES ASSUME SessionInv, [Next]_vars
             PROVE  SessionInv'
  OBVIOUS
<1>1. CASE StoreStep
  BY <1>1, StoreStepKeeps
<1>2. CASE ServerStep
  BY <1>2, ServerStepKeeps
<1>3. CASE Request
  BY <1>3, RequestKeeps
<1>4. CASE Crash
  BY <1>4, CrashKeeps
<1>5. CASE Panic
  BY <1>5, PanicKeeps
<1>6. CASE UNCHANGED vars
  <2>1. /\ disk' = disk /\ durable' = durable /\ mem' = mem /\ table' = table
        /\ persisted' = persisted /\ clock' = clock /\ proc' = proc
        /\ failures' = failures /\ crashes' = crashes
        /\ kept' = kept /\ discarded' = discarded
    BY <1>6 DEF vars
  <2>2. TypeInv'
    BY <2>1 DEF SessionInv, TypeInv
  <2>3. ControlInv'
    BY <2>1 DEF SessionInv, ControlInv, Starting, CallOK, WhereOK, HandOK, EndOK, LeasingOK
  <2>4. SlotInv'
    BY <2>1 DEF SessionInv, SlotInv, Slots
  <2>5. ScriptInv' /\ OwnedInv'
    BY <2>1 DEF SessionInv, ScriptInv, OwnedInv, Starting, Legal, LegalStep,
       EndsLease, MovesLease, HeldBy
  <2> QED
    BY <2>2, <2>3, <2>4, <2>5 DEF SessionInv
<1> QED
  BY <1>1, <1>2, <1>3, <1>4, <1>5, <1>6 DEF Next

LEMMA SessionInvAlways == Spec => []SessionInv
BY InitSessionInv, NextSessionInv, PTL DEF Spec

\* Types of the store and of the server, for any sessions, limits, failures and crashes.
THEOREM SessionTypes == Spec => []TypeOK
<1>1. SessionInv => TypeOK
  <2> SUFFICES ASSUME SessionInv
               PROVE  TypeOK
    OBVIOUS
  <2>1. disk.files \subseteq File /\ disk.blobs \subseteq Sessions \X Nat
    <3>1. StoredFile \subseteq File
      BY StoreAssumption DEF StoredFile, File
    <3> QED
      BY <3>1, DiskFacts DEF Namespace
  <2>2. mem \in [Sessions -> [at : {"absent", "task", "resident", "hibernated"}, lease : Lease, last_used : Nat]]
    BY Now DEF Held
  <2> QED
    BY <2>1, <2>2, Now DEF TypeOK, TypeInv
<1> QED
  BY <1>1, SessionInvAlways, PTL

\* A quarantined reference always belongs to a lease that a later call can find: whatever
\* fails in lease_reference, restore, retire, discard or persist, and whatever is forked or
\* evicted, no reference is stranded in quarantine/ until the next start.
THEOREM QuarantineAlwaysOwned == Spec => []QuarantineOwned
<1>1. SessionInv => QuarantineOwned
  <2> SUFFICES ASSUME SessionInv, ~Starting, NEW f \in disk.files, f.intent # "Active"
               PROVE  \E h \in LeasesOf(f.session) : h[2].nonce = f.nonce /\ h[2].state = f.intent
    BY DEF QuarantineOwned
  <2>1. HeldBy(mem, table, proc, f.session, f.nonce, f.intent)
    BY DEF SessionInv, OwnedInv
  <2> QED
    BY <2>1 DEF HeldBy, LeasesOf
<1> QED
  BY <1>1, SessionInvAlways, PTL

\* recovery_slot: no more leases hold a slot than recovery_limit, in the table, in memory and
\* in the call together, so that quarantine/ stays bounded.
THEOREM SlotsWithinLimit == Spec => [](RecoverySlots <= RecoveryLimit)
<1>1. SessionInv => RecoverySlots <= RecoveryLimit
  BY DEF SessionInv, SlotInv, Slots, RecoverySlots
<1> QED
  BY <1>1, SessionInvAlways, PTL

-----------------------------------------------------------------------------
(* While no running session is forked, a session has one lease *)

One(a, b, c) == /\ ~(LiveLease(a) /\ LiveLease(b)) /\ ~(LiveLease(a) /\ LiveLease(c))
                /\ ~(LiveLease(b) /\ LiveLease(c))

\* The lease of session s that the call has in hand.
InHand(c, s) == IF c.v = s THEN c.lease ELSE NoLease

OneInv ==
  /\ proc.top # "fork"
  /\ \A s \in Sessions : One(mem[s].lease, table[s], InHand(proc, s))

\* The lease stands for the same file in the same place.
SamePlace(l, m) == m.state = l.state /\ m.nonce = l.nonce /\ m.pending = l.pending

\* A lease of x comes from one there was, or is a new one of the active reference.
Stems(x, n) ==
  LiveLease(n) => \/ SamePlace(mem[x].lease, n) \/ SamePlace(table[x], n)
                  \/ SamePlace(InHand(proc, x), n)
                  \/ n.state = "Active" /\ Exists(disk, x, Reference)

\* Leases whose discard was requested.
AnyDiscard(a, b, c) == DiscardPending(a) \/ DiscardPending(b) \/ DiscardPending(c)

\* The leases of x become h.lease, t and the one in hand; those of other sessions stay.
Flows(x, h, t, c) ==
  /\ c.top # "fork"
  /\ One(h.lease, t, InHand(c, x))
  /\ c.v = x \/ c.lease = NoLease
  /\ proc.v = x \/ proc.lease.state \notin Intent
  /\ OneOf(mem[x].lease, h.lease, t, InHand(c, x)) /\ OneOf(table[x], h.lease, t, InHand(c, x))
  /\ OneOf(InHand(proc, x), h.lease, t, InHand(c, x))
  /\ Stems(x, h.lease) /\ Stems(x, t) /\ Stems(x, InHand(c, x))
  /\ AnyDiscard(h.lease, t, InHand(c, x)) =>
       AnyDiscard(mem[x].lease, table[x], InHand(proc, x)) \/ (kept'[x] = 0 /\ c.pc = "discarded")

LeaseFlow ==
  /\ UNCHANGED <<disk, durable>>
  /\ \E x \in Sessions : /\ \A s \in Sessions \ {x} : mem'[s].lease = mem[s].lease /\ table'[s] = table[s]
                         /\ Flows(x, mem'[x], table'[x], proc')

LEMMA FlowKeepsOne ==
  ASSUME OneInv, SessionInv', LeaseFlow
  PROVE  OneInv'
<1>1. PICK x \in Sessions : /\ \A s \in Sessions \ {x} : mem'[s].lease = mem[s].lease /\ table'[s] = table[s]
                            /\ Flows(x, mem'[x], table'[x], proc')
  BY DEF LeaseFlow
<1>2. PICK c : c = proc'
  OBVIOUS
<1>3. Flows(x, mem'[x], table'[x], c)
  BY <1>1, <1>2
<1>4. c.top # "fork" /\ One(mem'[x].lease, table'[x], InHand(c, x))
  BY <1>3 DEF Flows
<1>5. ASSUME NEW s \in Sessions \ {x}
      PROVE  One(mem'[s].lease, table'[s], InHand(c, s))
  <2>1. InHand(c, s) = NoLease
    BY <1>3 DEF Flows, InHand
  <2> QED
    BY <1>1, <2>1, LeaseFacts DEF OneInv, One
<1> QED
  BY <1>2, <1>4, <1>5 DEF OneInv

\* Nothing moves, and the lease in hand is done with.
LEMMA EndFlows ==
  ASSUME OneInv, NEW x \in Sessions, NEW c, c = proc', c.top # "fork", UNCHANGED <<disk, durable>>,
         \A s \in Sessions \ {x} : mem'[s].lease = mem[s].lease /\ table'[s] = table[s],
         mem'[x].lease = mem[x].lease,
         table'[x] = table[x],
         c.lease = NoLease,
         proc.lease.state \notin Intent
  PROVE  LeaseFlow
<1>1. One(mem[x].lease, table[x], InHand(proc, x))
  BY DEF OneInv
<1>2. /\ ~LiveLease(NoLease) /\ ~DiscardPending(NoLease) /\ NoLease.state \notin Intent
      /\ (c.lease = NoLease => InHand(c, x) = NoLease)
      /\ (c.v = x => InHand(c, x) = c.lease) /\ (proc.v = x => InHand(proc, x) = proc.lease)
      /\ (proc.v # x => InHand(proc, x) = NoLease)
  BY LeaseFacts DEF InHand, Intent
<1>3. Flows(x, mem'[x], table'[x], c)
  BY <1>1, <1>2 DEF Flows, One, OneOf, Stems, SamePlace, AnyDiscard
<1> QED
  BY <1>3 DEF LeaseFlow

\* The lease in hand goes to the session.
LEMMA GiveFlows ==
  ASSUME OneInv, NEW x \in Sessions, NEW c, c = proc', c.top # "fork", UNCHANGED <<disk, durable>>,
         \A s \in Sessions \ {x} : mem'[s].lease = mem[s].lease /\ table'[s] = table[s],
         mem[x].lease = NoLease,
         proc.v = x,
         mem'[x].lease = proc.lease,
         table'[x] = table[x],
         c.lease = NoLease
  PROVE  LeaseFlow
<1>1. One(mem[x].lease, table[x], InHand(proc, x))
  BY DEF OneInv
<1>2. /\ ~LiveLease(NoLease) /\ ~DiscardPending(NoLease) /\ NoLease.state \notin Intent
      /\ (c.lease = NoLease => InHand(c, x) = NoLease)
      /\ (c.v = x => InHand(c, x) = c.lease) /\ (proc.v = x => InHand(proc, x) = proc.lease)
      /\ (proc.v # x => InHand(proc, x) = NoLease)
  BY LeaseFacts DEF InHand, Intent
<1>3. Flows(x, mem'[x], table'[x], c)
  BY <1>1, <1>2 DEF Flows, One, OneOf, Stems, SamePlace, AnyDiscard
<1> QED
  BY <1>3 DEF LeaseFlow

\* The lease in hand goes to the table.
LEMMA RetainFlows ==
  ASSUME OneInv, NEW x \in Sessions, NEW c, c = proc', c.top # "fork", UNCHANGED <<disk, durable>>,
         \A s \in Sessions \ {x} : mem'[s].lease = mem[s].lease /\ table'[s] = table[s],
         table[x] = NoLease,
         proc.v = x,
         mem'[x].lease = mem[x].lease,
         table'[x] = proc.lease,
         c.lease = NoLease
  PROVE  LeaseFlow
<1>1. One(mem[x].lease, table[x], InHand(proc, x))
  BY DEF OneInv
<1>2. /\ ~LiveLease(NoLease) /\ ~DiscardPending(NoLease) /\ NoLease.state \notin Intent
      /\ (c.lease = NoLease => InHand(c, x) = NoLease)
      /\ (c.v = x => InHand(c, x) = c.lease) /\ (proc.v = x => InHand(proc, x) = proc.lease)
      /\ (proc.v # x => InHand(proc, x) = NoLease)
  BY LeaseFacts DEF InHand, Intent
<1>3. Flows(x, mem'[x], table'[x], c)
  BY <1>1, <1>2 DEF Flows, One, OneOf, Stems, SamePlace, AnyDiscard
<1> QED
  BY <1>3 DEF LeaseFlow

\* The lease in hand stays in hand, perhaps to be discarded.
LEMMA StayFlows ==
  ASSUME OneInv, NEW x \in Sessions, NEW c, c = proc', c.top # "fork", UNCHANGED <<disk, durable>>,
         \A s \in Sessions \ {x} : mem'[s].lease = mem[s].lease /\ table'[s] = table[s],
         mem'[x].lease = mem[x].lease,
         table'[x] = table[x],
         proc.v = x,
         c.v = x,
         SamePlace(proc.lease, c.lease),
         c.lease.discard => proc.lease.discard \/ (kept'[x] = 0 /\ c.pc = "discarded")
  PROVE  LeaseFlow
<1>1. One(mem[x].lease, table[x], InHand(proc, x))
  BY DEF OneInv
<1>2. /\ ~LiveLease(NoLease) /\ ~DiscardPending(NoLease) /\ NoLease.state \notin Intent
      /\ (c.lease = NoLease => InHand(c, x) = NoLease)
      /\ (c.v = x => InHand(c, x) = c.lease) /\ (proc.v = x => InHand(proc, x) = proc.lease)
      /\ (proc.v # x => InHand(proc, x) = NoLease)
  BY LeaseFacts DEF InHand, Intent
<1>3. Flows(x, mem'[x], table'[x], c)
  BY <1>1, <1>2 DEF Flows, One, OneOf, Stems, SamePlace, AnyDiscard, DiscardPending, LiveLease
<1> QED
  BY <1>3 DEF LeaseFlow

\* The lease of a session is taken.
LEMMA TakeFlows ==
  ASSUME OneInv, NEW x \in Sessions, NEW c, c = proc', c.top # "fork", UNCHANGED <<disk, durable>>,
         \A s \in Sessions \ {x} : mem'[s].lease = mem[s].lease /\ table'[s] = table[s],
         mem'[x].lease = NoLease,
         table'[x] = table[x],
         c.v = x,
         c.lease = mem[x].lease,
         proc.lease.state \notin Intent
  PROVE  LeaseFlow
<1>1. One(mem[x].lease, table[x], InHand(proc, x))
  BY DEF OneInv
<1>2. /\ ~LiveLease(NoLease) /\ ~DiscardPending(NoLease) /\ NoLease.state \notin Intent
      /\ (c.lease = NoLease => InHand(c, x) = NoLease)
      /\ (c.v = x => InHand(c, x) = c.lease) /\ (proc.v = x => InHand(proc, x) = proc.lease)
      /\ (proc.v # x => InHand(proc, x) = NoLease)
  BY LeaseFacts DEF InHand, Intent
<1>3. Flows(x, mem'[x], table'[x], c)
  BY <1>1, <1>2 DEF Flows, One, OneOf, Stems, SamePlace, AnyDiscard
<1> QED
  BY <1>3 DEF LeaseFlow

\* The retained lease of a session is taken.
LEMMA TableFlows ==
  ASSUME OneInv, NEW x \in Sessions, NEW c, c = proc', c.top # "fork", UNCHANGED <<disk, durable>>,
         \A s \in Sessions \ {x} : mem'[s].lease = mem[s].lease /\ table'[s] = table[s],
         mem'[x].lease = mem[x].lease,
         table'[x] = NoLease,
         c.v = x,
         SamePlace(table[x], c.lease),
         proc.lease.state \notin Intent,
         c.lease.discard => DiscardPending(table[x]) \/ (kept'[x] = 0 /\ c.pc = "discarded")
  PROVE  LeaseFlow
<1>1. One(mem[x].lease, table[x], InHand(proc, x))
  BY DEF OneInv
<1>2. /\ ~LiveLease(NoLease) /\ ~DiscardPending(NoLease) /\ NoLease.state \notin Intent
      /\ (c.lease = NoLease => InHand(c, x) = NoLease)
      /\ (c.v = x => InHand(c, x) = c.lease) /\ (proc.v = x => InHand(proc, x) = proc.lease)
      /\ (proc.v # x => InHand(proc, x) = NoLease)
  BY LeaseFacts DEF InHand, Intent
<1>3. Flows(x, mem'[x], table'[x], c)
  BY <1>1, <1>2 DEF Flows, One, OneOf, Stems, SamePlace, AnyDiscard, DiscardPending, LiveLease
<1> QED
  BY <1>3 DEF LeaseFlow

\* A call whose script has run to its end is done with its lease.
LEMMA DoneFacts ==
  ASSUME SessionInv, proc.pc \in ReleasePcs, proc.io = <<>>, proc.ok
  PROVE  proc.lease.state \notin Intent
BY Now DEF EndOK, FinalLease

LEMMA QuietFacts ==
  ASSUME SessionInv, proc.pc \in QuietPcs \cup {"persisted"}
  PROVE  proc.lease = NoLease /\ proc.lease.state \notin Intent
BY Now, LeaseFacts DEF HandOK, Intent

LEMMA ContinueColdFlows ==
  ASSUME SessionInv, OneInv, ContinueCold
  PROVE  LeaseFlow
<1>1. PICK c : c = proc'
  OBVIOUS
<1>2. /\ proc.pc = "cold" /\ c = Idle /\ UNCHANGED <<disk, durable, table>>
      /\ mem' = IF proc.ok THEN [mem EXCEPT ![proc.s].at = "task"] ELSE mem
  BY <1>1 DEF ContinueCold, Reached, disk_vars
<1>3. c.top # "fork" /\ c.lease = NoLease
  BY <1>2, IdleFacts
<1>4. \A s \in Sessions : mem'[s].lease = mem[s].lease
  BY <1>2, Now DEF Held
<1>5. proc.lease.state \notin Intent /\ proc.v \in Sessions
  BY <1>2, QuietFacts, Now
<1> QED
  BY <1>1, <1>2, <1>3, <1>4, <1>5, EndFlows

LEMMA AttachResidentSessionFlows ==
  ASSUME SessionInv, OneInv, AttachResidentSession
  PROVE  LeaseFlow
<1>1. PICK c : c = proc'
  OBVIOUS
<1>2. /\ proc.pc = "attach" /\ c = Idle /\ UNCHANGED <<disk, durable, table>>
  BY <1>1 DEF AttachResidentSession, Reached, disk_vars
<1>3. c.top # "fork" /\ c.lease = NoLease
  BY <1>2, IdleFacts
<1>4. proc.v = proc.s /\ proc.v \in Sessions /\ mem[proc.v].lease = NoLease /\ (~proc.ok => proc.lease = NoLease)
  BY <1>2, Now DEF CallOK, HandOK
<1>5. CASE ~proc.ok
  <2>1. UNCHANGED mem
    BY <1>5 DEF AttachResidentSession
  <2>2. proc.lease.state \notin Intent
    BY <1>4, <1>5, LeaseFacts DEF Intent
  <2> QED
    BY <1>1, <1>2, <1>3, <1>4, <2>1, <2>2, EndFlows
<1>6. CASE proc.ok
  <2>1. /\ mem'[proc.v].lease = proc.lease
        /\ \A s \in Sessions \ {proc.v} : mem'[s].lease = mem[s].lease
    BY <1>4, <1>6, Now DEF AttachResidentSession, Holding, Held
  <2> QED
    BY <1>1, <1>2, <1>3, <1>4, <2>1, GiveFlows
<1> QED
  BY <1>5, <1>6

LEMMA WakeHibernatedSessionFlows ==
  ASSUME SessionInv, OneInv, WakeHibernatedSession
  PROVE  LeaseFlow
<1>1. PICK c : c = proc'
  OBVIOUS
<1>2. proc.pc = "wake" /\ proc.io = <<>> /\ UNCHANGED <<disk, durable, table>>
  BY DEF WakeHibernatedSession, Reached, disk_vars
<1>3. /\ proc.v = proc.s /\ proc.v \in Sessions /\ mem[proc.v].lease = NoLease
      /\ (~proc.ok => proc.lease = NoLease) /\ proc.top # "fork"
  BY <1>2, Now DEF CallOK, HandOK, OneInv
<1>4. CASE proc' = Idle /\ proc.lease = NoLease /\ \A s \in Sessions : mem'[s].lease = mem[s].lease
  <2>1. c.top # "fork" /\ c.lease = NoLease /\ proc.lease.state \notin Intent
    BY <1>1, <1>4, IdleFacts, LeaseFacts DEF Intent
  <2> QED
    BY <1>1, <1>2, <1>3, <1>4, <2>1, EndFlows
<1>5. CASE \E outcome \in {"woken", "wakeFailed"} :
             proc' = Call(outcome, proc.lease, Restore(proc.s, proc.lease)) /\ UNCHANGED mem
  <2>1. c.lease = proc.lease /\ c.v = proc.v /\ c.top = proc.top
    BY <1>1, <1>5, Now DEF Call, CallType
  <2> QED
    BY <1>1, <1>2, <1>3, <1>5, <2>1, StayFlows DEF SamePlace
<1>6. CASE /\ proc' = [DiscardLeased(proc.lease) EXCEPT !.then = "ended"]
           /\ UNCHANGED mem /\ kept' = [kept EXCEPT ![proc.s] = 0]
  <2>1. kept'[proc.v] = 0
    BY <1>3, <1>6, Now DEF CountTypes
  <2>2. SamePlace(proc.lease, c.lease) /\ c.v = proc.v /\ c.top = proc.top /\ c.pc = "discarded"
    BY <1>1, <1>6, Now DEF DiscardLeased, Call, CallType, Lease, SamePlace
  <2> QED
    BY <1>1, <1>2, <1>3, <1>6, <2>1, <2>2, StayFlows
<1>7. ASSUME RemoveSessionState(proc.s)
      PROVE  \A s \in Sessions : mem'[s].lease = mem[s].lease
  BY <1>3, <1>7, Now, AbsentFacts DEF RemoveSessionState
<1> QED
  BY <1>3, <1>4, <1>5, <1>6, <1>7 DEF WakeHibernatedSession

LEMMA FinishWakeFlows ==
  ASSUME SessionInv, OneInv, FinishWake
  PROVE  LeaseFlow
<1>1. PICK c : c = proc'
  OBVIOUS
<1>2. proc.pc = "woken" /\ proc.io = <<>> /\ UNCHANGED <<disk, durable, table>>
  BY DEF FinishWake, Reached, disk_vars
<1>3. /\ proc.v = proc.s /\ proc.v \in Sessions /\ mem[proc.v].lease = NoLease /\ proc.top # "fork"
      /\ (proc.ok => proc.lease.state \notin Intent)
  BY <1>2, Now, DoneFacts DEF CallOK, HandOK, OneInv, ReleasePcs, ScriptPcs
<1>4. c.top # "fork" /\ c.lease = NoLease
  BY <1>1, <1>3, IdleFacts DEF FinishWake, Begin, Enter
<1>5. CASE ~proc.ok
  <2>1. /\ mem'[proc.v].lease = proc.lease
        /\ \A s \in Sessions \ {proc.v} : mem'[s].lease = mem[s].lease
    BY <1>3, <1>5, Now DEF FinishWake, Holding, Held
  <2> QED
    BY <1>1, <1>2, <1>3, <1>4, <2>1, GiveFlows
<1>6. CASE proc.ok
  <2>1. \A s \in Sessions : mem'[s].lease = mem[s].lease
    BY <1>3, <1>6, Now DEF FinishWake, Held
  <2> QED
    BY <1>1, <1>2, <1>3, <1>4, <1>6, <2>1, EndFlows
<1> QED
  BY <1>5, <1>6

LEMMA FinishWakeErrorFlows ==
  ASSUME SessionInv, OneInv, FinishWakeError
  PROVE  LeaseFlow
<1>1. PICK c : c = proc'
  OBVIOUS
<1>2. proc.pc = "wakeFailed" /\ proc.io = <<>> /\ c = Idle /\ UNCHANGED <<disk, durable, table>>
  BY <1>1 DEF FinishWakeError, Reached, disk_vars
<1>3. /\ proc.v = proc.s /\ proc.v \in Sessions /\ mem[proc.v].lease = NoLease
      /\ (proc.ok => proc.lease.state \notin Intent)
  BY <1>2, Now, DoneFacts DEF CallOK, HandOK, ReleasePcs, ScriptPcs
<1>4. c.top # "fork" /\ c.lease = NoLease
  BY <1>2, IdleFacts
<1>5. CASE ~proc.ok
  <2>1. /\ mem'[proc.v].lease = proc.lease
        /\ \A s \in Sessions \ {proc.v} : mem'[s].lease = mem[s].lease
    BY <1>3, <1>5, Now DEF FinishWakeError, Holding, Held
  <2> QED
    BY <1>1, <1>2, <1>3, <1>4, <2>1, GiveFlows
<1>6. CASE proc.ok
  BY <1>1, <1>2, <1>3, <1>4, <1>6, EndFlows DEF FinishWakeError
<1> QED
  BY <1>5, <1>6

\* A retained lease has its place in the table.
LEMMA RetainsFlow ==
  ASSUME SessionInv, OneInv, table[proc.v] = NoLease, RetainedOK(proc.lease),
         NEW c, c = proc', c.top # "fork", c.lease = NoLease, UNCHANGED <<disk, durable>>,
         \A s \in Sessions : mem'[s].lease = mem[s].lease, table' = Retained(proc.v, proc.lease)
  PROVE  LeaseFlow
<1>1. table' = [table EXCEPT ![proc.v] = proc.lease] /\ proc.v \in Sessions /\ table \in [Sessions -> Lease]
  BY RetainedFacts, Now
<1>2. table'[proc.v] = proc.lease /\ \A s \in Sessions \ {proc.v} : table'[s] = table[s]
  BY <1>1
<1> QED
  BY <1>1, <1>2, RetainFlows

LEMMA PersistedMetadataFlows ==
  ASSUME SessionInv, OneInv, PersistedMetadata
  PROVE  LeaseFlow
<1>1. PICK c : c = proc'
  OBVIOUS
<1>2. /\ proc.pc = "metadata" /\ proc.io = <<>> /\ UNCHANGED <<disk, durable>>
      /\ table' = Retained(proc.s, proc.lease)
  BY DEF PersistedMetadata, Reached, disk_vars
<1>3. /\ proc.v = proc.s /\ proc.v \in Sessions /\ proc.top # "fork"
      /\ (~proc.ok => proc.lease = NoLease) /\ (proc.ok => table[proc.v] = NoLease)
      /\ Waiting(proc.lease) /\ (LiveLease(proc.lease) => proc.lease.slot)
  BY <1>2, Now DEF CallOK, HandOK, OneInv
<1>4. c.top # "fork" /\ c.lease = NoLease
  BY <1>1, <1>3, IdleFacts DEF PersistedMetadata, Begin, Enter
<1>5. \A s \in Sessions : mem'[s].lease = mem[s].lease
  BY <1>3, Now DEF PersistedMetadata, Held
<1>6. CASE proc.ok
  BY <1>1, <1>2, <1>3, <1>4, <1>5, <1>6, RetainsFlow DEF RetainedOK, Waiting
<1>7. CASE ~proc.ok
  <2>1. table' = table /\ proc.lease.state \notin Intent
    BY <1>2, <1>3, <1>7, LeaseFacts DEF Retained, Intent
  <2> QED
    BY <1>1, <1>2, <1>3, <1>4, <1>5, <2>1, EndFlows
<1> QED
  BY <1>6, <1>7

LEMMA RestorePersistedFlows ==
  ASSUME SessionInv, OneInv, RestorePersisted
  PROVE  LeaseFlow
<1>1. PICK c : c = proc'
  OBVIOUS
<1>2. proc.pc = "restoring" /\ proc.io = <<>> /\ UNCHANGED <<disk, durable, table>>
  BY DEF RestorePersisted, Reached, disk_vars
<1>3. /\ proc.v = proc.s /\ proc.v \in Sessions /\ proc.top = "continue"
      /\ (~proc.ok => proc.lease = NoLease) /\ mem[proc.v].lease = NoLease
  BY <1>2, Now DEF CallOK, HandOK, OneInv, WhereOK, SessionOK
<1>4. CASE ~proc.ok /\ proc' = Idle /\ UNCHANGED mem
  <2>1. c.top # "fork" /\ c.lease = NoLease /\ proc.lease.state \notin Intent
    BY <1>1, <1>3, <1>4, IdleFacts, LeaseFacts DEF Intent
  <2> QED
    BY <1>1, <1>2, <1>3, <1>4, <2>1, EndFlows
<1>5. CASE /\ proc' = Idle
           /\ mem' = [mem EXCEPT ![proc.s] = [at |-> "task", lease |-> proc.lease,
                                              last_used |-> persisted[proc.s]]]
  <2>1. c.top # "fork" /\ c.lease = NoLease
    BY <1>1, <1>5, IdleFacts
  <2>2. /\ mem'[proc.v].lease = proc.lease
        /\ \A s \in Sessions \ {proc.v} : mem'[s].lease = mem[s].lease
    BY <1>3, <1>5, Now
  <2> QED
    BY <1>1, <1>2, <1>3, <2>1, <2>2, GiveFlows
<1>6. CASE proc' = Call("unloaded", proc.lease, Restore(proc.s, proc.lease)) /\ UNCHANGED mem
  <2>1. c.lease = proc.lease /\ c.v = proc.v /\ c.top = proc.top
    BY <1>1, <1>6, Now DEF Call, CallType
  <2> QED
    BY <1>1, <1>2, <1>3, <1>6, <2>1, StayFlows DEF SamePlace
<1> QED
  BY <1>4, <1>5, <1>6 DEF RestorePersisted

LEMMA ReferenceRestoredFlows ==
  ASSUME SessionInv, OneInv, ReferenceRestored
  PROVE  LeaseFlow
<1>1. PICK c : c = proc'
  OBVIOUS
<1>2. /\ proc.pc = "unloaded" /\ proc.io = <<>> /\ UNCHANGED <<disk, durable, mem>> /\ c = Idle
      /\ table' = IF proc.ok THEN table ELSE Retained(proc.s, proc.lease)
  BY <1>1 DEF ReferenceRestored, Reached, disk_vars
<1>3. /\ proc.v = proc.s /\ proc.v \in Sessions /\ table[proc.v] = NoLease
      /\ (proc.ok => proc.lease.state \notin Intent) /\ (~proc.ok => Waiting(proc.lease))
      /\ (LiveLease(proc.lease) => proc.lease.slot)
  BY <1>2, Now, DoneFacts DEF CallOK, HandOK, ReleasePcs, ScriptPcs
<1>4. c.top # "fork" /\ c.lease = NoLease
  BY <1>2, IdleFacts
<1>5. CASE proc.ok
  BY <1>1, <1>2, <1>3, <1>4, <1>5, EndFlows
<1>6. CASE ~proc.ok
  BY <1>1, <1>2, <1>3, <1>4, <1>6, RetainsFlow DEF RetainedOK, Waiting
<1> QED
  BY <1>5, <1>6

LEMMA PersistedFlows ==
  ASSUME SessionInv, OneInv, Persisted
  PROVE  LeaseFlow
<1>1. PICK c : c = proc'
  OBVIOUS
<1>2. /\ proc.pc = "persisted" /\ UNCHANGED <<disk, durable, table>> /\ mem' = TakeLease(proc.s)
  BY <1>1 DEF Persisted, Reached, disk_vars
<1>3. proc.v = proc.s /\ proc.v \in Sessions /\ proc.lease.state \notin Intent /\ proc.top # "fork"
  BY <1>2, Now, QuietFacts DEF CallOK, OneInv
<1>4. c.v = proc.v /\ c.lease = mem[proc.v].lease /\ c.top \in {proc.top, "retain"}
  BY <1>1, <1>3, Now DEF Persisted, Call, CallType
<1>5. mem'[proc.v].lease = NoLease /\ \A s \in Sessions \ {proc.v} : mem'[s].lease = mem[s].lease
  BY <1>2, <1>3, Now DEF TakeLease, Held
<1>6. c.top # "fork"
  BY <1>3, <1>4
<1> QED
  BY <1>1, <1>2, <1>3, <1>4, <1>5, <1>6, TakeFlows

LEMMA RetiredFlows ==
  ASSUME SessionInv, OneInv, Retired
  PROVE  LeaseFlow
<1>1. PICK c : c = proc'
  OBVIOUS
<1>2. proc.pc = "retired" /\ proc.io = <<>> /\ UNCHANGED <<disk, durable>>
  BY DEF Retired, Reached, disk_vars
<1>3. /\ proc.v = proc.s /\ proc.v \in Sessions /\ mem[proc.v].lease = NoLease
      /\ (proc.ok => proc.lease.state \notin Intent) /\ proc.top # "fork" /\ proc.top \in Tops
      /\ (~proc.ok => Waiting(proc.lease)) /\ (LiveLease(proc.lease) => ~DiscardPending(proc.lease))
      /\ (LiveLease(proc.lease) => proc.lease.slot \/ proc.lease.discard)
  BY <1>2, Now, DoneFacts DEF CallOK, HandOK, OneInv, ReleasePcs, ScriptPcs
<1>4. c.top # "fork" /\ c.lease = NoLease
  BY <1>1, <1>3, IdleFacts DEF Retired, Proceed, Enter
<1>5. CASE proc.ok
  <2>1. \A s \in Sessions : mem'[s].lease = mem[s].lease
    BY <1>3, <1>5, Now DEF Retired, Held
  <2> QED
    BY <1>1, <1>2, <1>3, <1>4, <1>5, <2>1, EndFlows DEF Retired
<1>6. CASE ~proc.ok /\ CanRetain(proc.s)
  <2>1. /\ \A s \in Sessions : mem'[s].lease = mem[s].lease
        /\ table' = Retained(proc.v, proc.lease) /\ table[proc.v] = NoLease
    BY <1>3, <1>6, Now DEF Retired, Held, CanRetain
  <2>2. RetainedOK(proc.lease)
    BY <1>3, <1>6 DEF RetainedOK, Waiting, DiscardPending
  <2> QED
    BY <1>1, <1>2, <1>4, <2>1, <2>2, RetainsFlow
<1>7. CASE ~proc.ok /\ ~CanRetain(proc.s)
  <2>1. /\ mem'[proc.v].lease = proc.lease
        /\ \A s \in Sessions \ {proc.v} : mem'[s].lease = mem[s].lease
        /\ table' = table
    BY <1>3, <1>7, Now DEF Retired, Held, Retained
  <2> QED
    BY <1>1, <1>2, <1>3, <1>4, <2>1, GiveFlows
<1> QED
  BY <1>5, <1>6, <1>7

LEMMA RetainedSessionFlows ==
  ASSUME SessionInv, OneInv, RetainedSession
  PROVE  LeaseFlow
<1>1. PICK c : c = proc'
  OBVIOUS
<1>2. proc.pc = "retained" /\ proc.io = <<>> /\ UNCHANGED <<disk, durable, table>>
  BY DEF RetainedSession, Reached, disk_vars
<1>3. /\ proc.v = proc.s /\ proc.v \in Sessions /\ mem[proc.v].lease = NoLease
      /\ (proc.ok => proc.lease.state \notin Intent) /\ proc.top # "fork"
  BY <1>2, Now, DoneFacts DEF CallOK, HandOK, OneInv, ReleasePcs, ScriptPcs
<1>4. c.top # "fork" /\ c.lease = NoLease
  BY <1>1, <1>3, IdleFacts DEF RetainedSession, Proceed, Enter
<1>5. CASE ~proc.ok
  <2>1. /\ mem'[proc.v].lease = proc.lease
        /\ \A s \in Sessions \ {proc.v} : mem'[s].lease = mem[s].lease
    BY <1>3, <1>5, Now DEF RetainedSession, Held
  <2> QED
    BY <1>1, <1>2, <1>3, <1>4, <2>1, GiveFlows
<1>6. CASE proc.ok
  <2>1. \A s \in Sessions : mem'[s].lease = mem[s].lease
    BY <1>3, <1>6, Now DEF RetainedSession, Held
  <2> QED
    BY <1>1, <1>2, <1>3, <1>4, <1>6, <2>1, EndFlows
<1> QED
  BY <1>5, <1>6

LEMMA TaskDiscardedFlows ==
  ASSUME SessionInv, OneInv, TaskDiscarded
  PROVE  LeaseFlow
<1>1. PICK c : c = proc'
  OBVIOUS
<1>2. /\ proc.pc \in {"cancelled", "ended"} /\ UNCHANGED <<disk, durable, mem, table>>
      /\ c = Begin("discard", "ended", "ended", proc.s, NoLease) \/ c = Idle
  BY <1>1 DEF TaskDiscarded, Reached, disk_vars
<1>3. c.top # "fork" /\ c.lease = NoLease
  BY <1>2, IdleFacts DEF Begin, Enter
<1>4. proc.lease.state \notin Intent /\ proc.v \in Sessions
  BY <1>2, QuietFacts, Now
<1> QED
  BY <1>1, <1>2, <1>3, <1>4, EndFlows

LEMMA RespondFlows ==
  ASSUME SessionInv, OneInv, Respond
  PROVE  LeaseFlow
<1>1. PICK c : c = proc'
  OBVIOUS
<1>2. proc.pc = "respond" /\ UNCHANGED <<disk, durable, table>>
  BY DEF Respond, Reached, disk_vars
<1>3. proc.lease.state \notin Intent /\ proc.v \in Sessions /\ proc.s \in Sessions
  BY <1>2, QuietFacts, Now
<1>4. CASE proc' = Idle /\ UNCHANGED mem
  <2>1. c.top # "fork" /\ c.lease = NoLease
    BY <1>1, <1>4, IdleFacts
  <2> QED
    BY <1>1, <1>2, <1>3, <1>4, <2>1, EndFlows
<1>5. CASE mem' = TakeLease(proc.s) /\ proc' = Begin("discard", "ended", "ended", proc.s, mem[proc.s].lease)
  <2>1. mem'[proc.s].lease = NoLease /\ \A s \in Sessions \ {proc.s} : mem'[s].lease = mem[s].lease
    BY <1>3, <1>5, Now DEF TakeLease, Held
  <2>2. c.v = proc.s /\ c.lease = mem[proc.s].lease /\ c.top # "fork"
    BY <1>1, <1>5 DEF Begin, Enter
  <2> QED
    BY <1>1, <1>2, <1>3, <2>1, <2>2, TakeFlows
<1> QED
  BY <1>4, <1>5 DEF Respond

\* A session's lease is taken by a call of insert_session or of a request.
LEMMA TakesFlow ==
  ASSUME SessionInv, OneInv, NEW x \in Sessions, proc.lease.state \notin Intent, NEW c, c = proc',
         c.v = x, c.lease = mem[x].lease, c.top # "fork", mem' = TakeLease(x),
         UNCHANGED <<disk, durable, table>>
  PROVE  LeaseFlow
<1>1. mem'[x].lease = NoLease /\ \A s \in Sessions \ {x} : mem'[s].lease = mem[s].lease
  BY Now DEF TakeLease, Held
<1> QED
  BY <1>1, TakeFlows

LEMMA InsertEndsTop ==
  ASSUME OneInv, NEW ok, InsertEnds(ok), NEW c, c = proc'
  PROVE  c.top # "fork" /\ c.lease = NoLease
BY IdleFacts DEF InsertEnds, Begin, Enter, OneInv

LEMMA DiscardOldestHibernatedFlows ==
  ASSUME SessionInv, OneInv, proc.pc = "fit", DiscardOldestHibernated, InState("hibernated") # {},
         UNCHANGED <<disk, durable, table>>
  PROVE  LeaseFlow
<1>1. PICK c : c = proc'
  OBVIOUS
<1>2. PICK v \in Sessions : v = Oldest(InState("hibernated"))
  BY OldestFacts DEF InState
<1>3. proc.lease.state \notin Intent /\ proc.top # "fork"
  BY QuietFacts DEF OneInv
<1>4. mem' = TakeLease(v) /\ c.v = v /\ c.lease = mem[v].lease /\ c.top = proc.top
  BY <1>1, <1>2 DEF DiscardOldestHibernated, Proceed, Enter
<1> QED
  BY <1>1, <1>3, <1>4, TakesFlow

LEMMA FitFlows ==
  ASSUME SessionInv, OneInv, Fit
  PROVE  LeaseFlow
<1>1. PICK c : c = proc'
  OBVIOUS
<1>2. proc.pc = "fit" /\ UNCHANGED <<disk, durable, table>>
  BY DEF Fit, Reached, disk_vars
<1>3. proc.lease.state \notin Intent /\ proc.v \in Sessions /\ proc.top # "fork"
  BY <1>2, QuietFacts, Now DEF OneInv
<1>4. ASSUME NEW ok, InsertEnds(ok), UNCHANGED mem
      PROVE  LeaseFlow
  <2>1. c.top # "fork" /\ c.lease = NoLease
    BY <1>1, <1>4, InsertEndsTop
  <2> QED
    BY <1>1, <1>2, <1>3, <1>4, <2>1, EndFlows
<1>5. ASSUME InState("hibernated") # {}, DiscardOldestHibernated
      PROVE  LeaseFlow
  BY <1>2, <1>5, DiscardOldestHibernatedFlows
<1>6. Cardinality(InState("hibernated")) > MaxHibernated => InState("hibernated") # {}
  BY FS_EmptySet, StoreAssumption
<1>7. CASE Cardinality(InState("resident")) > MaxSessions
  <2>1. InState("resident") # {}
    BY <1>7, FS_EmptySet, StoreAssumption
  <2>2. PICK v \in Sessions : v = Oldest(InState("resident"))
    BY <2>1, OldestFacts DEF InState
  <2>3. ASSUME mem' = TakeLease(v), c = Proceed("discard", "fitDiscarded", v, mem[v].lease)
                                    \/ c = Proceed("hibernating", "none", v, mem[v].lease)
                                    \/ (mem[v].lease = NoLease /\ c = Proceed("lease", "hibernating", v, NoLease))
        PROVE  LeaseFlow
    <3>1. c.v = v /\ c.lease = mem[v].lease /\ c.top = proc.top
      BY <2>3 DEF Proceed, Enter
    <3> QED
      BY <1>1, <1>2, <1>3, <2>3, <3>1, TakesFlow
  <2>4. \/ mem' = TakeLease(v) /\ proc' = Proceed("discard", "fitDiscarded", v, mem[v].lease)
        \/ /\ mem' = TakeLease(v)
           /\ proc' = IF mem[v].lease # NoLease THEN Proceed("hibernating", "none", v, mem[v].lease)
                      ELSE Proceed("lease", "hibernating", v, NoLease)
        \/ InState("hibernated") # {} /\ DiscardOldestHibernated
        \/ InsertEnds(FALSE) /\ UNCHANGED mem
        \/ Cardinality(InState("resident")) <= MaxSessions
    BY <1>7, <2>2 DEF Fit
  <2>5. ~(Cardinality(InState("resident")) <= MaxSessions)
    <3>1. IsFiniteSet(InState("resident"))
      BY StoreAssumption, FS_Subset DEF InState
    <3>2. Cardinality(InState("resident")) \in Nat
      BY <3>1, FS_CardinalityType
    <3> QED
      BY <1>7, <3>2, StoreAssumption
  <2> QED
    BY <1>1, <1>4, <1>5, <2>3, <2>4, <2>5
<1>8. CASE ~(Cardinality(InState("resident")) > MaxSessions)
  BY <1>4, <1>5, <1>6, <1>8 DEF Fit
<1> QED
  BY <1>7, <1>8

LEMMA FitContinuesFlows ==
  ASSUME SessionInv, OneInv, FitContinues
  PROVE  LeaseFlow
<1>1. PICK c : c = proc'
  OBVIOUS
<1>2. proc.io = <<>> /\ UNCHANGED <<disk, durable, table>>
  BY DEF FitContinues, Reached, disk_vars
<1>3. proc.v \in Sessions /\ proc.top # "fork"
  BY Now DEF OneInv
<1>4. c.top # "fork" /\ c.lease = NoLease
  <2>1. InsertEnds(FALSE) \/ c = Proceed("fit", "none", proc.s, NoLease)
    BY <1>1 DEF FitContinues
  <2>2. CASE InsertEnds(FALSE)
    BY <1>1, <2>2, InsertEndsTop
  <2>3. CASE c = Proceed("fit", "none", proc.s, NoLease)
    BY <1>3, <2>3 DEF Proceed, Enter
  <2> QED
    BY <2>1, <2>2, <2>3
<1>5. CASE proc.pc \in {"fitDiscarded", "lost"}
  <2>1. UNCHANGED mem /\ proc.lease.state \notin Intent
    BY <1>5, QuietFacts DEF FitContinues, Reached
  <2> QED
    BY <1>1, <1>2, <1>3, <1>4, <2>1, EndFlows
<1>6. CASE proc.pc = "evicted"
  <2>1. mem[proc.v].lease = NoLease /\ (proc.ok => proc.lease.state \notin Intent)
    BY <1>2, <1>6, Now, DoneFacts DEF HandOK, ReleasePcs, ScriptPcs
  <2>2. CASE proc.ok
    <3>1. \A s \in Sessions : mem'[s].lease = mem[s].lease
      BY <1>3, <1>6, <2>1, <2>2, Now, AbsentFacts DEF FitContinues, Reached
    <3> QED
      BY <1>1, <1>2, <1>3, <1>4, <2>1, <2>2, <3>1, EndFlows
  <2>3. CASE ~proc.ok
    <3>1. /\ mem'[proc.v].lease = proc.lease
          /\ \A s \in Sessions \ {proc.v} : mem'[s].lease = mem[s].lease
      BY <1>3, <1>6, <2>3, Now DEF FitContinues, Reached, Holding, Held
    <3> QED
      BY <1>1, <1>2, <1>3, <1>4, <2>1, <3>1, GiveFlows
  <2> QED
    BY <2>2, <2>3
<1> QED
  BY <1>5, <1>6 DEF FitContinues, Reached

LEMMA HibernateStoredFlows ==
  ASSUME SessionInv, OneInv, HibernateStored
  PROVE  LeaseFlow
<1>1. PICK c : c = proc'
  OBVIOUS
<1>2. proc.pc = "hibernating" /\ proc.io = <<>> /\ UNCHANGED <<disk, durable, table>>
  BY DEF HibernateStored, Reached, disk_vars
<1>3. /\ proc.v \in Sessions /\ mem[proc.v].lease = NoLease
      /\ (~proc.ok => proc.lease = NoLease) /\ proc.top # "fork"
  BY <1>2, Now DEF HandOK, OneInv
<1>4. CASE InsertEnds(FALSE) /\ proc.lease = NoLease /\ \A s \in Sessions : mem'[s].lease = mem[s].lease
  <2>1. c.top # "fork" /\ c.lease = NoLease /\ proc.lease.state \notin Intent
    BY <1>1, <1>4, InsertEndsTop, LeaseFacts DEF Intent
  <2> QED
    BY <1>1, <1>2, <1>3, <1>4, <2>1, EndFlows
<1>5. CASE \E outcome \in {"captured", "uncaptured"} :
             proc' = Call(outcome, proc.lease, Restore(proc.v, proc.lease)) /\ UNCHANGED mem
  <2>1. c.lease = proc.lease /\ c.v = proc.v /\ c.top = proc.top
    BY <1>1, <1>5, Now DEF Call, CallType
  <2> QED
    BY <1>1, <1>2, <1>3, <1>5, <2>1, StayFlows DEF SamePlace
<1>6. CASE /\ proc' = [DiscardLeased(proc.lease) EXCEPT !.then = "lost"]
           /\ mem' = [mem EXCEPT ![proc.v] = Absent] /\ kept' = [kept EXCEPT ![proc.v] = 0]
  <2>1. kept'[proc.v] = 0 /\ \A s \in Sessions : mem'[s].lease = mem[s].lease
    BY <1>3, <1>6, Now, AbsentFacts DEF CountTypes
  <2>2. SamePlace(proc.lease, c.lease) /\ c.v = proc.v /\ c.top = proc.top /\ c.pc = "discarded"
    BY <1>1, <1>6, Now DEF DiscardLeased, Call, CallType, Lease, SamePlace
  <2> QED
    BY <1>1, <1>2, <1>3, <1>6, <2>1, <2>2, StayFlows
<1>7. ASSUME RemoveSessionState(proc.v)
      PROVE  \A s \in Sessions : mem'[s].lease = mem[s].lease
  BY <1>3, <1>7, Now, AbsentFacts DEF RemoveSessionState
<1> QED
  BY <1>3, <1>4, <1>5, <1>6, <1>7 DEF HibernateStored

LEMMA StoreHibernatedFlows ==
  ASSUME SessionInv, OneInv, StoreHibernated
  PROVE  LeaseFlow
<1>1. PICK c : c = proc'
  OBVIOUS
<1>2. proc.pc = "captured" /\ proc.io = <<>> /\ UNCHANGED <<disk, durable, table>>
  BY DEF StoreHibernated, Reached, disk_vars
<1>3. /\ proc.v \in Sessions /\ mem[proc.v].lease = NoLease /\ proc.top # "fork"
      /\ (proc.ok => proc.lease.state \notin Intent)
  BY <1>2, Now, DoneFacts DEF HandOK, OneInv, ReleasePcs, ScriptPcs
<1>4. c.top # "fork" /\ c.lease = NoLease
  <2>1. InsertEnds(FALSE) \/ c = Proceed("fit", "none", proc.s, NoLease)
    BY <1>1 DEF StoreHibernated
  <2>2. CASE InsertEnds(FALSE)
    BY <1>1, <2>2, InsertEndsTop
  <2>3. CASE c = Proceed("fit", "none", proc.s, NoLease)
    BY <1>3, <2>3 DEF Proceed, Enter
  <2> QED
    BY <2>1, <2>2, <2>3
<1>5. /\ mem'[proc.v].lease = IF proc.ok THEN NoLease ELSE proc.lease
      /\ \A s \in Sessions \ {proc.v} : mem'[s].lease = mem[s].lease
  BY <1>3, Now DEF StoreHibernated, Held
<1>6. CASE proc.ok
  BY <1>1, <1>2, <1>3, <1>4, <1>5, <1>6, EndFlows
<1>7. CASE ~proc.ok
  BY <1>1, <1>2, <1>3, <1>4, <1>5, <1>7, GiveFlows
<1> QED
  BY <1>6, <1>7

LEMMA RestoreFailedHibernationFlows ==
  ASSUME SessionInv, OneInv, RestoreFailedHibernation
  PROVE  LeaseFlow
<1>1. PICK c : c = proc'
  OBVIOUS
<1>2. proc.pc = "uncaptured" /\ proc.io = <<>> /\ UNCHANGED <<disk, durable, table>> /\ InsertEnds(FALSE)
  BY DEF RestoreFailedHibernation, Reached, disk_vars
<1>3. /\ proc.v \in Sessions /\ mem[proc.v].lease = NoLease
      /\ (proc.ok => proc.lease.state \notin Intent)
  BY <1>2, Now, DoneFacts DEF HandOK, ReleasePcs, ScriptPcs
<1>4. c.top # "fork" /\ c.lease = NoLease
  BY <1>1, <1>2, InsertEndsTop
<1>5. CASE proc.ok
  BY <1>1, <1>2, <1>3, <1>4, <1>5, EndFlows DEF RestoreFailedHibernation
<1>6. CASE ~proc.ok
  <2>1. /\ mem'[proc.v].lease = proc.lease
        /\ \A s \in Sessions \ {proc.v} : mem'[s].lease = mem[s].lease
    BY <1>3, <1>6, Now DEF RestoreFailedHibernation, Holding, Held
  <2> QED
    BY <1>1, <1>2, <1>3, <1>4, <2>1, GiveFlows
<1> QED
  BY <1>5, <1>6

\* A request leaves the leases where they are, with none in hand.
LEMMA LeaveFlows ==
  ASSUME SessionInv, OneInv, proc.pc \in QuietPcs \cup {"persisted"}, NEW c, c = proc', c.top # "fork",
         c.lease = NoLease, UNCHANGED <<disk, durable, table>>,
         \A s \in Sessions : mem'[s].lease = mem[s].lease
  PROVE  LeaseFlow
<1>1. proc.lease.state \notin Intent /\ proc.v \in Sessions
  BY QuietFacts, Now
<1> QED
  BY <1>1, EndFlows

LEMMA LeaseContinueSessionFlows ==
  ASSUME SessionInv, OneInv, NEW s \in Sessions, LeaseContinueSession(s)
  PROVE  LeaseFlow
<1>1. PICK c : c = proc'
  OBVIOUS
<1>2. /\ proc.pc = "idle" /\ mem[s].at # "task" /\ UNCHANGED <<disk, durable, table>>
      /\ mem' = TakeLease(s)
  BY DEF LeaseContinueSession, disk_vars
<1>3. proc.lease.state \notin Intent
  BY <1>2, QuietFacts
<1>4. mem[s].at \in {"absent", "resident", "hibernated"} /\ (mem[s].at = "absent" => ~DiscardPending(mem[s].lease))
      /\ (mem[s].at = "absent" => mem[s].lease = NoLease)
  BY <1>2, Now, LeaseFacts DEF SessionOK, Held
<1>5. \E pc, then : c = Begin(pc, "continue", then, s, mem[s].lease)
  BY <1>1, <1>4 DEF LeaseContinueSession
<1>6. c.v = s /\ c.lease = mem[s].lease /\ c.top # "fork"
  BY <1>5 DEF Begin, Enter
<1> QED
  BY <1>1, <1>2, <1>3, <1>6, TakesFlow

LEMMA PersistChatSessionFlows ==
  ASSUME SessionInv, OneInv, NEW s \in Sessions, PersistChatSession(s)
  PROVE  LeaseFlow
<1>1. PICK c : c = proc'
  OBVIOUS
<1>2. /\ proc.pc = "idle" /\ UNCHANGED <<disk, durable, table>>
      /\ mem' = [mem EXCEPT ![s].last_used = clock + 1]
      /\ c = [Begin("persisted", "finish", "none", s, NoLease) EXCEPT !.io = Persist(clock + 1)]
  BY <1>1 DEF PersistChatSession, disk_vars
<1>3. c.top # "fork" /\ c.lease = NoLease
  BY <1>2 DEF Begin, Enter
<1>4. \A r \in Sessions : mem'[r].lease = mem[r].lease
  BY <1>2, Now DEF Held
<1> QED
  BY <1>1, <1>2, <1>3, <1>4, LeaveFlows

LEMMA RetainFailedSessionFlows ==
  ASSUME SessionInv, OneInv, NEW s \in Sessions, RetainFailedSession(s)
  PROVE  LeaseFlow
<1>1. PICK c : c = proc'
  OBVIOUS
<1>2. /\ proc.pc = "idle" /\ UNCHANGED <<disk, durable, table>> /\ mem' = TakeLease(s)
      /\ c = [Begin("retained", "retain", "none", s, mem[s].lease) EXCEPT !.io = Restore(s, mem[s].lease)]
  BY <1>1 DEF RetainFailedSession, disk_vars
<1>3. proc.lease.state \notin Intent
  BY <1>2, QuietFacts
<1>4. c.top # "fork" /\ c.lease = mem[s].lease /\ c.v = s
  BY <1>2 DEF Begin, Enter
<1> QED
  BY <1>1, <1>2, <1>3, <1>4, TakesFlow

LEMMA DiscardStoredSessionFlows ==
  ASSUME SessionInv, OneInv, NEW s \in Sessions, NEW why \in {"cancelled", "ended"},
         DiscardStoredSession(s, why)
  PROVE  LeaseFlow
<1>1. PICK c : c = proc'
  OBVIOUS
<1>2. /\ proc.pc = "idle" /\ UNCHANGED <<disk, durable, table>> /\ mem' = TakeLease(s)
      /\ c = Begin("discard", why, why, s, mem[s].lease)
  BY <1>1 DEF DiscardStoredSession, disk_vars
<1>3. proc.lease.state \notin Intent
  BY <1>2, QuietFacts
<1>4. c.top # "fork" /\ c.lease = mem[s].lease /\ c.v = s
  BY <1>2 DEF Begin, Enter
<1> QED
  BY <1>1, <1>2, <1>3, <1>4, TakesFlow

LEMMA RequestFlows ==
  ASSUME SessionInv, OneInv, ForkParents = {}, Request
  PROVE  LeaseFlow
<1>1. ~\E s \in Sessions : LeaseForkSession(s)
  BY DEF LeaseForkSession
<1> QED
  BY <1>1, LeaseContinueSessionFlows, PersistChatSessionFlows, RetainFailedSessionFlows,
     DiscardStoredSessionFlows DEF Request

LEMMA ReturnTop ==
  ASSUME SessionInv, OneInv, NEW c, NEW l,
         \/ \E ok : c = Return(ok, l)
         \/ \E pc, io : c = Call(pc, l, io)
  PROVE  c.top # "fork" /\ c.lease = l /\ c.v = proc.v
BY Now DEF Return, Call, CallType, OneInv

LEMMA CheckActiveTop ==
  ASSUME SessionInv, OneInv, NEW c, c = CheckActive
  PROVE  c.top # "fork" /\ c.lease = NoLease /\ c.v = proc.v
<1>1. c = Return(TRUE, NoLease) \/ c = Call("leaseActive", NoLease, <<>>)
  BY DEF CheckActive
<1> QED
  BY <1>1, ReturnTop

LEMMA TakeRecoveryLeaseFlows ==
  ASSUME SessionInv, OneInv, TakeRecoveryLease
  PROVE  LeaseFlow
<1>1. PICK c : c = proc'
  OBVIOUS
<1>2. /\ proc.pc = "lease" /\ table' = [table EXCEPT ![proc.v] = NoLease]
      /\ UNCHANGED <<mem, disk, durable>>
  BY DEF TakeRecoveryLease, Reached, disk_vars
<1>3. proc.lease.state \notin Intent /\ proc.v \in Sessions
  BY <1>2, QuietFacts, Now
<1>4. table'[proc.v] = NoLease /\ \A s \in Sessions \ {proc.v} : table'[s] = table[s]
  BY <1>2, <1>3, Now
<1>5. PICK l \in Lease : l = table[proc.v]
  BY <1>3, Now
<1>6. Waiting(l)
  BY <1>3, <1>5, Now DEF RetainedOK
<1>7. c = ResolveRecoveryLease(proc.v, l)
  BY <1>1, <1>5 DEF TakeRecoveryLease
<1>8. CASE LiveLease(l)
  <2>1. PICK m : /\ \E pc, io : c = Call(pc, m, io)
                 /\ SamePlace(l, m) /\ (m.discard => DiscardPending(l))
    <3>1. CASE DiscardPending(l)
      <4>1. PICK m : m = [l EXCEPT !.discard = TRUE]
        OBVIOUS
      <4>2. c = Call("resolvedDiscard", m, Discard(m))
        BY <1>7, <1>8, <3>1, <4>1 DEF ResolveRecoveryLease, LiveLease
      <4>3. SamePlace(l, m)
        BY <4>1, DiscardingFacts DEF SamePlace
      <4> QED
        BY <3>1, <4>2, <4>3
    <3>2. CASE ~DiscardPending(l)
      <4>1. \E pc, io : c = Call(pc, l, io)
        <5>1. l.state \in {"Restore", "Superseded", "Active"}
          BY <1>8, <3>2 DEF LiveLease, DiscardPending, Lease, LeaseState
        <5> QED
          BY <1>7, <3>2, <5>1 DEF ResolveRecoveryLease, ActiveConflicts, ActiveSupersedes
      <4>2. SamePlace(l, l) /\ (l.discard => DiscardPending(l))
        BY DEF SamePlace, DiscardPending
      <4> QED
        BY <4>1, <4>2
    <3> QED
      BY <3>1, <3>2
  <2>2. c.top # "fork" /\ c.lease = m /\ c.v = proc.v
    BY <2>1, ReturnTop
  <2> QED
    BY <1>1, <1>2, <1>3, <1>4, <1>5, <2>1, <2>2, TableFlows
<1>9. CASE l = NoLease
  <2>1. c = CheckActive
    BY <1>7, <1>9, LeaseFacts DEF ResolveRecoveryLease, ActiveConflicts, ActiveSupersedes
  <2>2. c.top # "fork" /\ c.lease = NoLease
    BY <2>1, CheckActiveTop
  <2> QED
    BY <1>1, <1>2, <1>3, <1>4, <1>5, <1>9, <2>2, EndFlows
<1> QED
  BY <1>6, <1>8, <1>9 DEF Waiting

\* lease_reference gives up: the lease in hand is retained.
LEMMA RetainReturnsFlows ==
  ASSUME SessionInv, OneInv, proc.pc \in LeasePcs \ {"lease"}, Waiting(proc.lease),
         table' = Retained(proc.v, proc.lease), proc' = Return(FALSE, NoLease),
         UNCHANGED <<mem, disk, durable>>
  PROVE  LeaseFlow
<1>1. PICK c : c = proc'
  OBVIOUS
<1>2. c.top # "fork" /\ c.lease = NoLease
  BY <1>1, ReturnTop
<1>3. RetainedOK(proc.lease) /\ table[proc.v] = NoLease
  BY LeaseNow DEF RetainedOK, Waiting
<1> QED
  BY <1>1, <1>2, <1>3, RetainsFlow

LEMMA ResolvedFlows ==
  ASSUME SessionInv, OneInv, Resolved
  PROVE  LeaseFlow
<1>1. PICK c : c = proc'
  OBVIOUS
<1>2. proc.io = <<>> /\ UNCHANGED <<mem, disk, durable>> /\ proc.v \in Sessions
      /\ proc.pc \in {"resolved", "resolvedRetire", "resolvedDiscard"}
  BY Now DEF Resolved, Reached, disk_vars
<1>3. CASE proc.pc = "resolved" /\ proc.ok
  <2>1. c = Return(TRUE, proc.lease) /\ UNCHANGED table
    BY <1>1, <1>3 DEF Resolved, Reached
  <2>2. c.top # "fork" /\ c.lease = proc.lease /\ c.v = proc.v
    BY <2>1, ReturnTop
  <2> QED
    BY <1>1, <1>2, <2>1, <2>2, StayFlows DEF SamePlace
<1>4. CASE proc.pc \in {"resolvedRetire", "resolvedDiscard"} /\ proc.ok
  <2>1. (c = Return(TRUE, NoLease) \/ c = CheckActive) /\ UNCHANGED table
    BY <1>1, <1>4 DEF Resolved, Reached
  <2>2. c.top # "fork" /\ c.lease = NoLease
    BY <2>1, ReturnTop, CheckActiveTop
  <2>3. proc.lease.state \notin Intent
    BY <1>2, <1>4, DoneFacts DEF ReleasePcs
  <2> QED
    BY <1>1, <1>2, <2>1, <2>2, <2>3, EndFlows
<1>5. CASE ~proc.ok
  <2>1. table' = Retained(proc.v, proc.lease) /\ proc' = Return(FALSE, NoLease)
    BY <1>5 DEF Resolved
  <2>2. Waiting(proc.lease)
    BY <1>5, Now DEF HandOK
  <2> QED
    BY <1>2, <2>1, <2>2, RetainReturnsFlows
<1> QED
  BY <1>2, <1>3, <1>4, <1>5, Now

LEMMA LeaseActiveFlows ==
  ASSUME SessionInv, OneInv, LeaseActive
  PROVE  LeaseFlow
<1>1. PICK c : c = proc'
  OBVIOUS
<1>2. proc.pc = "leaseActive" /\ UNCHANGED <<mem, table, disk, durable>>
  BY DEF LeaseActive, Reached
<1>3. (\E ok : c = Return(ok, NoLease)) \/ (\E pc, io : c = Call(pc, NoLease, io))
  BY <1>1 DEF LeaseActive
<1>4. c.top # "fork" /\ c.lease = NoLease
  BY <1>3, ReturnTop
<1> QED
  BY <1>1, <1>2, <1>4, LeaveFlows

LEMMA LeasingFlows ==
  ASSUME SessionInv, OneInv, Leasing
  PROVE  LeaseFlow
<1>1. PICK c : c = proc'
  OBVIOUS
<1>2. proc.pc = "leasing" /\ UNCHANGED <<mem, table, disk, durable>> /\ proc.v \in Sessions
  BY Now DEF Leasing, Reached, disk_vars
<1>3. (\E ok : c = Return(ok, proc.lease)) \/ (\E pc, io : c = Call(pc, proc.lease, io))
  BY <1>1 DEF Leasing
<1>4. c.top # "fork" /\ c.lease = proc.lease /\ c.v = proc.v
  BY <1>3, ReturnTop
<1> QED
  BY <1>1, <1>2, <1>4, StayFlows DEF SamePlace

LEMMA UnleasingFlows ==
  ASSUME SessionInv, OneInv, Unleasing
  PROVE  LeaseFlow
<1>1. /\ proc.pc = "unleasing" /\ UNCHANGED <<mem, disk, durable>>
      /\ table' = Retained(proc.v, proc.lease) /\ proc' = Return(FALSE, NoLease)
  BY DEF Unleasing, Reached, disk_vars
<1>2. Waiting(proc.lease)
  BY <1>1, Now DEF HandOK, EndOK
<1> QED
  BY <1>1, <1>2, RetainReturnsFlows

\* discard_leased_session begins, with a lease of the active reference.
LEMMA FreshFlows ==
  ASSUME SessionInv, OneInv, NEW x \in Sessions, NEW c, c = proc', c.top # "fork", UNCHANGED <<disk, durable>>,
         UNCHANGED <<mem, table>>, proc.v = x, c.v = x,
         mem[x].lease = NoLease, table[x] = NoLease, proc.lease = NoLease,
         c.lease.state = "Active", Exists(disk, x, Reference), kept'[x] = 0,
         c.pc = "discarded"
  PROVE  LeaseFlow
<1>1. /\ ~LiveLease(NoLease) /\ ~DiscardPending(NoLease) /\ NoLease.state \notin Intent
      /\ InHand(c, x) = c.lease /\ InHand(proc, x) = NoLease
  BY LeaseFacts DEF InHand, Intent
<1>2. Flows(x, mem'[x], table'[x], c)
  BY <1>1 DEF Flows, One, OneOf, Stems, SamePlace
<1> QED
  BY <1>2 DEF LeaseFlow

LEMMA DiscardLeasedTop ==
  ASSUME SessionInv, OneInv, NEW c, NEW l \in Lease, c = DiscardLeased(l)
  PROVE  c.top # "fork" /\ c.v = proc.v /\ SamePlace(l, c.lease) /\ c.lease.discard /\ c.pc = "discarded"
<1>1. PICK m : m = [l EXCEPT !.discard = TRUE]
  OBVIOUS
<1>2. c = Call("discarded", m, Discard(m))
  BY <1>1 DEF DiscardLeased
<1>3. c.top # "fork" /\ c.lease = m /\ c.v = proc.v
  BY <1>2, ReturnTop
<1>4. c.pc = "discarded"
  BY <1>2, Now DEF Call, CallType
<1> QED
  BY <1>1, <1>3, <1>4, DiscardingFacts DEF SamePlace

LEMMA DiscardSessionFlows ==
  ASSUME SessionInv, OneInv, DiscardSession
  PROVE  LeaseFlow
<1> DEFINE x == proc.v
<1>1. PICK c : c = proc'
  OBVIOUS
<1>2. proc.pc = "discard" /\ UNCHANGED <<disk, durable>> /\ kept' = [kept EXCEPT ![x] = 0]
  BY DEF DiscardSession, Reached
<1>3. x \in Sessions /\ mem[x].lease = NoLease /\ proc.lease \in Lease /\ table[x] \in Lease /\ table \in [Sessions -> Lease]
      /\ mem \in [Sessions -> Held] /\ kept'[x] = 0
  BY <1>2, DiscardNow, Now DEF CountTypes
<1>4. CASE proc.lease # NoLease /\ c = DiscardLeased(proc.lease) /\ UNCHANGED <<mem, table>>
  <2>1. c.top # "fork" /\ c.v = x /\ SamePlace(proc.lease, c.lease) /\ c.pc = "discarded"
    BY <1>3, <1>4, DiscardLeasedTop
  <2> QED
    BY <1>1, <1>2, <1>3, <1>4, <2>1, StayFlows
<1>5. CASE /\ proc.lease = NoLease /\ table[x] # NoLease /\ c = DiscardLeased(table[x]) /\ UNCHANGED mem
           /\ table' = [table EXCEPT ![x] = NoLease]
  <2>1. c.top # "fork" /\ c.v = x /\ SamePlace(table[x], c.lease) /\ c.pc = "discarded"
    BY <1>3, <1>5, DiscardLeasedTop
  <2>2. table'[x] = NoLease /\ \A s \in Sessions \ {x} : table'[s] = table[s]
    BY <1>3, <1>5
  <2>3. proc.lease.state \notin Intent
    BY <1>5, LeaseFacts DEF Intent
  <2> QED
    BY <1>1, <1>2, <1>3, <1>5, <2>1, <2>2, <2>3, TableFlows
<1>6. CASE /\ proc.lease = NoLease /\ mem' = [mem EXCEPT ![x] = Absent] /\ UNCHANGED table
           /\ c = Return(FALSE, NoLease) \/ c = Return(TRUE, NoLease)
  <2>1. c.top # "fork" /\ c.lease = NoLease
    BY <1>6, ReturnTop
  <2>2. \A s \in Sessions : mem'[s].lease = mem[s].lease
    BY <1>3, <1>6, AbsentFacts
  <2>3. proc.lease.state \notin Intent
    BY <1>6, LeaseFacts DEF Intent
  <2> QED
    BY <1>1, <1>2, <1>3, <1>6, <2>1, <2>2, <2>3, EndFlows
<1>7. CASE /\ proc.lease = NoLease /\ table[x] = NoLease /\ UNCHANGED <<mem, table>> /\ Exists(disk, x, Reference)
           /\ \E slot \in BOOLEAN : c = DiscardLeased(ActiveDiscardLease(x, slot))
  <2>1. PICK slot \in BOOLEAN : c = DiscardLeased(ActiveDiscardLease(x, slot))
    BY <1>7
  <2>2. PICK l : l = ActiveDiscardLease(x, slot)
    OBVIOUS
  <2>3. l \in Lease /\ l.state = "Active"
    <3>1. NewNonce(x) \in Nat
      BY Now, NonceFacts
    <3> QED
      BY <2>2, <3>1 DEF ActiveDiscardLease, Lease, LeaseState
  <2>4. c.top # "fork" /\ c.v = x /\ SamePlace(l, c.lease) /\ c.pc = "discarded"
    BY <2>1, <2>2, <2>3, DiscardLeasedTop
  <2>5. c.lease.state = "Active"
    BY <2>3, <2>4 DEF SamePlace
  <2> QED
    BY <1>1, <1>2, <1>3, <1>7, <2>4, <2>5, FreshFlows
<1>8. \/ proc.lease # NoLease /\ c = DiscardLeased(proc.lease) /\ UNCHANGED <<mem, table>>
      \/ /\ proc.lease = NoLease /\ table[x] # NoLease /\ c = DiscardLeased(table[x]) /\ UNCHANGED mem
         /\ table' = [table EXCEPT ![x] = NoLease]
      \/ /\ proc.lease = NoLease /\ mem' = [mem EXCEPT ![x] = Absent] /\ UNCHANGED table
         /\ c = Return(FALSE, NoLease) \/ c = Return(TRUE, NoLease)
      \/ /\ proc.lease = NoLease /\ table[x] = NoLease /\ UNCHANGED <<mem, table>> /\ Exists(disk, x, Reference)
         /\ c = DiscardLeased(ActiveDiscardLease(x, RecoverySlots < RecoveryLimit))
  BY <1>1 DEF DiscardSession, RemoveSessionState
<1>9. (RecoverySlots < RecoveryLimit) \in BOOLEAN
  OBVIOUS
<1> QED
  BY <1>4, <1>5, <1>6, <1>7, <1>8, <1>9

LEMMA DiscardedFlows ==
  ASSUME SessionInv, OneInv, Discarded
  PROVE  LeaseFlow
<1> DEFINE x == proc.v
<1>1. PICK c : c = proc'
  OBVIOUS
<1>2. proc.pc = "discarded" /\ proc.io = <<>> /\ UNCHANGED <<disk, durable>>
  BY DEF Discarded, Reached, disk_vars
<1>3. x \in Sessions /\ mem[x].lease = NoLease /\ mem \in [Sessions -> Held] /\ (~proc.ok => Waiting(proc.lease))
  BY <1>2, DiscardNow, Now DEF HandOK
<1>4. CASE proc.ok
  <2>1. mem' = [mem EXCEPT ![x] = Absent] /\ c = Return(TRUE, NoLease) /\ UNCHANGED table
    BY <1>1, <1>4 DEF Discarded, RemoveSessionState
  <2>2. c.top # "fork" /\ c.lease = NoLease
    BY <2>1, ReturnTop
  <2>3. \A s \in Sessions : mem'[s].lease = mem[s].lease
    BY <1>3, <2>1, AbsentFacts
  <2>4. proc.lease.state \notin Intent
    BY <1>2, <1>4, DoneFacts DEF ReleasePcs
  <2> QED
    BY <1>1, <1>2, <1>3, <2>1, <2>2, <2>3, <2>4, EndFlows
<1>5. CASE ~proc.ok /\ proc.lease.slot /\ CanRetain(x)
  <2>1. mem' = [mem EXCEPT ![x] = Absent] /\ c = Return(FALSE, NoLease) /\ table' = Retained(x, proc.lease)
    BY <1>1, <1>5 DEF Discarded, RemoveSessionState
  <2>2. c.top # "fork" /\ c.lease = NoLease
    BY <2>1, ReturnTop
  <2>3. \A s \in Sessions : mem'[s].lease = mem[s].lease
    BY <1>3, <2>1, AbsentFacts
  <2>4. table[x] = NoLease /\ RetainedOK(proc.lease)
    BY <1>3, <1>5 DEF CanRetain, RetainedOK
  <2> QED
    BY <1>1, <1>2, <2>1, <2>2, <2>3, <2>4, RetainsFlow
<1>6. CASE ~proc.ok /\ ~(proc.lease.slot /\ CanRetain(x)) /\ OwnerHeld(x)
  <2>1. mem' = [mem EXCEPT ![x].lease = proc.lease] /\ c = Return(FALSE, NoLease) /\ UNCHANGED table
    BY <1>1, <1>6 DEF Discarded
  <2>2. c.top # "fork" /\ c.lease = NoLease
    BY <2>1, ReturnTop
  <2>3. mem'[x].lease = proc.lease /\ \A s \in Sessions \ {x} : mem'[s].lease = mem[s].lease
    BY <1>3, <2>1 DEF Held
  <2> QED
    BY <1>1, <1>2, <1>3, <2>1, <2>2, <2>3, GiveFlows
<1>7. CASE ~proc.ok /\ ~(proc.lease.slot /\ CanRetain(x)) /\ ~OwnerHeld(x)
  <2>1. c = [proc EXCEPT !.pc = "panic"] /\ UNCHANGED <<mem, table>>
    BY <1>1, <1>7 DEF Discarded
  <2>2. c.v = x /\ c.top # "fork" /\ c.lease = proc.lease
    BY <2>1, Now DEF CallType, OneInv
  <2> QED
    BY <1>1, <1>2, <1>3, <2>1, <2>2, StayFlows DEF SamePlace
<1> QED
  BY <1>4, <1>5, <1>6, <1>7

LEMMA ServerStepFlows ==
  ASSUME SessionInv, OneInv, ServerStep
  PROVE  LeaseFlow
<1>1. CASE ContinueCold \/ AttachResidentSession \/ WakeHibernatedSession \/ FinishWake \/ FinishWakeError
  BY <1>1, ContinueColdFlows, AttachResidentSessionFlows, WakeHibernatedSessionFlows, FinishWakeFlows,
     FinishWakeErrorFlows
<1>2. CASE PersistedMetadata \/ RestorePersisted \/ ReferenceRestored
  BY <1>2, PersistedMetadataFlows, RestorePersistedFlows, ReferenceRestoredFlows
<1>3. CASE Persisted \/ Retired \/ RetainedSession \/ TaskDiscarded \/ Respond
  BY <1>3, PersistedFlows, RetiredFlows, RetainedSessionFlows, TaskDiscardedFlows, RespondFlows
<1>4. CASE Fit \/ FitContinues \/ HibernateStored \/ StoreHibernated \/ RestoreFailedHibernation
  BY <1>4, FitFlows, FitContinuesFlows, HibernateStoredFlows, StoreHibernatedFlows,
     RestoreFailedHibernationFlows
<1> QED
  BY <1>1, <1>2, <1>3, <1>4 DEF ServerStep

\* The steps of the store that touch no file.
StoreControl ==
  TakeRecoveryLease \/ Resolved \/ LeaseActive \/ Leasing \/ Unleasing \/ DiscardSession \/ Discarded

LEMMA StoreControlFlows ==
  ASSUME SessionInv, OneInv, StoreControl
  PROVE  LeaseFlow
BY TakeRecoveryLeaseFlows, ResolvedFlows, LeaseActiveFlows, LeasingFlows, UnleasingFlows,
   DiscardSessionFlows, DiscardedFlows DEF StoreControl

\* A process that has just started, or is starting, has no lease.
LEMMA NoneIsOne ==
  ASSUME mem' = [s \in Sessions |-> Absent], table' = [s \in Sessions |-> NoLease], NEW c, c = proc',
         c.lease = NoLease, c.top # "fork"
  PROVE  OneInv'
<1>1. \A s \in Sessions : mem'[s].lease = NoLease /\ table'[s] = NoLease /\ InHand(c, s) = NoLease
  BY AbsentFacts DEF InHand
<1> QED
  BY <1>1, LeaseFacts DEF OneInv, One

LEMMA StartOne ==
  ASSUME SessionInv, OneInv, SessionInv',
         Crash \/ Panic \/ RecoverQuarantine \/ LoadSessionArchives \/ (Starting /\ (IoSucceeds \/ IoFails))
  PROVE  OneInv'
<1>1. PICK c : c = proc'
  OBVIOUS
<1>2. c \in CallType /\ HandOK(c, mem'[c.v].lease, table'[c.v])
        /\ (c.pc \in StartPcs => mem' = [s \in Sessions |-> Absent] /\ table' = [s \in Sessions |-> NoLease])
  BY <1>1 DEF SessionInv, TypeInv, ControlInv, Starting
<1>3. CASE Crash \/ Panic
  <2>1. mem' = [s \in Sessions |-> Absent] /\ table' = [s \in Sessions |-> NoLease] /\ c = [Idle EXCEPT !.pc = "recover"]
    BY <1>1, <1>3 DEF Crash, Panic, Start
  <2>2. c.lease = NoLease /\ c.top # "fork"
    BY <2>1, IdleFacts
  <2> QED
    BY <1>1, <2>1, <2>2, NoneIsOne
<1>4. CASE RecoverQuarantine \/ (LoadSessionArchives /\ ~proc.ok) \/ (Starting /\ (IoSucceeds \/ IoFails))
  <2>1. c.pc \in StartPcs /\ c.top = proc.top
    <3>1. CASE RecoverQuarantine
      BY <1>1, <3>1, Now DEF RecoverQuarantine, Reached, Call, CallType
    <3>2. CASE LoadSessionArchives /\ ~proc.ok
      BY <1>1, <3>2, Now DEF LoadSessionArchives, Reached, Call, CallType
    <3>3. CASE Starting /\ (IoSucceeds \/ IoFails)
      BY <1>1, <3>3, Now DEF IoSucceeds, IoFails, Starting, CallType
    <3> QED
      BY <1>4, <3>1, <3>2, <3>3
  <2>2. c.lease = NoLease /\ c.top # "fork"
    BY <1>2, <2>1 DEF HandOK, OneInv
  <2> QED
    BY <1>1, <1>2, <2>1, <2>2, NoneIsOne
<1>5. CASE LoadSessionArchives /\ proc.ok
  <2>1. c = Idle /\ UNCHANGED <<mem, table>> /\ proc.pc \in StartPcs
    BY <1>1, <1>5 DEF LoadSessionArchives, Reached
  <2>2. mem = [s \in Sessions |-> Absent] /\ table = [s \in Sessions |-> NoLease]
    BY <2>1 DEF SessionInv, ControlInv, Starting
  <2> QED
    BY <1>1, <2>1, <2>2, IdleFacts, NoneIsOne
<1> QED
  BY <1>3, <1>4, <1>5

\* The lease in hand after a step of a script.
LEMMA ScriptTurns ==
  ASSUME SessionInv, ~Starting, IoSucceeds, NEW step, step = Head(proc.io)
  PROVE  LeaseTurns(proc.lease, step.lease, proc.pc) /\ proc.io # <<>> /\ CanDo(step)
<1>1. proc.io # <<>> /\ CanDo(step)
  BY DEF IoSucceeds
<1>2. PICK l \in Lease : l = proc.lease
  BY Now
<1>3. /\ Waiting(l) /\ step.op # "refuse"
      /\ Sames(l, step) \/ MovesLease(l, step) \/ Ends(l, step, proc.io)
      /\ l = NoLease /\ proc.pc # "leasing" => step.lease = NoLease
      /\ l = NoLease /\ proc.pc = "leasing" => MovesLease(l, step)
  BY <1>1, <1>2, StepKinds
<1>4. LeaseTurns(l, step.lease, proc.pc)
  <2>1. CASE l = NoLease
    BY <1>3, <2>1, LeaseFacts DEF LeaseTurns, MovesLease
  <2>2. CASE LiveLease(l) /\ Sames(l, step)
    BY <2>2 DEF LeaseTurns, Sames
  <2>3. CASE LiveLease(l) /\ Ends(l, step, proc.io)
    BY <2>3 DEF LeaseTurns, Ends
  <2>4. CASE LiveLease(l) /\ MovesLease(l, step)
    BY <2>4, LeaseFacts DEF LeaseTurns, MovesLease, LiveLease
  <2> QED
    BY <1>3, <2>1, <2>2, <2>3, <2>4 DEF Waiting
<1> QED
  BY <1>1, <1>2, <1>4

\* lease_active_reference runs for a session that has no lease.
LEMMA NoneWhenLeasing ==
  ASSUME SessionInv, OneInv, proc.pc \in {"leasing", "leaseActive"}
  PROVE  mem[proc.v].lease = NoLease /\ table[proc.v] = NoLease
<1>1. table[proc.v] = NoLease /\ proc.then \in LeaseThens /\ proc.v \in Sessions
  BY LeaseNow
<1>2. CASE proc.then \in {"attach", "wake", "hibernating"}
  BY <1>1, <1>2, LeaseNow
<1>3. CASE proc.then \in {"metadata", "restoring"}
  <2>1. proc.top = "continue"
    BY <1>3, Now DEF CallOK, OneInv
  <2>2. mem[proc.v].at = "absent"
    BY <1>3, <2>1, Now DEF WhereOK
  <2> QED
    BY <1>1, <2>2, Now DEF SessionOK
<1> QED
  BY <1>1, <1>2, <1>3

LEMMA IoOne ==
  ASSUME SessionInv, OneInv, ~Starting, IoSucceeds \/ IoFails
  PROVE  OneInv'
<1>1. PICK c : c = proc'
  OBVIOUS
<1>2. UNCHANGED <<mem, table>> /\ c.v = proc.v /\ c.top = proc.top
  BY <1>1, Now DEF IoSucceeds, IoFails, CallType
<1>3. One(mem[proc.v].lease, table[proc.v], c.lease)
  <2>0. One(mem[proc.v].lease, table[proc.v], proc.lease)
    BY Now DEF OneInv, InHand
  <2>1. CASE IoFails
    <3>1. c.lease = proc.lease
      BY <1>1, <2>1, Now DEF IoFails, CallType
    <3> QED
      BY <2>0, <3>1
  <2>2. CASE IoSucceeds
    <3>1. PICK step : step = Head(proc.io)
      OBVIOUS
    <3>2. c.lease = step.lease
      BY <1>1, <2>2, <3>1, Now DEF IoSucceeds, CallType
    <3>3. LeaseTurns(proc.lease, step.lease, proc.pc)
      BY <2>2, <3>1, ScriptTurns
    <3>4. LiveLease(step.lease) => LiveLease(proc.lease) \/ proc.pc = "leasing"
      BY <3>3, LeaseFacts DEF LeaseTurns, SameLease, LiveLease
    <3>5. CASE LiveLease(step.lease) => LiveLease(proc.lease)
      BY <2>0, <3>2, <3>5 DEF One
    <3>6. CASE proc.pc = "leasing"
      BY <3>2, <3>6, NoneWhenLeasing, LeaseFacts DEF One
    <3> QED
      BY <3>4, <3>5, <3>6
  <2> QED
    BY <2>1, <2>2
<1>4. ASSUME NEW s \in Sessions
      PROVE  One(mem[s].lease, table[s], InHand(c, s))
  <2>1. CASE s = proc.v
    BY <1>2, <1>3, <2>1 DEF InHand
  <2>2. CASE s # proc.v
    BY <1>2, <2>2 DEF OneInv, InHand
  <2> QED
    BY <2>1, <2>2
<1> QED
  BY <1>1, <1>2, <1>4 DEF OneInv

LEMMA NextOneInv ==
  ASSUME ForkParents = {}
  PROVE  SessionInv /\ SessionInv' /\ OneInv /\ [Next]_vars => OneInv'
<1> SUFFICES ASSUME SessionInv, SessionInv', OneInv, [Next]_vars
             PROVE  OneInv'
  OBVIOUS
<1>1. CASE IoSucceeds \/ IoFails
  BY <1>1, IoOne, StartOne
<1>2. CASE Crash \/ Panic \/ RecoverQuarantine \/ LoadSessionArchives
  BY <1>2, StartOne
<1>3. CASE ServerStep \/ StoreControl \/ Request
  BY <1>3, ServerStepFlows, StoreControlFlows, RequestFlows, FlowKeepsOne
<1>4. CASE UNCHANGED vars
  BY <1>4 DEF vars, OneInv, InHand
<1> QED
  BY <1>1, <1>2, <1>3, <1>4 DEF Next, StoreStep, StoreControl

LEMMA InitOneInv == Init => OneInv
<1> SUFFICES ASSUME Init
             PROVE  OneInv
  OBVIOUS
<1>1. PICK c : c = proc /\ c.lease = NoLease /\ c.top # "fork"
  BY IdleFacts DEF Init
<1>2. \A s \in Sessions : mem[s].lease = NoLease /\ table[s] = NoLease /\ InHand(c, s) = NoLease
  BY <1>1, AbsentFacts DEF InHand, Init
<1> QED
  BY <1>1, <1>2, LeaseFacts DEF OneInv, One

LEMMA OneInvAlways ==
  ASSUME ForkParents = {}
  PROVE  Spec => [](SessionInv /\ OneInv)
<1>1. Init => SessionInv /\ OneInv
  BY InitSessionInv, InitOneInv
<1>2. SessionInv /\ OneInv /\ [Next]_vars => (SessionInv /\ OneInv)'
  BY NextSessionInv, NextOneInv
<1> QED
  BY <1>1, <1>2, PTL DEF Spec

\* While no running session is forked, a session has one live lease, in memory, in the table
\* or in the call, and a lease with a slot always finds a place in the table: the comment of
\* retain_recovery_lease holds, for any sessions, limits, failures and crashes.
THEOREM SlotAlwaysKeepsRoom ==
  ASSUME ForkParents = {}
  PROVE  Spec => []SlotKeepsRoom
<1>1. SessionInv /\ OneInv => SlotKeepsRoom
  <2> SUFFICES ASSUME SessionInv, OneInv, NEW s \in Sessions
               PROVE  /\ \A h, g \in LeasesOf(s) : Live(h) /\ Live(g) => h = g
                      /\ mem[s].lease.slot \/ (proc.v = s /\ proc.lease.slot) => CanRetain(s)
    BY DEF SlotKeepsRoom
  <2>1. One(mem[s].lease, table[s], InHand(proc, s))
    BY DEF OneInv
  <2>2. ASSUME NEW h \in LeasesOf(s), NEW g \in LeasesOf(s), Live(h), Live(g)
        PROVE  h = g
    <3>1. LeasesOf(s) = {<<"session", mem[s].lease>>, <<"table", table[s]>>, <<"call", InHand(proc, s)>>}
      BY DEF LeasesOf, InHand
    <3>2. LiveLease(h[2]) /\ LiveLease(g[2])
      BY <2>2 DEF Live, LiveLease
    <3> QED
      BY <2>1, <2>2, <3>1, <3>2 DEF One
  <2>3. ASSUME mem[s].lease.slot \/ (proc.v = s /\ proc.lease.slot)
        PROVE  CanRetain(s)
    <3>1. LiveLease(mem[s].lease) \/ LiveLease(InHand(proc, s))
      BY <2>3, Now, LeaseFacts DEF SessionOK, HandOK, Waiting, InHand
    <3>2. ~LiveLease(table[s])
      BY <2>1, <3>1 DEF One
    <3>3. table[s] = NoLease
      BY <3>2, Now DEF RetainedOK, Waiting
    <3> QED
      BY <2>3, <3>3, Now, RetainRoom DEF SessionInv
  <2> QED
    BY <2>2, <2>3
<1> QED
  BY <1>1, OneInvAlways, PTL
=============================================================================

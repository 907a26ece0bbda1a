----------------------------- MODULE MemoryProofs -----------------------------
(***************************************************************************)
(* Proofs about MemoryTracker and ServiceMemory, for any number of         *)
(* handles and classes, all sizes, and all widths of the counters.         *)
(***************************************************************************)
EXTENDS ServiceMemory, SumsProofs

(* What the trackers, their roots and the handles are. *)
RootAccounts ==
    [total : Counters, budget : Nat, reserved_bytes : Nat, reserved_allocations : Nat]

TrackerAccounts ==
    [total : Counters, classes : [Class -> Counters], reserved_classes : [Class -> Nat],
     budget : Nat, reserved_bytes : Nat, reserved_allocations : Nat]

Kinds == {"reserved", "owned"}

HandleRecords ==
    {NoHandle} \cup [kind : Kinds, tracker : Tracker, class : Class,
                     bytes : Nat \ {0}, identity : Nat]

MemoryTypes ==
    /\ root \in [Tracker -> RootAccounts]
    /\ state \in [Tracker -> TrackerAccounts]
    /\ shared \in [Tracker -> Tracker \cup {NoRoot}]
    /\ owner \in [Tracker -> BOOLEAN]
    /\ handle \in [Handle -> HandleRecords]

(* What the handles of a kind, of some trackers and classes, amount to:    *)
(* as sums over all handles, in which a handle that does not count is 0.   *)
Counted(x, kind, T, C) == x.kind = kind /\ x.tracker \in T /\ x.class \in C
ByteShare(x, kind, T, C) == IF Counted(x, kind, T, C) THEN x.bytes ELSE 0
CountShare(x, kind, T, C) == IF Counted(x, kind, T, C) THEN 1 ELSE 0

BytesIn(hd, kind, T, C) ==
    SumOver([h \in Handle |-> ByteShare(hd[h], kind, T, C)], Handle)
CountIn(hd, kind, T, C) ==
    SumOver([h \in Handle |-> CountShare(hd[h], kind, T, C)], Handle)

(* The account of some trackers, and that of one class, add up. *)
Booked(hd, s, T) ==
    /\ s.total.live_bytes = BytesIn(hd, "owned", T, Class)
    /\ s.total.live = CountIn(hd, "owned", T, Class)
    /\ s.reserved_bytes = BytesIn(hd, "reserved", T, Class)
    /\ s.reserved_allocations = CountIn(hd, "reserved", T, Class)

ClassBooked(hd, s, t, c) ==
    /\ s.classes[c].live_bytes = BytesIn(hd, "owned", {t}, {c})
    /\ s.classes[c].live = CountIn(hd, "owned", {t}, {c})
    /\ s.reserved_classes[c] = CountIn(hd, "reserved", {t}, {c})

(* Room is left for everything that is reserved. *)
Room(s) ==
    /\ s.total.live_bytes + s.reserved_bytes <= MaxBytes
    /\ s.total.live + s.reserved_allocations <= MaxCount
    /\ s.total.allocations + s.reserved_allocations <= MaxCount
    /\ s.total.allocations = s.total.live + s.total.frees

AccountInv(t) ==
    /\ Booked(handle, root[t], {u \in Tracker : shared[u] = t})
    /\ Booked(handle, state[t], {t})
    /\ \A c \in Class : ClassBooked(handle, state[t], t, c)

(* Room is left in every account for what is reserved there.  A class has  *)
(* freed no more than its tracker, so the tracker's room serves the class. *)
TrackerRoom(s) ==
    /\ Room(s)
    /\ \A c \in Class :
         /\ s.classes[c].allocations = s.classes[c].live + s.classes[c].frees
         /\ s.classes[c].frees <= s.total.frees

RoomInv(t) == Room(root[t]) /\ TrackerRoom(state[t])

IdentityInv ==
    /\ \A h \in Those("owned") :
         handle[h].identity <= state[handle[h].tracker].total.allocations
    /\ \A h, k \in Those("owned") :
         /\ handle[h].tracker = handle[k].tracker
         /\ handle[h].identity = handle[k].identity
         => h = k

(* A handle charges a tracker that exists; a root that has an owner is     *)
(* charged by it alone, so that one budget serves both accounts.           *)
ChargeInv ==
    /\ \A h \in Handle : handle[h] # NoHandle => shared[handle[h].tracker] # NoRoot
    /\ \A t, u \in Tracker : owner[t] /\ shared[u] = shared[t] => u = t

BudgetInv ==
    \A t \in Tracker : shared[t] # NoRoot =>
        /\ WithinBudget(Budget(t), state[t].total.live_bytes + state[t].reserved_bytes)
        /\ WithinBudget(Shared(t).budget,
                        Shared(t).total.live_bytes + Shared(t).reserved_bytes)

TrackerInv ==
    /\ MemoryTypes
    /\ \A t \in Tracker : AccountInv(t) /\ RoomInv(t)
    /\ IdentityInv /\ ChargeInv /\ BudgetInv

(* Until the policy is installed, only the backend has a tracker; while it *)
(* is being resolved the backend holds what was observed of it.            *)
ObservedInputs ==
    [topology : {"discrete", "unified", "cpu"}, backend : Capacities,
     workingSet : Totals \cup {None}, host : Capacities, memory : Requests,
     host_request : Requests, owned : Nat]

PhaseInv ==
    /\ phase \in {"built", "observed", "serving", "refused"}
    /\ phase \in {"built", "observed"} =>
         shared[Backend] = Backend /\ shared[Host] = NoRoot /\ owner[Backend]
    /\ phase = "observed" =>
         /\ inputs \in ObservedInputs
         /\ inputs.owned = state[Backend].total.live_bytes
         /\ Those("reserved") = {}

MemoryInv == TrackerInv /\ PhaseInv

-----------------------------------------------------------------------------
(* Sums over the handles *)

\* What one handle contributes is a number, and no byte of it is free.
LEMMA ShareTypes ==
  ASSUME NEW x \in HandleRecords, NEW kind \in Kinds, NEW T, NEW C
  PROVE  /\ ByteShare(x, kind, T, C) \in Nat /\ CountShare(x, kind, T, C) \in Nat
         /\ CountShare(x, kind, T, C) <= ByteShare(x, kind, T, C)
BY DEF HandleRecords, ByteShare, CountShare, Counted, NoHandle, Kinds

\* The sums are numbers, and no handle counts for more than there is.
LEMMA SumTypes ==
  ASSUME NEW hd \in [Handle -> HandleRecords], NEW kind \in Kinds, NEW T, NEW C
  PROVE  /\ BytesIn(hd, kind, T, C) \in Nat /\ CountIn(hd, kind, T, C) \in Nat
         /\ CountIn(hd, kind, T, C) <= BytesIn(hd, kind, T, C)
<1> DEFINE f == [h \in Handle |-> ByteShare(hd[h], kind, T, C)]
           g == [h \in Handle |-> CountShare(hd[h], kind, T, C)]
<1>1. \A h \in Handle : f[h] \in Nat /\ g[h] \in Nat /\ g[h] <= f[h]
  BY ShareTypes
<1> HIDE DEF f, g
<1>2. SumOver(f, Handle) \in Nat /\ SumOver(g, Handle) \in Nat
      /\ SumOver(g, Handle) <= SumOver(f, Handle)
  BY <1>1, TrackerAssumption, SumIsNat, SumMonotone
<1> QED
  BY <1>2 DEF BytesIn, CountIn, f, g

\* Replacing one handle changes every sum by the difference of its shares.
LEMMA BookUpdate ==
  ASSUME NEW hd \in [Handle -> HandleRecords], NEW hd2 \in [Handle -> HandleRecords],
         NEW h \in Handle, \A k \in Handle \ {h} : hd2[k] = hd[k],
         NEW kind \in Kinds, NEW T, NEW C
  PROVE  /\ BytesIn(hd2, kind, T, C) = BytesIn(hd, kind, T, C)
              - ByteShare(hd[h], kind, T, C) + ByteShare(hd2[h], kind, T, C)
         /\ CountIn(hd2, kind, T, C) = CountIn(hd, kind, T, C)
              - CountShare(hd[h], kind, T, C) + CountShare(hd2[h], kind, T, C)
         /\ ByteShare(hd[h], kind, T, C) <= BytesIn(hd, kind, T, C)
         /\ CountShare(hd[h], kind, T, C) <= CountIn(hd, kind, T, C)
         /\ BytesIn(hd, kind, T, C) \in Nat /\ CountIn(hd, kind, T, C) \in Nat
<1> DEFINE f1 == [k \in Handle |-> ByteShare(hd[k], kind, T, C)]
           f2 == [k \in Handle |-> ByteShare(hd2[k], kind, T, C)]
           g1 == [k \in Handle |-> CountShare(hd[k], kind, T, C)]
           g2 == [k \in Handle |-> CountShare(hd2[k], kind, T, C)]
<1>1. \A k \in Handle : f1[k] \in Nat /\ g1[k] \in Nat /\ f2[k] \in Nat /\ g2[k] \in Nat
  BY ShareTypes
<1>2. f2[h] = ByteShare(hd2[h], kind, T, C) /\ g2[h] = CountShare(hd2[h], kind, T, C)
  OBVIOUS
<1>3. \A k \in Handle \ {h} : f2[k] = f1[k] /\ g2[k] = g1[k]
  OBVIOUS
<1>4. f1[h] = ByteShare(hd[h], kind, T, C) /\ g1[h] = CountShare(hd[h], kind, T, C)
  OBVIOUS
<1> HIDE DEF f1, f2, g1, g2
<1>5. /\ SumOver(f2, Handle) = SumOver(f1, Handle) - f1[h] + f2[h]
      /\ SumOver(f1, Handle) \in Nat /\ f1[h] <= SumOver(f1, Handle)
  BY <1>1, <1>3, TrackerAssumption, SumUpdate
<1>6. /\ SumOver(g2, Handle) = SumOver(g1, Handle) - g1[h] + g2[h]
      /\ SumOver(g1, Handle) \in Nat /\ g1[h] <= SumOver(g1, Handle)
  BY <1>1, <1>3, TrackerAssumption, SumUpdate
<1>7. /\ BytesIn(hd, kind, T, C) = SumOver(f1, Handle)
      /\ BytesIn(hd2, kind, T, C) = SumOver(f2, Handle)
      /\ CountIn(hd, kind, T, C) = SumOver(g1, Handle)
      /\ CountIn(hd2, kind, T, C) = SumOver(g2, Handle)
  BY DEF BytesIn, CountIn, f1, f2, g1, g2
<1> QED
  BY <1>2, <1>4, <1>5, <1>6, <1>7

\* A class holds no more than its tracker.
LEMMA ClassWithinTracker ==
  ASSUME NEW hd \in [Handle -> HandleRecords], NEW kind \in Kinds, NEW T, NEW C \in SUBSET Class
  PROVE  /\ BytesIn(hd, kind, T, C) <= BytesIn(hd, kind, T, Class)
         /\ CountIn(hd, kind, T, C) <= CountIn(hd, kind, T, Class)
<1> DEFINE f1 == [h \in Handle |-> ByteShare(hd[h], kind, T, C)]
           f2 == [h \in Handle |-> ByteShare(hd[h], kind, T, Class)]
           g1 == [h \in Handle |-> CountShare(hd[h], kind, T, C)]
           g2 == [h \in Handle |-> CountShare(hd[h], kind, T, Class)]
<1>1. ASSUME NEW h \in Handle
      PROVE  /\ f1[h] \in Nat /\ f2[h] \in Nat /\ f1[h] <= f2[h]
             /\ g1[h] \in Nat /\ g2[h] \in Nat /\ g1[h] <= g2[h]
  <2>1. hd[h] \in HandleRecords
    OBVIOUS
  <2>2. /\ ByteShare(hd[h], kind, T, C) <= ByteShare(hd[h], kind, T, Class)
        /\ CountShare(hd[h], kind, T, C) <= CountShare(hd[h], kind, T, Class)
    BY <2>1 DEF ByteShare, CountShare, Counted, HandleRecords, NoHandle, Kinds
  <2> QED
    BY <2>1, <2>2, ShareTypes
<1> HIDE DEF f1, f2, g1, g2
<1>2. /\ SumOver(f1, Handle) <= SumOver(f2, Handle)
      /\ SumOver(g1, Handle) <= SumOver(g2, Handle)
  BY <1>1, TrackerAssumption, SumMonotone
<1> QED
  BY <1>2 DEF BytesIn, CountIn, f1, f2, g1, g2

\* No handle counts: every sum is zero.
LEMMA NothingCounted ==
  ASSUME NEW hd \in [Handle -> HandleRecords], NEW kind \in Kinds, NEW T, NEW C,
         \A h \in Handle : ~Counted(hd[h], kind, T, C)
  PROVE  BytesIn(hd, kind, T, C) = 0 /\ CountIn(hd, kind, T, C) = 0
<1> DEFINE f == [h \in Handle |-> ByteShare(hd[h], kind, T, C)]
           g == [h \in Handle |-> CountShare(hd[h], kind, T, C)]
<1>1. \A h \in Handle \ {} : f[h] = 0 /\ g[h] = 0
  BY DEF ByteShare, CountShare
<1> HIDE DEF f, g
<1>2. SumOver(f, Handle) = SumOver(f, {}) /\ SumOver(g, Handle) = SumOver(g, {})
  BY <1>1, SumRestrict
<1> QED
  BY <1>2, SumEmpty DEF BytesIn, CountIn, f, g

\* Every handle has at least one byte: where there are no bytes there is no
\* handle.
LEMMA NoBytesNoHandle ==
  ASSUME NEW hd \in [Handle -> HandleRecords], NEW kind \in Kinds, NEW T, NEW C,
         BytesIn(hd, kind, T, C) = 0, NEW h \in Handle
  PROVE  ~Counted(hd[h], kind, T, C)
<1>1. ByteShare(hd[h], kind, T, C) <= 0
  BY BookUpdate
<1> QED
  BY <1>1 DEF ByteShare, Counted, HandleRecords, NoHandle, Kinds

\* The sums over all handles are the sums and sizes that the properties are
\* stated with.
LEMMA SumsAgree ==
  ASSUME MemoryTypes, NEW kind \in Kinds, NEW T, NEW C,
         NEW S, S = {h \in Those(kind) : handle[h].tracker \in T /\ handle[h].class \in C}
  PROVE  /\ SumBytes(S) = BytesIn(handle, kind, T, C)
         /\ Cardinality(S) = CountIn(handle, kind, T, C)
<1> DEFINE f == [h \in Handle |-> ByteShare(handle[h], kind, T, C)]
           b == [h \in S |-> handle[h].bytes]
           g == [h \in Handle |-> CountShare(handle[h], kind, T, C)]
<1>1. S \subseteq Handle /\ \A h \in Handle : h \in S <=> Counted(handle[h], kind, T, C)
  BY DEF Those, Counted
<1>2. /\ \A h \in S : f[h] = b[h] /\ g[h] = 1
      /\ \A h \in Handle \ S : f[h] = 0 /\ g[h] = 0
  BY <1>1 DEF ByteShare, CountShare
<1> HIDE DEF f, b, g
<1>3. SumOver(f, Handle) = SumOver(b, S)
  BY <1>1, <1>2, SumRestrict
<1>4. Cardinality(S) = SumOver(g, Handle)
  BY <1>1, <1>2, TrackerAssumption, CountIsSum
<1> QED
  BY <1>3, <1>4 DEF BytesIn, CountIn, SumBytes, f, b, g

-----------------------------------------------------------------------------
(* One handle of a tracker is replaced *)

OfTracker(x, t) == x = NoHandle \/ x.tracker = t
KindBytes(x, kind) == IF x.kind = kind THEN x.bytes ELSE 0
KindCount(x, kind) == IF x.kind = kind THEN 1 ELSE 0
ClassBytes(x, kind, c) == IF x.kind = kind /\ x.class = c THEN x.bytes ELSE 0
ClassCount(x, kind, c) == IF x.kind = kind /\ x.class = c THEN 1 ELSE 0

(* An account follows when handle x becomes y. *)
Moved(new, old, x, y) ==
    /\ new.total.live_bytes =
         old.total.live_bytes - KindBytes(x, "owned") + KindBytes(y, "owned")
    /\ new.total.live = old.total.live - KindCount(x, "owned") + KindCount(y, "owned")
    /\ new.reserved_bytes =
         old.reserved_bytes - KindBytes(x, "reserved") + KindBytes(y, "reserved")
    /\ new.reserved_allocations =
         old.reserved_allocations - KindCount(x, "reserved") + KindCount(y, "reserved")

ClassMoved(new, old, x, y, c) ==
    /\ new.classes[c].live_bytes =
         old.classes[c].live_bytes - ClassBytes(x, "owned", c) + ClassBytes(y, "owned", c)
    /\ new.classes[c].live =
         old.classes[c].live - ClassCount(x, "owned", c) + ClassCount(y, "owned", c)
    /\ new.reserved_classes[c] =
         old.reserved_classes[c] - ClassCount(x, "reserved", c) + ClassCount(y, "reserved", c)

\* What a handle of tracker t contributes to an account.
LEMMA ShareOf ==
  ASSUME NEW x \in HandleRecords, NEW t \in Tracker, OfTracker(x, t),
         NEW kind \in Kinds, NEW T
  PROVE  /\ ByteShare(x, kind, T, Class) = IF t \in T THEN KindBytes(x, kind) ELSE 0
         /\ CountShare(x, kind, T, Class) = IF t \in T THEN KindCount(x, kind) ELSE 0
         /\ \A c \in Class :
              /\ ByteShare(x, kind, T, {c}) = IF t \in T THEN ClassBytes(x, kind, c) ELSE 0
              /\ CountShare(x, kind, T, {c}) = IF t \in T THEN ClassCount(x, kind, c) ELSE 0
BY DEF ByteShare, CountShare, Counted, KindBytes, KindCount, ClassBytes, ClassCount,
       OfTracker, HandleRecords, NoHandle, Kinds

\* The accounts that the tracker charges still add up when they follow, and
\* the others when they stay.
LEMMA BooksFollow ==
  ASSUME NEW hd \in [Handle -> HandleRecords], NEW hd2 \in [Handle -> HandleRecords],
         NEW h \in Handle, \A k \in Handle \ {h} : hd2[k] = hd[k],
         NEW t \in Tracker, OfTracker(hd[h], t), OfTracker(hd2[h], t),
         NEW T, NEW old, Booked(hd, old, T), NEW new,
         t \in T => Moved(new, old, hd[h], hd2[h]), t \notin T => new = old
  PROVE  Booked(hd2, new, T)
<1> DEFINE x == hd[h]
           y == hd2[h]
<1>0. x \in HandleRecords /\ y \in HandleRecords
  OBVIOUS
<1>1. ASSUME NEW kind \in Kinds
      PROVE  /\ BytesIn(hd2, kind, T, Class) = BytesIn(hd, kind, T, Class)
                  - ByteShare(x, kind, T, Class) + ByteShare(y, kind, T, Class)
             /\ CountIn(hd2, kind, T, Class) = CountIn(hd, kind, T, Class)
                  - CountShare(x, kind, T, Class) + CountShare(y, kind, T, Class)
             /\ BytesIn(hd, kind, T, Class) \in Nat /\ CountIn(hd, kind, T, Class) \in Nat
  BY BookUpdate
<1>2. "owned" \in Kinds /\ "reserved" \in Kinds
  BY DEF Kinds
<1>3. CASE t \in T
  <2>1. ASSUME NEW kind \in Kinds
        PROVE  /\ ByteShare(x, kind, T, Class) = KindBytes(x, kind)
               /\ CountShare(x, kind, T, Class) = KindCount(x, kind)
               /\ ByteShare(y, kind, T, Class) = KindBytes(y, kind)
               /\ CountShare(y, kind, T, Class) = KindCount(y, kind)
    BY <1>0, <1>3, ShareOf
  <2>2. Moved(new, old, x, y)
    BY <1>3
  <2> HIDE DEF x, y
  <2> QED
    BY <1>1, <1>2, <2>1, <2>2 DEF Booked, Moved
<1>4. CASE t \notin T
  <2>1. ASSUME NEW kind \in Kinds
        PROVE  /\ ByteShare(x, kind, T, Class) = 0 /\ CountShare(x, kind, T, Class) = 0
               /\ ByteShare(y, kind, T, Class) = 0 /\ CountShare(y, kind, T, Class) = 0
    BY <1>0, <1>4, ShareOf
  <2>2. new = old
    BY <1>4
  <2> HIDE DEF x, y
  <2> QED
    BY <1>1, <1>2, <2>1, <2>2 DEF Booked
<1> QED
  BY <1>3, <1>4

\* The same for the classes of a tracker.
LEMMA ClassBooksFollow ==
  ASSUME NEW hd \in [Handle -> HandleRecords], NEW hd2 \in [Handle -> HandleRecords],
         NEW h \in Handle, \A k \in Handle \ {h} : hd2[k] = hd[k],
         NEW t \in Tracker, OfTracker(hd[h], t), OfTracker(hd2[h], t),
         NEW u, NEW c \in Class, NEW old, ClassBooked(hd, old, u, c), NEW new,
         u = t => ClassMoved(new, old, hd[h], hd2[h], c), u # t => new = old
  PROVE  ClassBooked(hd2, new, u, c)
<1> DEFINE x == hd[h]
           y == hd2[h]
<1>0. x \in HandleRecords /\ y \in HandleRecords
  OBVIOUS
<1>1. ASSUME NEW kind \in Kinds
      PROVE  /\ BytesIn(hd2, kind, {u}, {c}) = BytesIn(hd, kind, {u}, {c})
                  - ByteShare(x, kind, {u}, {c}) + ByteShare(y, kind, {u}, {c})
             /\ CountIn(hd2, kind, {u}, {c}) = CountIn(hd, kind, {u}, {c})
                  - CountShare(x, kind, {u}, {c}) + CountShare(y, kind, {u}, {c})
             /\ BytesIn(hd, kind, {u}, {c}) \in Nat /\ CountIn(hd, kind, {u}, {c}) \in Nat
  BY BookUpdate
<1>2. "owned" \in Kinds /\ "reserved" \in Kinds
  BY DEF Kinds
<1>3. CASE u = t
  <2>1. ASSUME NEW kind \in Kinds
        PROVE  /\ ByteShare(x, kind, {u}, {c}) = ClassBytes(x, kind, c)
               /\ CountShare(x, kind, {u}, {c}) = ClassCount(x, kind, c)
               /\ ByteShare(y, kind, {u}, {c}) = ClassBytes(y, kind, c)
               /\ CountShare(y, kind, {u}, {c}) = ClassCount(y, kind, c)
    BY <1>0, <1>3, ShareOf
  <2>2. ClassMoved(new, old, x, y, c)
    BY <1>3
  <2> HIDE DEF x, y
  <2> QED
    BY <1>1, <1>2, <2>1, <2>2 DEF ClassBooked, ClassMoved
<1>4. CASE u # t
  <2>1. ASSUME NEW kind \in Kinds
        PROVE  /\ ByteShare(x, kind, {u}, {c}) = 0 /\ CountShare(x, kind, {u}, {c}) = 0
               /\ ByteShare(y, kind, {u}, {c}) = 0 /\ CountShare(y, kind, {u}, {c}) = 0
    BY <1>0, <1>4, ShareOf
  <2>2. new = old
    BY <1>4
  <2> HIDE DEF x, y
  <2>3. \A kind \in Kinds : /\ BytesIn(hd2, kind, {u}, {c}) = BytesIn(hd, kind, {u}, {c})
                            /\ CountIn(hd2, kind, {u}, {c}) = CountIn(hd, kind, {u}, {c})
    <3> SUFFICES ASSUME NEW kind \in Kinds
                 PROVE  /\ BytesIn(hd2, kind, {u}, {c}) = BytesIn(hd, kind, {u}, {c})
                        /\ CountIn(hd2, kind, {u}, {c}) = CountIn(hd, kind, {u}, {c})
      OBVIOUS
    <3> DEFINE b == BytesIn(hd, kind, {u}, {c})
               n == CountIn(hd, kind, {u}, {c})
    <3>1. BytesIn(hd2, kind, {u}, {c}) = b - 0 + 0 /\ b \in Nat
      BY <1>1, <2>1, Zenon
    <3>2. CountIn(hd2, kind, {u}, {c}) = n - 0 + 0 /\ n \in Nat
      BY <1>1, <2>1, Zenon
    <3> HIDE DEF b, n
    <3>3. b - 0 + 0 = b /\ n - 0 + 0 = n
      BY <3>1, <3>2
    <3> QED
      BY <3>1, <3>2, <3>3 DEF b, n
  <2> QED
    BY <1>2, <2>2, <2>3 DEF ClassBooked
<1> QED
  BY <1>3, <1>4

(* Both budgets cover the accounts of a tracker and of its root. *)
Affords(R, S, own) ==
    /\ WithinBudget(IF own THEN R.budget ELSE S.budget,
                    S.total.live_bytes + S.reserved_bytes)
    /\ WithinBudget(R.budget, R.total.live_bytes + R.reserved_bytes)

(* A handle that becomes an allocation gets a number its tracker has not   *)
(* given out.                                                              *)
Identified(S, old, x, y) ==
    /\ old.total.allocations <= S.total.allocations
    /\ y.kind = "owned" =>
         \/ x.kind = "owned" /\ y.identity = x.identity
         \/ /\ y.identity = S.total.allocations
            /\ old.total.allocations < S.total.allocations

\* An operation that replaces one handle h by y, and the accounts of its
\* tracker and root by S and R, preserves the invariant when R and S follow.
LEMMA ChargeStep ==
  ASSUME TrackerInv, NEW h \in Handle, NEW y \in HandleRecords,
         NEW t \in Tracker, shared[t] # NoRoot,
         OfTracker(handle[h], t), OfTracker(y, t),
         NEW R \in RootAccounts, NEW S \in TrackerAccounts,
         root' = [root EXCEPT ![shared[t]] = R],
         state' = [state EXCEPT ![t] = S],
         handle' = [handle EXCEPT ![h] = y],
         UNCHANGED <<shared, owner>>,
         Moved(R, root[shared[t]], handle[h], y), Room(R),
         Moved(S, state[t], handle[h], y), TrackerRoom(S),
         \A c \in Class : ClassMoved(S, state[t], handle[h], y, c),
         Identified(S, state[t], handle[h], y),
         Affords(R, S, owner[t])
  PROVE  TrackerInv'
<1> DEFINE r == shared[t]
<1>1. MemoryTypes /\ IdentityInv /\ ChargeInv /\ BudgetInv
  BY DEF TrackerInv
<1>2. r \in Tracker
  BY <1>1 DEF MemoryTypes
<1>3. /\ root' \in [Tracker -> RootAccounts] /\ root'[r] = R
      /\ \A u \in Tracker \ {r} : root'[u] = root[u]
  BY <1>1, <1>2 DEF MemoryTypes
<1>4. /\ state' \in [Tracker -> TrackerAccounts] /\ state'[t] = S
      /\ \A u \in Tracker \ {t} : state'[u] = state[u]
  BY <1>1 DEF MemoryTypes
<1>5. /\ handle \in [Handle -> HandleRecords] /\ handle' \in [Handle -> HandleRecords]
      /\ handle'[h] = y /\ \A k \in Handle \ {h} : handle'[k] = handle[k]
  BY <1>1 DEF MemoryTypes
<1>6. MemoryTypes'
  BY <1>1, <1>3, <1>4, <1>5 DEF MemoryTypes
<1>7. ASSUME NEW u \in Tracker PROVE AccountInv(u)'
  <2>1. AccountInv(u)
    BY DEF TrackerInv
  <2>2. Booked(handle', root'[u], {v \in Tracker : shared[v] = u})
    <3> DEFINE T == {v \in Tracker : shared[v] = u}
    <3>1. Booked(handle, root[u], T)
      BY <2>1 DEF AccountInv
    <3>2. t \in T <=> u = r
      OBVIOUS
    <3>3. /\ t \in T => Moved(root'[u], root[u], handle[h], handle'[h])
          /\ t \notin T => root'[u] = root[u]
      BY <1>3, <1>5, <3>2
    <3> HIDE DEF T
    <3>4. Booked(handle', root'[u], T)
      BY <1>5, <3>1, <3>3, BooksFollow
    <3> QED
      BY <3>4 DEF T
  <2>3. Booked(handle', state'[u], {u})
    <3>1. Booked(handle, state[u], {u})
      BY <2>1 DEF AccountInv
    <3>2. /\ t \in {u} => Moved(state'[u], state[u], handle[h], handle'[h])
          /\ t \notin {u} => state'[u] = state[u]
      BY <1>4, <1>5
    <3> QED
      BY <1>5, <3>1, <3>2, BooksFollow
  <2>4. ASSUME NEW c \in Class PROVE ClassBooked(handle', state'[u], u, c)
    <3>1. ClassBooked(handle, state[u], u, c)
      BY <2>1 DEF AccountInv
    <3>2. /\ u = t => ClassMoved(state'[u], state[u], handle[h], handle'[h], c)
          /\ u # t => state'[u] = state[u]
      BY <1>4, <1>5
    <3> QED
      BY <1>5, <3>1, <3>2, ClassBooksFollow
  <2> QED
    BY <2>2, <2>3, <2>4 DEF AccountInv
<1>8. ASSUME NEW u \in Tracker PROVE RoomInv(u)'
  <2>1. RoomInv(u)
    BY DEF TrackerInv
  <2>2. Room(root'[u])
    BY <2>1, <1>3 DEF RoomInv
  <2>3. TrackerRoom(state'[u])
    BY <2>1, <1>4 DEF RoomInv
  <2> QED
    BY <2>2, <2>3 DEF RoomInv, Room, TrackerRoom
<1>9. IdentityInv'
  <2> DEFINE n == [u \in Tracker |-> state[u].total.allocations]
  <2>0. \A u \in Tracker : state[u].total.allocations \in Nat
    BY <1>1 DEF MemoryTypes, TrackerAccounts, Counters
  <2>a. \A u \in Tracker : /\ state'[u].total.allocations \in Nat
                           /\ state[u].total.allocations <= state'[u].total.allocations
    <3>1. \A u \in Tracker : state'[u].total.allocations \in Nat
      BY <1>4 DEF TrackerAccounts, Counters
    <3> QED
      BY <1>4, <2>0, <3>1 DEF Identified
  <2>1. ASSUME NEW k \in Handle, handle'[k].kind = "owned"
        PROVE  /\ handle'[k].tracker \in Tracker /\ handle'[k].identity \in Nat
               /\ handle'[k].identity <= state'[handle'[k].tracker].total.allocations
    <3>1. handle'[k].tracker \in Tracker /\ handle'[k].identity \in Nat
      BY <1>5, <2>1 DEF HandleRecords, NoHandle
    <3>2. CASE k # h
      <4>1. handle[k] = handle'[k] /\ handle[k].kind = "owned"
        BY <1>5, <2>1, <3>2
      <4>2. handle[k].identity <= state[handle[k].tracker].total.allocations
        BY <1>1, <4>1 DEF IdentityInv, Those
      <4> QED
        BY <2>0, <2>a, <3>1, <4>1, <4>2
    <3>3. CASE k = h
      <4>1. y.kind = "owned" /\ y.tracker = t
        BY <1>5, <2>1, <3>3 DEF OfTracker, NoHandle
      <4>2. CASE y.identity = S.total.allocations
        BY <1>4, <1>5, <2>a, <3>3, <4>1, <4>2
      <4>3. CASE handle[h].kind = "owned" /\ y.identity = handle[h].identity
        <5>1. handle[h].tracker = t
          BY <4>3 DEF OfTracker, NoHandle
        <5>2. handle[h].identity <= state[t].total.allocations
          BY <1>1, <4>3, <5>1 DEF IdentityInv, Those
        <5> QED
          BY <1>5, <2>0, <2>a, <3>1, <3>3, <4>1, <4>3, <5>2
      <4> QED
        BY <4>1, <4>2, <4>3 DEF Identified
    <3> QED
      BY <3>1, <3>2, <3>3
  <2>2. ASSUME NEW k \in Handle, handle'[k].kind = "owned", k # h, y.kind = "owned",
               handle'[k].tracker = y.tracker
        PROVE  handle'[k].identity # y.identity
    <3>1. handle[k] = handle'[k] /\ handle[k].kind = "owned" /\ y.tracker = t
      BY <1>5, <2>2 DEF OfTracker, NoHandle
    <3>2. handle[k].identity <= state[t].total.allocations /\ handle[k].identity \in Nat
      <4>1. handle[k].identity <= state[handle[k].tracker].total.allocations
        BY <1>1, <3>1 DEF IdentityInv, Those
      <4>2. handle[k].tracker = t
        BY <2>2, <3>1
      <4>3. handle[k].identity \in Nat
        BY <2>1, <2>2, <3>1
      <4> QED
        BY <4>1, <4>2, <4>3
    <3>3. CASE y.identity = S.total.allocations /\ state[t].total.allocations < S.total.allocations
      BY <1>4, <2>0, <2>a, <3>1, <3>2, <3>3
    <3>4. CASE handle[h].kind = "owned" /\ y.identity = handle[h].identity
      <4>1. handle[h].tracker = t /\ handle[k].tracker = t
        BY <2>2, <3>1, <3>4 DEF OfTracker, NoHandle
      <4> QED
        BY <1>1, <2>2, <3>1, <3>4, <4>1 DEF IdentityInv, Those
    <3> QED
      BY <2>2, <3>3, <3>4 DEF Identified
  <2>3. ASSUME NEW k \in Handle, NEW m \in Handle, k # h, m # h,
               handle'[k].kind = "owned", handle'[m].kind = "owned",
               handle'[k].tracker = handle'[m].tracker,
               handle'[k].identity = handle'[m].identity
        PROVE  k = m
    <3>1. handle'[k] = handle[k] /\ handle'[m] = handle[m]
      BY <1>5, <2>3
    <3> QED
      BY <1>1, <2>3, <3>1 DEF IdentityInv, Those
  <2> QED
    BY <1>5, <2>1, <2>2, <2>3 DEF IdentityInv, Those
<1>10. ChargeInv'
  <2>1. ASSUME NEW k \in Handle, handle'[k] # NoHandle
        PROVE  shared[handle'[k].tracker] # NoRoot
    BY <1>1, <1>5, <2>1 DEF ChargeInv, OfTracker
  <2> QED
    BY <1>1, <2>1 DEF ChargeInv
<1>11. BudgetInv'
  <2> SUFFICES ASSUME NEW u \in Tracker, shared[u] # NoRoot
               PROVE  Affords(root'[shared[u]], state'[u], owner[u])
    BY DEF BudgetInv, Affords, Budget, Shared
  <2>1. CASE u = t
    BY <1>3, <1>4, <2>1
  <2>2. CASE u # t /\ shared[u] # r
    <3>1. shared[u] \in Tracker \ {r}
      BY <1>1, <2>2 DEF MemoryTypes
    <3>2. root'[shared[u]] = root[shared[u]] /\ state'[u] = state[u]
      BY <1>3, <1>4, <2>2, <3>1
    <3> QED
      BY <1>1, <3>2 DEF BudgetInv, Affords, Budget, Shared
  <2>3. CASE u # t /\ shared[u] = r
    <3>1. ~owner[u] /\ ~owner[t]
      BY <1>1, <2>3 DEF ChargeInv
    <3>2. root'[shared[u]] = R /\ state'[u] = state[u]
      BY <1>3, <1>4, <2>3
    <3> QED
      BY <1>1, <2>3, <3>1, <3>2 DEF BudgetInv, Affords, Budget, Shared
  <2> QED
    BY <2>1, <2>2, <2>3
<1> QED
  BY <1>6, <1>7, <1>8, <1>9, <1>10, <1>11 DEF TrackerInv

-----------------------------------------------------------------------------
(* What the accounts hold of one handle *)

\* A class counts no more than its tracker.
LEMMA ClassWithin ==
  ASSUME TrackerInv, NEW t \in Tracker, NEW c \in Class
  PROVE  /\ state[t].classes[c].live_bytes <= state[t].total.live_bytes
         /\ state[t].classes[c].live <= state[t].total.live
         /\ state[t].reserved_classes[c] <= state[t].reserved_allocations
<1>1. handle \in [Handle -> HandleRecords] /\ {c} \in SUBSET Class
      /\ "owned" \in Kinds /\ "reserved" \in Kinds
  BY DEF TrackerInv, MemoryTypes, Kinds
<1>2. \A kind \in Kinds :
        /\ BytesIn(handle, kind, {t}, {c}) <= BytesIn(handle, kind, {t}, Class)
        /\ CountIn(handle, kind, {t}, {c}) <= CountIn(handle, kind, {t}, Class)
  BY <1>1, ClassWithinTracker
<1>3. Booked(handle, state[t], {t}) /\ ClassBooked(handle, state[t], t, c)
  BY DEF TrackerInv, AccountInv
<1> QED
  BY <1>1, <1>2, <1>3 DEF Booked, ClassBooked

\* A handle that exists is covered by the accounts it is charged to.
LEMMA HandleCovered ==
  ASSUME TrackerInv, NEW h \in Handle, handle[h] # NoHandle,
         NEW x, x = handle[h], NEW t, t = x.tracker, NEW r, r = shared[t]
  PROVE  /\ x \in HandleRecords /\ x.kind \in Kinds /\ x.class \in Class
         /\ x.bytes \in Nat \ {0} /\ x.identity \in Nat
         /\ t \in Tracker /\ r \in Tracker /\ r # NoRoot
         /\ OfTracker(x, t)
         /\ x.kind = "reserved" =>
              /\ x.bytes <= root[r].reserved_bytes /\ 1 <= root[r].reserved_allocations
              /\ x.bytes <= state[t].reserved_bytes /\ 1 <= state[t].reserved_allocations
              /\ 1 <= state[t].reserved_classes[x.class]
         /\ x.kind = "owned" =>
              /\ x.bytes <= root[r].total.live_bytes /\ 1 <= root[r].total.live
              /\ x.bytes <= state[t].total.live_bytes /\ 1 <= state[t].total.live
              /\ x.bytes <= state[t].classes[x.class].live_bytes
              /\ 1 <= state[t].classes[x.class].live
<1>1. MemoryTypes /\ ChargeInv
  BY DEF TrackerInv
<1>2. /\ x \in HandleRecords /\ x.kind \in Kinds /\ x.class \in Class
      /\ x.bytes \in Nat \ {0} /\ x.identity \in Nat /\ t \in Tracker
      /\ OfTracker(x, t)
  BY <1>1 DEF MemoryTypes, HandleRecords, OfTracker
<1>3. r \in Tracker /\ r # NoRoot
  BY <1>1, <1>2 DEF ChargeInv, MemoryTypes
<1>4. ASSUME NEW T, NEW C, t \in T, x.class \in C
      PROVE  /\ x.bytes <= BytesIn(handle, x.kind, T, C)
             /\ 1 <= CountIn(handle, x.kind, T, C)
  <2>1. /\ ByteShare(handle[h], x.kind, T, C) <= BytesIn(handle, x.kind, T, C)
        /\ CountShare(handle[h], x.kind, T, C) <= CountIn(handle, x.kind, T, C)
    BY <1>1, <1>2, BookUpdate DEF MemoryTypes
  <2>2. Counted(x, x.kind, T, C)
    BY <1>4 DEF Counted
  <2> QED
    BY <2>1, <2>2 DEF ByteShare, CountShare
<1>5. /\ Booked(handle, root[r], {u \in Tracker : shared[u] = r})
      /\ Booked(handle, state[t], {t})
      /\ ClassBooked(handle, state[t], t, x.class)
  BY <1>2, <1>3 DEF TrackerInv, AccountInv
<1>6. t \in {u \in Tracker : shared[u] = r} /\ t \in {t} /\ x.class \in {x.class}
  BY <1>2
<1>7. CASE x.kind = "reserved"
  BY <1>2, <1>3, <1>4, <1>5, <1>6, <1>7 DEF Booked, ClassBooked
<1>8. CASE x.kind = "owned"
  BY <1>2, <1>3, <1>4, <1>5, <1>6, <1>8 DEF Booked, ClassBooked
<1> QED
  BY <1>2, <1>3, <1>7, <1>8 DEF Kinds

\* The fields of the accounts are numbers.
LEMMA AccountFields ==
  ASSUME MemoryTypes, NEW t \in Tracker, NEW r \in Tracker
  PROVE  /\ root[r] \in RootAccounts /\ root[r].total \in Counters
         /\ root[r].budget \in Nat
         /\ root[r].reserved_bytes \in Nat /\ root[r].reserved_allocations \in Nat
         /\ root[r].total.live_bytes \in Nat /\ root[r].total.live \in Nat
         /\ root[r].total.allocations \in Nat /\ root[r].total.frees \in Nat
         /\ state[t] \in TrackerAccounts /\ state[t].total \in Counters
         /\ state[t].budget \in Nat
         /\ state[t].reserved_bytes \in Nat /\ state[t].reserved_allocations \in Nat
         /\ state[t].total.live_bytes \in Nat /\ state[t].total.live \in Nat
         /\ state[t].total.allocations \in Nat /\ state[t].total.frees \in Nat
         /\ state[t].classes \in [Class -> Counters]
         /\ state[t].reserved_classes \in [Class -> Nat]
         /\ \A c \in Class :
              /\ state[t].reserved_classes[c] \in Nat
              /\ state[t].classes[c] \in Counters
              /\ state[t].classes[c].live_bytes \in Nat /\ state[t].classes[c].live \in Nat
              /\ state[t].classes[c].allocations \in Nat /\ state[t].classes[c].frees \in Nat
<1>1. root[r] \in RootAccounts /\ state[t] \in TrackerAccounts
  BY DEF MemoryTypes
<1>2. /\ root[r].total \in Counters /\ root[r].budget \in Nat
      /\ root[r].reserved_bytes \in Nat /\ root[r].reserved_allocations \in Nat
  BY <1>1 DEF RootAccounts
<1>3. /\ state[t].total \in Counters /\ state[t].budget \in Nat
      /\ state[t].reserved_bytes \in Nat /\ state[t].reserved_allocations \in Nat
      /\ state[t].classes \in [Class -> Counters]
      /\ state[t].reserved_classes \in [Class -> Nat]
  BY <1>1 DEF TrackerAccounts
<1>4. ASSUME NEW k \in Counters
      PROVE  /\ k.live_bytes \in Nat /\ k.live \in Nat
             /\ k.allocations \in Nat /\ k.frees \in Nat
  BY DEF Counters
<1> QED
  BY <1>1, <1>2, <1>3, <1>4

\* MemoryReservation::commit finds every check satisfied: a reservation that
\* was granted is never refused its allocation.
LEMMA ReservedIsCommittable ==
  ASSUME TrackerInv, NEW h \in Handle, handle[h].kind = "reserved"
  PROVE  Committable(handle[h])
<1> DEFINE x == handle[h]
           t == x.tracker
           r == shared[t]
<1>1. handle[h] # NoHandle
  BY DEF NoHandle
<1>2. /\ x.class \in Class /\ x.bytes \in Nat \ {0} /\ t \in Tracker /\ r \in Tracker
      /\ x.bytes <= root[r].reserved_bytes /\ 1 <= root[r].reserved_allocations
      /\ x.bytes <= state[t].reserved_bytes /\ 1 <= state[t].reserved_allocations
      /\ 1 <= state[t].reserved_classes[x.class]
  BY <1>1, HandleCovered
<1>3. MemoryTypes
  BY DEF TrackerInv
<1> HIDE DEF x, t, r
<1>4. /\ root[r].reserved_bytes \in Nat /\ root[r].reserved_allocations \in Nat
      /\ root[r].total.live_bytes \in Nat /\ root[r].total.live \in Nat
      /\ root[r].total.allocations \in Nat
      /\ state[t].reserved_bytes \in Nat /\ state[t].reserved_allocations \in Nat
      /\ state[t].total.live_bytes \in Nat /\ state[t].total.live \in Nat
      /\ state[t].total.allocations \in Nat /\ state[t].total.frees \in Nat
  BY <1>2, <1>3, AccountFields
<1>5. /\ state[t].reserved_classes[x.class] \in Nat
      /\ state[t].classes[x.class].live_bytes \in Nat /\ state[t].classes[x.class].live \in Nat
      /\ state[t].classes[x.class].allocations \in Nat
      /\ state[t].classes[x.class].frees \in Nat
  BY <1>2, <1>3, AccountFields
<1>6. Room(root[r]) /\ TrackerRoom(state[t])
  BY <1>2 DEF TrackerInv, RoomInv
<1>7. CheckedCommit(root[r], x.bytes)
  BY <1>2, <1>4, <1>6, TrackerAssumption DEF CheckedCommit, CounterCapacity, Room
<1>8. CheckedCommit(state[t], x.bytes)
  BY <1>2, <1>4, <1>6, TrackerAssumption DEF CheckedCommit, CounterCapacity, Room, TrackerRoom
<1>9. /\ state[t].reserved_classes[x.class] > 0
      /\ CounterCapacity(state[t].classes[x.class], x.bytes,
                         state[t].reserved_classes[x.class] - 1)
  <2>1. /\ state[t].classes[x.class].live_bytes <= state[t].total.live_bytes
        /\ state[t].classes[x.class].live <= state[t].total.live
        /\ state[t].reserved_classes[x.class] <= state[t].reserved_allocations
    BY <1>2, ClassWithin
  <2>2. /\ state[t].classes[x.class].allocations =
             state[t].classes[x.class].live + state[t].classes[x.class].frees
        /\ state[t].classes[x.class].frees <= state[t].total.frees
        /\ state[t].total.allocations = state[t].total.live + state[t].total.frees
    BY <1>2, <1>6 DEF TrackerRoom, Room
  <2> QED
    BY <1>2, <1>4, <1>5, <1>6, <2>1, <2>2, TrackerAssumption DEF CounterCapacity, TrackerRoom, Room
<1> QED
  BY <1>7, <1>8, <1>9 DEF Committable, Shared, x, t, r

-----------------------------------------------------------------------------
(* The operations of a tracker *)

\* The counters an allocation leaves.
LEMMA AllocateFields ==
  ASSUME NEW k \in Counters, NEW n \in Nat
  PROVE  /\ RecordAllocate(k, n) \in Counters
         /\ RecordAllocate(k, n).live_bytes = k.live_bytes + n
         /\ RecordAllocate(k, n).live = k.live + 1
         /\ RecordAllocate(k, n).allocations = k.allocations + 1
         /\ RecordAllocate(k, n).frees = k.frees
<1> DEFINE a == k.live_bytes + n
           b == k.live + 1
           c == k.allocations + 1
           new == [k EXCEPT !.live_bytes = a, !.live = b, !.allocations = c]
<1>1. a \in Nat /\ b \in Nat /\ c \in Nat
  BY DEF Counters
<1>2. RecordAllocate(k, n) = new
  BY DEF RecordAllocate
<1> HIDE DEF a, b, c
<1>3. /\ new \in Counters /\ new.live_bytes = a /\ new.live = b
      /\ new.allocations = c /\ new.frees = k.frees
  BY <1>1 DEF Counters
<1> QED
  BY <1>2, <1>3 DEF a, b, c

\* The counters a free leaves, of an allocation that they count.
LEMMA FreeFields ==
  ASSUME NEW k \in Counters, NEW n \in Nat, n <= k.live_bytes, 1 <= k.live
  PROVE  /\ RecordFree(k, n) \in Counters
         /\ RecordFree(k, n).live_bytes = k.live_bytes - n
         /\ RecordFree(k, n).live = k.live - 1
         /\ RecordFree(k, n).allocations = k.allocations
         /\ RecordFree(k, n).frees = k.frees + 1
<1> DEFINE a == k.live_bytes - n
           b == k.live - 1
           c == k.frees + 1
           new == [k EXCEPT !.live_bytes = a, !.live = b, !.frees = c]
<1>1. a \in Nat /\ b \in Nat /\ c \in Nat
  BY DEF Counters
<1>2. RecordFree(k, n) = new
  BY DEF RecordFree
<1> HIDE DEF a, b, c
<1>3. /\ new \in Counters /\ new.live_bytes = a /\ new.live = b
      /\ new.allocations = k.allocations /\ new.frees = c
  BY <1>1 DEF Counters
<1> QED
  BY <1>2, <1>3 DEF a, b, c

\* MemoryTracker::reserve charges the reservation to the tracker, its class
\* and its root, within both budgets and with room to commit it.
LEMMA ReserveStep ==
  ASSUME TrackerInv, NEW h \in Handle, NEW t \in Tracker, NEW class \in Class,
         NEW bytes \in Nat, Reserve(h, t, class, bytes)
  PROVE  TrackerInv'
<1> DEFINE r == shared[t]
           y == [kind |-> "reserved", tracker |-> t, class |-> class,
                 bytes |-> bytes, identity |-> 0]
           R == Reserved(root[r], bytes)
           S == [Reserved(state[t], bytes) EXCEPT
                   !.reserved_classes[class] = @ + 1,
                   !.budget = IF owner[t] THEN Shared(t).budget ELSE @]
<1>1. MemoryTypes /\ BudgetInv
  BY DEF TrackerInv
<1>2. r \in Tracker /\ r # NoRoot /\ bytes # 0 /\ handle[h] = NoHandle
  BY <1>1 DEF Reserve, Grants, MemoryTypes
<1>3. /\ y \in HandleRecords /\ OfTracker(y, t) /\ OfTracker(handle[h], t)
      /\ y.kind = "reserved" /\ y.bytes = bytes /\ y.class = class
  BY <1>2 DEF HandleRecords, Kinds, OfTracker
<1>4. /\ root' = [root EXCEPT ![r] = R] /\ state' = [state EXCEPT ![t] = S]
      /\ handle' = [handle EXCEPT ![h] = y] /\ UNCHANGED <<shared, owner>>
  BY Zenon DEF Reserve
<1>5. root[r] \in RootAccounts /\ root[r].budget \in Nat /\ state[t] \in TrackerAccounts
  BY <1>1, <1>2, AccountFields
<1>6. /\ R \in RootAccounts
      /\ R.total = root[r].total /\ R.budget = root[r].budget
      /\ R.reserved_bytes = root[r].reserved_bytes + bytes
      /\ R.reserved_allocations = root[r].reserved_allocations + 1
  <2> DEFINE m == root[r].reserved_bytes + bytes
             n == root[r].reserved_allocations + 1
             k == root[r].total
  <2>1. m \in Nat /\ n \in Nat /\ k \in Counters
    BY <1>1, <1>2, AccountFields
  <2>2. R = [root[r] EXCEPT !.reserved_bytes = m, !.reserved_allocations = n, !.total = k]
    BY <1>5 DEF Reserved, RootAccounts
  <2> HIDE DEF m, n, k, R
  <2>3. /\ R \in RootAccounts /\ R.total = k /\ R.budget = root[r].budget
        /\ R.reserved_bytes = m /\ R.reserved_allocations = n
    BY <1>5, <2>1, <2>2 DEF RootAccounts
  <2> QED
    BY <2>3 DEF m, n, k
<1>7. /\ S \in TrackerAccounts
      /\ S.total = state[t].total /\ S.classes = state[t].classes
      /\ S.budget = IF owner[t] THEN root[r].budget ELSE state[t].budget
      /\ S.reserved_bytes = state[t].reserved_bytes + bytes
      /\ S.reserved_allocations = state[t].reserved_allocations + 1
      /\ S.reserved_classes = [state[t].reserved_classes EXCEPT ![class] = @ + 1]
  <2> DEFINE m == state[t].reserved_bytes + bytes
             n == state[t].reserved_allocations + 1
             k == state[t].total
             cs == state[t].classes
             rc == [state[t].reserved_classes EXCEPT ![class] = @ + 1]
             b == IF owner[t] THEN root[r].budget ELSE state[t].budget
  <2>1. /\ m \in Nat /\ n \in Nat /\ k \in Counters /\ cs \in [Class -> Counters]
        /\ rc \in [Class -> Nat] /\ b \in Nat
    BY <1>1, <1>2, AccountFields
  <2>2. S = [state[t] EXCEPT !.reserved_bytes = m, !.reserved_allocations = n,
                             !.total = k, !.reserved_classes = rc, !.classes = cs,
                             !.budget = b]
    BY <1>5 DEF Reserved, Shared, TrackerAccounts
  <2> HIDE DEF m, n, k, cs, rc, b, S
  <2>3. /\ S \in TrackerAccounts /\ S.total = k /\ S.budget = b
        /\ S.reserved_bytes = m /\ S.reserved_allocations = n
        /\ S.reserved_classes = rc /\ S.classes = cs
    BY <1>5, <2>1, <2>2 DEF TrackerAccounts
  <2> QED
    BY <2>3 DEF m, n, k, cs, rc, b
<1>8. /\ CheckedReservation(root[r], root[r].budget, bytes)
      /\ CheckedReservation(state[t], Budget(t), bytes)
      /\ Budget(t) = IF owner[t] THEN root[r].budget ELSE state[t].budget
  BY DEF Reserve, Grants, Shared, Budget
<1>9. Room(root[r]) /\ TrackerRoom(state[t])
  BY <1>2 DEF TrackerInv, RoomInv
<1> HIDE DEF r, y, R, S
<1>10. /\ Moved(R, root[r], handle[h], y) /\ Room(R)
       /\ Moved(S, state[t], handle[h], y) /\ TrackerRoom(S)
  BY <1>1, <1>2, <1>3, <1>6, <1>7, <1>8, <1>9, AccountFields, TrackerAssumption
  DEF Moved, Room, TrackerRoom, KindBytes, KindCount, NoHandle,
      CheckedReservation, CounterCapacity
<1>11. \A c \in Class : ClassMoved(S, state[t], handle[h], y, c)
  BY <1>1, <1>2, <1>3, <1>7, AccountFields
  DEF ClassMoved, ClassBytes, ClassCount, NoHandle
<1>12. Identified(S, state[t], handle[h], y)
  BY <1>1, <1>3, <1>7, AccountFields DEF Identified
<1>13. Affords(R, S, owner[t])
  BY <1>1, <1>2, <1>6, <1>7, <1>8, AccountFields
  DEF Affords, WithinBudget, CheckedReservation
<1> QED
  BY <1>2, <1>3, <1>4, <1>6, <1>7, <1>10, <1>11, <1>12, <1>13, ChargeStep DEF r

\* MemoryReservation::commit turns a reservation into an allocation of the
\* same size, in every account.
LEMMA CommitStep ==
  ASSUME TrackerInv, NEW h \in Handle, Commit(h)
  PROVE  TrackerInv'
<1> DEFINE x == handle[h]
           t == x.tracker
           r == shared[t]
           y == [x EXCEPT !.kind = "owned", !.identity = state[t].total.allocations + 1]
           R == Settled(root[r], x.bytes)
           S == [Settled(state[t], x.bytes) EXCEPT
                   !.reserved_classes[x.class] = @ - 1,
                   !.classes[x.class] = RecordAllocate(@, x.bytes)]
<1>0. handle[h] # NoHandle
  BY DEF NoHandle, Commit
<1>1. MemoryTypes /\ BudgetInv /\ x.kind = "reserved"
  BY DEF TrackerInv, Commit
<1>2. /\ x \in HandleRecords /\ x.class \in Class /\ x.bytes \in Nat \ {0}
      /\ t \in Tracker /\ r \in Tracker /\ r # NoRoot /\ OfTracker(x, t)
      /\ x.bytes <= root[r].reserved_bytes /\ 1 <= root[r].reserved_allocations
      /\ x.bytes <= state[t].reserved_bytes /\ 1 <= state[t].reserved_allocations
      /\ 1 <= state[t].reserved_classes[x.class]
  BY <1>0, <1>1, HandleCovered
<1>3. /\ y \in HandleRecords /\ OfTracker(y, t) /\ y.kind = "owned"
      /\ y.bytes = x.bytes /\ y.class = x.class
      /\ y.identity = state[t].total.allocations + 1
  <2>1. state[t].total.allocations \in Nat
    BY <1>1, <1>2, AccountFields
  <2> DEFINE id == state[t].total.allocations + 1
  <2>2. id \in Nat /\ y = [x EXCEPT !.kind = "owned", !.identity = id]
    BY <2>1
  <2>3. x \in [kind : Kinds, tracker : Tracker, class : Class,
               bytes : Nat \ {0}, identity : Nat]
    BY <1>0, <1>2 DEF HandleRecords
  <2>4. x.tracker = t
    OBVIOUS
  <2> HIDE DEF id, y, t, x
  <2>5. /\ y \in [kind : Kinds, tracker : Tracker, class : Class,
                  bytes : Nat \ {0}, identity : Nat]
        /\ y.kind = "owned" /\ y.bytes = x.bytes /\ y.class = x.class
        /\ y.identity = id /\ y.tracker = t
    BY <2>2, <2>3, <2>4 DEF Kinds
  <2> QED
    BY <2>5 DEF HandleRecords, OfTracker, id
<1>4. /\ root' = [root EXCEPT ![r] = R] /\ state' = [state EXCEPT ![t] = S]
      /\ handle' = [handle EXCEPT ![h] = y] /\ UNCHANGED <<shared, owner>>
  BY Zenon DEF Commit
<1> HIDE DEF x, t, r, y
<1>5. /\ root[r] \in RootAccounts /\ root[r].total \in Counters
      /\ state[t] \in TrackerAccounts /\ state[t].total \in Counters
      /\ state[t].classes \in [Class -> Counters]
      /\ state[t].classes[x.class] \in Counters
      /\ root[r].reserved_bytes \in Nat /\ root[r].reserved_allocations \in Nat
      /\ state[t].reserved_bytes \in Nat /\ state[t].reserved_allocations \in Nat
      /\ state[t].reserved_classes \in [Class -> Nat]
  BY <1>1, <1>2, AccountFields
<1>6. /\ RecordAllocate(root[r].total, x.bytes) \in Counters
      /\ RecordAllocate(state[t].total, x.bytes) \in Counters
      /\ RecordAllocate(state[t].classes[x.class], x.bytes) \in Counters
  BY <1>2, <1>5, AllocateFields
<1>a. \A k \in Counters :
        /\ k.live_bytes \in Nat /\ k.live \in Nat /\ k.allocations \in Nat /\ k.frees \in Nat
        /\ RecordAllocate(k, x.bytes).live_bytes = k.live_bytes + x.bytes
        /\ RecordAllocate(k, x.bytes).live = k.live + 1
        /\ RecordAllocate(k, x.bytes).allocations = k.allocations + 1
        /\ RecordAllocate(k, x.bytes).frees = k.frees
  BY <1>2, AllocateFields DEF Counters
<1>7. /\ R \in RootAccounts
      /\ R.total = RecordAllocate(root[r].total, x.bytes) /\ R.budget = root[r].budget
      /\ R.reserved_bytes = root[r].reserved_bytes - x.bytes
      /\ R.reserved_allocations = root[r].reserved_allocations - 1
  <2> DEFINE m == root[r].reserved_bytes - x.bytes
             n == root[r].reserved_allocations - 1
             k == RecordAllocate(root[r].total, x.bytes)
  <2>1. m \in Nat /\ n \in Nat /\ k \in Counters
    BY <1>2, <1>5, <1>6
  <2>2. R = [root[r] EXCEPT !.reserved_bytes = m, !.reserved_allocations = n, !.total = k]
    BY <1>5 DEF Settled, Unreserved, RootAccounts
  <2> HIDE DEF m, n, k, R
  <2>3. /\ R \in RootAccounts /\ R.total = k /\ R.budget = root[r].budget
        /\ R.reserved_bytes = m /\ R.reserved_allocations = n
    BY <1>5, <2>1, <2>2 DEF RootAccounts
  <2> QED
    BY <2>3 DEF m, n, k
<1>8. /\ S \in TrackerAccounts
      /\ S.total = RecordAllocate(state[t].total, x.bytes) /\ S.budget = state[t].budget
      /\ S.reserved_bytes = state[t].reserved_bytes - x.bytes
      /\ S.reserved_allocations = state[t].reserved_allocations - 1
      /\ S.reserved_classes = [state[t].reserved_classes EXCEPT ![x.class] = @ - 1]
      /\ S.classes = [state[t].classes EXCEPT ![x.class] = RecordAllocate(@, x.bytes)]
  <2> DEFINE m == state[t].reserved_bytes - x.bytes
             n == state[t].reserved_allocations - 1
             k == RecordAllocate(state[t].total, x.bytes)
             cs == [state[t].classes EXCEPT ![x.class] = RecordAllocate(@, x.bytes)]
             rc == [state[t].reserved_classes EXCEPT ![x.class] = @ - 1]
             b == state[t].budget
  <2>1. /\ m \in Nat /\ n \in Nat /\ k \in Counters /\ cs \in [Class -> Counters]
        /\ rc \in [Class -> Nat] /\ b \in Nat
    BY <1>1, <1>2, <1>5, <1>6, AccountFields
  <2>2. S = [state[t] EXCEPT !.reserved_bytes = m, !.reserved_allocations = n,
                             !.total = k, !.reserved_classes = rc, !.classes = cs,
                             !.budget = b]
    BY <1>5 DEF Settled, Unreserved, TrackerAccounts
  <2> HIDE DEF m, n, k, cs, rc, b, S
  <2>3. /\ S \in TrackerAccounts /\ S.total = k /\ S.budget = b
        /\ S.reserved_bytes = m /\ S.reserved_allocations = n
        /\ S.reserved_classes = rc /\ S.classes = cs
    BY <1>5, <2>1, <2>2 DEF TrackerAccounts
  <2> QED
    BY <2>3 DEF m, n, k, cs, rc, b
<1>9. Room(root[r]) /\ Room(state[t]) /\ TrackerRoom(state[t])
  BY <1>2 DEF TrackerInv, RoomInv, TrackerRoom
<1> HIDE DEF R, S
<1>10. Moved(R, root[r], x, y) /\ Room(R)
  BY <1>1, <1>2, <1>3, <1>5, <1>7, <1>9, <1>a, TrackerAssumption, SMTT(40)
  DEF Moved, Room, KindBytes, KindCount
<1>11. Moved(S, state[t], x, y) /\ Room(S)
  <2> DEFINE k == state[t].total
             n == state[t].reserved_bytes
             m == state[t].reserved_allocations
  <2>1. Moved(S, state[t], x, y)
    BY <1>1, <1>2, <1>3, <1>5, <1>8, <1>a
    DEF Moved, KindBytes, KindCount
  <2>2. /\ k.live_bytes + n <= MaxBytes /\ k.live + m <= MaxCount
        /\ k.allocations + m <= MaxCount /\ k.allocations = k.live + k.frees
    BY <1>9 DEF Room
  <2>3. /\ k \in Counters /\ n \in Nat /\ m \in Nat /\ x.bytes <= n /\ 1 <= m
    BY <1>2, <1>5
  <2>4. /\ S.total = RecordAllocate(k, x.bytes)
        /\ S.reserved_bytes = n - x.bytes
        /\ S.reserved_allocations = m - 1
    BY <1>8
  <2> HIDE DEF k, n, m, S
  <2>5. Room(S)
    BY <1>a, <1>2, <2>2, <2>3, <2>4, TrackerAssumption DEF Room
  <2> QED
    BY <2>1, <2>5
<1>12. TrackerRoom(S)
  <2>0. /\ state[t].total.allocations = state[t].total.live + state[t].total.frees
        /\ \A c \in Class :
             /\ state[t].classes[c] \in Counters
             /\ state[t].classes[c].allocations =
                  state[t].classes[c].live + state[t].classes[c].frees
             /\ state[t].classes[c].frees <= state[t].total.frees
    BY <1>5, <1>9 DEF TrackerRoom, Room
  <2>1. /\ S.total.allocations = S.total.live + S.total.frees
        /\ S.total.frees = state[t].total.frees
    <3> DEFINE k == state[t].total
    <3>1. k \in Counters /\ k.allocations = k.live + k.frees
      BY <1>5, <2>0
    <3>2. S.total = RecordAllocate(k, x.bytes)
      BY <1>8
    <3> HIDE DEF k
    <3>3. S.total.allocations = S.total.live + S.total.frees /\ S.total.frees = k.frees
      BY <1>a, <3>1, <3>2
    <3> QED
      BY <3>3 DEF k
  <2>2. ASSUME NEW c \in Class
        PROVE  /\ S.classes[c].allocations = S.classes[c].live + S.classes[c].frees
               /\ S.classes[c].frees <= S.total.frees
    <3> DEFINE k == state[t].classes[c]
    <3>1. k \in Counters /\ k.allocations = k.live + k.frees /\ k.frees <= state[t].total.frees
      BY <2>0
    <3>2. S.classes[c] = k \/ S.classes[c] = RecordAllocate(k, x.bytes)
      BY <1>2, <1>5, <1>8
    <3> HIDE DEF k
    <3> QED
      BY <1>a, <2>1, <3>1, <3>2
  <2> QED
    BY <1>11, <2>1, <2>2 DEF TrackerRoom
<1>13. ASSUME NEW c \in Class PROVE ClassMoved(S, state[t], x, y, c)
  BY <1>1, <1>2, <1>3, <1>5, <1>8, <1>a
  DEF ClassMoved, ClassBytes, ClassCount
<1>14. Identified(S, state[t], x, y)
  BY <1>1, <1>2, <1>3, <1>5, <1>8, <1>a DEF Identified
<1>15. Affords(R, S, owner[t])
  <2>1. /\ R.total.live_bytes + R.reserved_bytes =
             root[r].total.live_bytes + root[r].reserved_bytes
        /\ S.total.live_bytes + S.reserved_bytes =
             state[t].total.live_bytes + state[t].reserved_bytes
    BY <1>1, <1>2, <1>5, <1>7, <1>8, <1>a
  <2> QED
    BY <1>1, <1>2, <1>7, <1>8, <2>1 DEF Affords, BudgetInv, Budget, Shared, r
<1> QED
  BY <1>2, <1>3, <1>4, <1>7, <1>8, <1>10, <1>11, <1>12, <1>13, <1>14, <1>15, ChargeStep
  DEF r, x

\* A reservation that is dropped leaves the accounts it was charged to, and
\* no account goes below zero.
LEMMA DropReservationStep ==
  ASSUME TrackerInv, NEW h \in Handle, DropReservation(h)
  PROVE  TrackerInv'
<1> DEFINE x == handle[h]
           t == x.tracker
           r == shared[t]
           R == Unreserved(root[r], x.bytes)
           S == [Unreserved(state[t], x.bytes) EXCEPT !.reserved_classes[x.class] = @ - 1]
<1>0. handle[h] # NoHandle
  BY DEF NoHandle, DropReservation
<1>1. MemoryTypes /\ BudgetInv /\ x.kind = "reserved"
  BY DEF TrackerInv, DropReservation
<1>2. /\ x \in HandleRecords /\ x.class \in Class /\ x.bytes \in Nat \ {0}
      /\ t \in Tracker /\ r \in Tracker /\ r # NoRoot /\ OfTracker(x, t)
      /\ x.bytes <= root[r].reserved_bytes /\ 1 <= root[r].reserved_allocations
      /\ x.bytes <= state[t].reserved_bytes /\ 1 <= state[t].reserved_allocations
      /\ 1 <= state[t].reserved_classes[x.class]
  BY <1>0, <1>1, HandleCovered
<1>3. NoHandle \in HandleRecords /\ OfTracker(NoHandle, t) /\ NoHandle.kind = "none"
  BY DEF HandleRecords, OfTracker, NoHandle
<1>4. /\ root' = [root EXCEPT ![r] = R] /\ state' = [state EXCEPT ![t] = S]
      /\ handle' = [handle EXCEPT ![h] = NoHandle] /\ UNCHANGED <<shared, owner>>
  BY Zenon DEF DropReservation
<1> HIDE DEF x, t, r
<1>5. /\ root[r] \in RootAccounts /\ root[r].total \in Counters
      /\ state[t] \in TrackerAccounts /\ state[t].total \in Counters
      /\ state[t].classes \in [Class -> Counters]
      /\ root[r].reserved_bytes \in Nat /\ root[r].reserved_allocations \in Nat
      /\ state[t].reserved_bytes \in Nat /\ state[t].reserved_allocations \in Nat
      /\ state[t].reserved_classes \in [Class -> Nat]
  BY <1>1, <1>2, AccountFields
<1>6. /\ R \in RootAccounts
      /\ R.total = root[r].total /\ R.budget = root[r].budget
      /\ R.reserved_bytes = root[r].reserved_bytes - x.bytes
      /\ R.reserved_allocations = root[r].reserved_allocations - 1
  <2> DEFINE m == root[r].reserved_bytes - x.bytes
             n == root[r].reserved_allocations - 1
  <2>1. m \in Nat /\ n \in Nat
    BY <1>2, <1>5
  <2>2. R = [root[r] EXCEPT !.reserved_bytes = m, !.reserved_allocations = n]
    BY <1>5 DEF Unreserved, RootAccounts
  <2> HIDE DEF m, n, R
  <2>3. /\ R \in RootAccounts /\ R.total = root[r].total /\ R.budget = root[r].budget
        /\ R.reserved_bytes = m /\ R.reserved_allocations = n
    BY <1>5, <2>1, <2>2 DEF RootAccounts
  <2> QED
    BY <2>3 DEF m, n
<1>7. /\ S \in TrackerAccounts
      /\ S.total = state[t].total /\ S.budget = state[t].budget
      /\ S.reserved_bytes = state[t].reserved_bytes - x.bytes
      /\ S.reserved_allocations = state[t].reserved_allocations - 1
      /\ S.reserved_classes = [state[t].reserved_classes EXCEPT ![x.class] = @ - 1]
      /\ S.classes = state[t].classes
  <2> DEFINE m == state[t].reserved_bytes - x.bytes
             n == state[t].reserved_allocations - 1
             rc == [state[t].reserved_classes EXCEPT ![x.class] = @ - 1]
  <2>1. m \in Nat /\ n \in Nat /\ rc \in [Class -> Nat]
    BY <1>2, <1>5
  <2>2. S = [state[t] EXCEPT !.reserved_bytes = m, !.reserved_allocations = n,
                             !.reserved_classes = rc]
    BY <1>5 DEF Unreserved, TrackerAccounts
  <2> HIDE DEF m, n, rc, S
  <2>3. /\ S \in TrackerAccounts /\ S.total = state[t].total /\ S.budget = state[t].budget
        /\ S.reserved_bytes = m /\ S.reserved_allocations = n
        /\ S.reserved_classes = rc /\ S.classes = state[t].classes
    BY <1>5, <2>1, <2>2 DEF TrackerAccounts
  <2> QED
    BY <2>3 DEF m, n, rc
<1>8. Room(root[r]) /\ TrackerRoom(state[t])
  BY <1>2 DEF TrackerInv, RoomInv
<1>9. \A k \in Counters : /\ k.live_bytes \in Nat /\ k.live \in Nat
                          /\ k.allocations \in Nat /\ k.frees \in Nat
  BY DEF Counters
<1> HIDE DEF R, S
<1>10. Moved(R, root[r], x, NoHandle) /\ Room(R)
  BY <1>1, <1>2, <1>3, <1>5, <1>6, <1>8, <1>9, TrackerAssumption
  DEF Moved, Room, KindBytes, KindCount
<1>11. Moved(S, state[t], x, NoHandle) /\ Room(S)
  BY <1>1, <1>2, <1>3, <1>5, <1>7, <1>8, <1>9, TrackerAssumption
  DEF Moved, Room, TrackerRoom, KindBytes, KindCount
<1>12. TrackerRoom(S)
  BY <1>7, <1>8, <1>11 DEF TrackerRoom
<1>13. ASSUME NEW c \in Class PROVE ClassMoved(S, state[t], x, NoHandle, c)
  BY <1>1, <1>2, <1>3, <1>5, <1>7, <1>9
  DEF ClassMoved, ClassBytes, ClassCount
<1>14. Identified(S, state[t], x, NoHandle)
  BY <1>3, <1>5, <1>7, <1>9 DEF Identified
<1>15. Affords(R, S, owner[t])
  <2>1. /\ R.total.live_bytes + R.reserved_bytes <=
             root[r].total.live_bytes + root[r].reserved_bytes
        /\ S.total.live_bytes + S.reserved_bytes <=
             state[t].total.live_bytes + state[t].reserved_bytes
    BY <1>2, <1>5, <1>6, <1>7, <1>9
  <2>2. Affords(root[r], state[t], owner[t])
    BY <1>1, <1>2 DEF Affords, BudgetInv, Budget, Shared, r
  <2>3. root[r].budget \in Nat /\ state[t].budget \in Nat
    BY <1>1, <1>2, AccountFields
  <2> QED
    BY <1>2, <1>5, <1>6, <1>7, <1>9, <2>1, <2>2, <2>3 DEF Affords, WithinBudget
<1> QED
  BY <1>2, <1>3, <1>4, <1>6, <1>7, <1>10, <1>11, <1>12, <1>13, <1>14, <1>15, ChargeStep
  DEF r, x

\* The same for an allocation that is dropped.
LEMMA DropAllocationStep ==
  ASSUME TrackerInv, NEW h \in Handle, DropAllocation(h)
  PROVE  TrackerInv'
<1> DEFINE x == handle[h]
           t == x.tracker
           r == shared[t]
           R == [root[r] EXCEPT !.total = RecordFree(@, x.bytes)]
           S == [state[t] EXCEPT !.total = RecordFree(@, x.bytes),
                                 !.classes[x.class] = RecordFree(@, x.bytes)]
<1>0. handle[h] # NoHandle
  BY DEF NoHandle, DropAllocation
<1>1. MemoryTypes /\ BudgetInv /\ x.kind = "owned"
  BY DEF TrackerInv, DropAllocation
<1>2. /\ x \in HandleRecords /\ x.class \in Class /\ x.bytes \in Nat \ {0}
      /\ t \in Tracker /\ r \in Tracker /\ r # NoRoot /\ OfTracker(x, t)
      /\ x.bytes <= root[r].total.live_bytes /\ 1 <= root[r].total.live
      /\ x.bytes <= state[t].total.live_bytes /\ 1 <= state[t].total.live
      /\ x.bytes <= state[t].classes[x.class].live_bytes
      /\ 1 <= state[t].classes[x.class].live
  BY <1>0, <1>1, HandleCovered
<1>3. NoHandle \in HandleRecords /\ OfTracker(NoHandle, t) /\ NoHandle.kind = "none"
  BY DEF HandleRecords, OfTracker, NoHandle
<1>4. /\ root' = [root EXCEPT ![r] = R] /\ state' = [state EXCEPT ![t] = S]
      /\ handle' = [handle EXCEPT ![h] = NoHandle] /\ UNCHANGED <<shared, owner>>
  BY DEF DropAllocation
<1> HIDE DEF x, t, r
<1>5. /\ root[r] \in RootAccounts /\ root[r].total \in Counters
      /\ state[t] \in TrackerAccounts /\ state[t].total \in Counters
      /\ state[t].classes \in [Class -> Counters]
      /\ state[t].classes[x.class] \in Counters
      /\ root[r].reserved_bytes \in Nat /\ root[r].reserved_allocations \in Nat
      /\ state[t].reserved_bytes \in Nat /\ state[t].reserved_allocations \in Nat
      /\ state[t].reserved_classes \in [Class -> Nat]
  BY <1>1, <1>2, AccountFields
<1>6. /\ \A k \in Counters : /\ k.live_bytes \in Nat /\ k.live \in Nat
                             /\ k.allocations \in Nat /\ k.frees \in Nat
      /\ \A k \in Counters : x.bytes <= k.live_bytes /\ 1 <= k.live =>
           /\ RecordFree(k, x.bytes) \in Counters
           /\ RecordFree(k, x.bytes).live_bytes = k.live_bytes - x.bytes
           /\ RecordFree(k, x.bytes).live = k.live - 1
           /\ RecordFree(k, x.bytes).allocations = k.allocations
           /\ RecordFree(k, x.bytes).frees = k.frees + 1
  BY <1>2, FreeFields DEF Counters
<1>7. /\ R \in RootAccounts
      /\ R.total = RecordFree(root[r].total, x.bytes) /\ R.budget = root[r].budget
      /\ R.reserved_bytes = root[r].reserved_bytes
      /\ R.reserved_allocations = root[r].reserved_allocations
  <2> DEFINE k == RecordFree(root[r].total, x.bytes)
  <2>1. k \in Counters
    BY <1>2, <1>5, <1>6
  <2>2. R = [root[r] EXCEPT !.total = k]
    OBVIOUS
  <2> HIDE DEF k, R
  <2>3. /\ R \in RootAccounts /\ R.total = k /\ R.budget = root[r].budget
        /\ R.reserved_bytes = root[r].reserved_bytes
        /\ R.reserved_allocations = root[r].reserved_allocations
    BY <1>5, <2>1, <2>2 DEF RootAccounts
  <2> QED
    BY <2>3 DEF k
<1>8. /\ S \in TrackerAccounts
      /\ S.total = RecordFree(state[t].total, x.bytes) /\ S.budget = state[t].budget
      /\ S.reserved_bytes = state[t].reserved_bytes
      /\ S.reserved_allocations = state[t].reserved_allocations
      /\ S.reserved_classes = state[t].reserved_classes
      /\ S.classes = [state[t].classes EXCEPT ![x.class] = RecordFree(@, x.bytes)]
  <2> DEFINE k == RecordFree(state[t].total, x.bytes)
             cs == [state[t].classes EXCEPT ![x.class] = RecordFree(@, x.bytes)]
  <2>1. k \in Counters /\ cs \in [Class -> Counters]
    BY <1>2, <1>5, <1>6
  <2>2. S = [state[t] EXCEPT !.total = k, !.classes = cs]
    BY <1>5 DEF TrackerAccounts
  <2> HIDE DEF k, cs, S
  <2>3. /\ S \in TrackerAccounts /\ S.total = k /\ S.budget = state[t].budget
        /\ S.reserved_bytes = state[t].reserved_bytes
        /\ S.reserved_allocations = state[t].reserved_allocations
        /\ S.reserved_classes = state[t].reserved_classes /\ S.classes = cs
    BY <1>5, <2>1, <2>2 DEF TrackerAccounts
  <2> QED
    BY <2>3 DEF k, cs
<1>9. Room(root[r]) /\ Room(state[t]) /\ TrackerRoom(state[t])
  BY <1>2 DEF TrackerInv, RoomInv, TrackerRoom
<1> HIDE DEF R, S
<1>10. Moved(R, root[r], x, NoHandle) /\ Room(R)
  <2> DEFINE k == root[r].total
             n == root[r].reserved_bytes
             m == root[r].reserved_allocations
  <2>1. Moved(R, root[r], x, NoHandle)
    BY <1>1, <1>2, <1>3, <1>5, <1>6, <1>7
    DEF Moved, KindBytes, KindCount
  <2>2. /\ k.live_bytes + n <= MaxBytes /\ k.live + m <= MaxCount
        /\ k.allocations + m <= MaxCount /\ k.allocations = k.live + k.frees
    BY <1>9 DEF Room
  <2>3. /\ k \in Counters /\ n \in Nat /\ m \in Nat /\ x.bytes <= k.live_bytes /\ 1 <= k.live
    BY <1>2, <1>5
  <2>4. /\ R.total = RecordFree(k, x.bytes)
        /\ R.reserved_bytes = n
        /\ R.reserved_allocations = m
    BY <1>7
  <2> HIDE DEF k, n, m, R
  <2>5. Room(R)
    BY <1>6, <1>2, <2>2, <2>3, <2>4, TrackerAssumption DEF Room
  <2> QED
    BY <2>1, <2>5
<1>11. Moved(S, state[t], x, NoHandle) /\ Room(S)
  <2> DEFINE k == state[t].total
             n == state[t].reserved_bytes
             m == state[t].reserved_allocations
  <2>1. Moved(S, state[t], x, NoHandle)
    BY <1>1, <1>2, <1>3, <1>5, <1>6, <1>8
    DEF Moved, KindBytes, KindCount
  <2>2. /\ k.live_bytes + n <= MaxBytes /\ k.live + m <= MaxCount
        /\ k.allocations + m <= MaxCount /\ k.allocations = k.live + k.frees
    BY <1>9 DEF Room
  <2>3. /\ k \in Counters /\ n \in Nat /\ m \in Nat /\ x.bytes <= k.live_bytes /\ 1 <= k.live
    BY <1>2, <1>5
  <2>4. /\ S.total = RecordFree(k, x.bytes)
        /\ S.reserved_bytes = n
        /\ S.reserved_allocations = m
    BY <1>8
  <2> HIDE DEF k, n, m, S
  <2>5. Room(S)
    BY <1>6, <1>2, <2>2, <2>3, <2>4, TrackerAssumption DEF Room
  <2> QED
    BY <2>1, <2>5
<1>12. TrackerRoom(S)
  <2>0. /\ state[t].total.allocations = state[t].total.live + state[t].total.frees
        /\ \A c \in Class :
             /\ state[t].classes[c] \in Counters
             /\ state[t].classes[c].allocations =
                  state[t].classes[c].live + state[t].classes[c].frees
             /\ state[t].classes[c].frees <= state[t].total.frees
    BY <1>5, <1>9 DEF TrackerRoom, Room
  <2>1. /\ S.total.allocations = S.total.live + S.total.frees
        /\ S.total.frees = state[t].total.frees + 1 /\ state[t].total.frees \in Nat
    <3> DEFINE k == state[t].total
    <3>1. /\ k \in Counters /\ k.allocations = k.live + k.frees
          /\ x.bytes <= k.live_bytes /\ 1 <= k.live
      BY <1>2, <1>5, <2>0
    <3>2. S.total = RecordFree(k, x.bytes)
      BY <1>8
    <3> HIDE DEF k
    <3>3. /\ S.total.allocations = S.total.live + S.total.frees
          /\ S.total.frees = k.frees + 1 /\ k.frees \in Nat
      BY <1>6, <3>1, <3>2
    <3> QED
      BY <3>3 DEF k
  <2>2. ASSUME NEW c \in Class
        PROVE  /\ S.classes[c].allocations = S.classes[c].live + S.classes[c].frees
               /\ S.classes[c].frees <= S.total.frees
    <3> DEFINE k == state[t].classes[c]
    <3>1. k \in Counters /\ k.allocations = k.live + k.frees /\ k.frees <= state[t].total.frees
      BY <2>0
    <3>2. \/ S.classes[c] = k
          \/ /\ S.classes[c] = RecordFree(k, x.bytes)
             /\ x.bytes <= k.live_bytes /\ 1 <= k.live
      BY <1>2, <1>5, <1>8
    <3> HIDE DEF k
    <3> QED
      BY <1>6, <2>1, <3>1, <3>2
  <2> QED
    BY <1>11, <2>1, <2>2 DEF TrackerRoom
<1>13. ASSUME NEW c \in Class PROVE ClassMoved(S, state[t], x, NoHandle, c)
  BY <1>1, <1>2, <1>3, <1>5, <1>6, <1>8
  DEF ClassMoved, ClassBytes, ClassCount
<1>14. Identified(S, state[t], x, NoHandle)
  BY <1>2, <1>3, <1>5, <1>6, <1>8 DEF Identified
<1>15. Affords(R, S, owner[t])
  <2>1. /\ R.total.live_bytes + R.reserved_bytes <=
             root[r].total.live_bytes + root[r].reserved_bytes
        /\ S.total.live_bytes + S.reserved_bytes <=
             state[t].total.live_bytes + state[t].reserved_bytes
        /\ R.total.live_bytes \in Nat /\ S.total.live_bytes \in Nat
    BY <1>2, <1>5, <1>6, <1>7, <1>8
  <2>2. Affords(root[r], state[t], owner[t])
    BY <1>1, <1>2 DEF Affords, BudgetInv, Budget, Shared, r
  <2>3. root[r].budget \in Nat /\ state[t].budget \in Nat
    BY <1>1, <1>2, AccountFields
  <2> QED
    BY <1>2, <1>5, <1>6, <1>7, <1>8, <2>1, <2>2, <2>3 DEF Affords, WithinBudget
<1> QED
  BY <1>2, <1>3, <1>4, <1>7, <1>8, <1>10, <1>11, <1>12, <1>13, <1>14, <1>15, ChargeStep
  DEF r, x

\* MemoryAllocation::reclassify moves an allocation between two classes of its
\* tracker; the tracker and the root do not notice.
LEMMA ReclassifyStep ==
  ASSUME TrackerInv, NEW h \in Handle, NEW class \in Class, Reclassify(h, class)
  PROVE  TrackerInv'
<1> DEFINE x == handle[h]
           t == x.tracker
           r == shared[t]
           y == [x EXCEPT !.class = class]
           cs == MoveLive(state[t].classes, x.class, class, x.bytes)
           S == [state[t] EXCEPT !.classes = cs]
<1>0. handle[h] # NoHandle
  BY DEF NoHandle, Reclassify
<1>1. MemoryTypes /\ BudgetInv /\ x.kind = "owned" /\ x.class # class
  BY DEF TrackerInv, Reclassify
<1>2. /\ x \in HandleRecords /\ x.class \in Class /\ x.bytes \in Nat \ {0}
      /\ t \in Tracker /\ r \in Tracker /\ r # NoRoot /\ OfTracker(x, t)
      /\ x.bytes <= state[t].classes[x.class].live_bytes
      /\ 1 <= state[t].classes[x.class].live
  BY <1>0, <1>1, HandleCovered
<1>3. /\ y \in HandleRecords /\ OfTracker(y, t) /\ y.kind = "owned"
      /\ y.bytes = x.bytes /\ y.class = class /\ y.identity = x.identity
  <2>1. x \in [kind : Kinds, tracker : Tracker, class : Class,
               bytes : Nat \ {0}, identity : Nat]
    BY <1>0, <1>2 DEF HandleRecords
  <2> QED
    BY <1>1, <2>1 DEF HandleRecords, OfTracker
<1>4. /\ root' = [root EXCEPT ![r] = root[r]] /\ state' = [state EXCEPT ![t] = S]
      /\ handle' = [handle EXCEPT ![h] = y] /\ UNCHANGED <<shared, owner>>
  <2>1. root' = root /\ root = [root EXCEPT ![r] = root[r]]
    BY <1>1, <1>2 DEF Reclassify, MemoryTypes
  <2>2. /\ state' = [state EXCEPT ![t].classes = MoveLive(@, x.class, class, x.bytes)]
        /\ handle' = [handle EXCEPT ![h].class = class] /\ UNCHANGED <<shared, owner>>
    BY DEF Reclassify
  <2> QED
    BY <2>1, <2>2
<1> HIDE DEF x, t, r, y
<1>5. /\ root[r] \in RootAccounts /\ root[r].total \in Counters
      /\ state[t] \in TrackerAccounts /\ state[t].total \in Counters
      /\ state[t].classes \in [Class -> Counters]
      /\ root[r].reserved_bytes \in Nat /\ root[r].reserved_allocations \in Nat
      /\ state[t].reserved_bytes \in Nat /\ state[t].reserved_allocations \in Nat
      /\ state[t].reserved_classes \in [Class -> Nat]
  BY <1>1, <1>2, AccountFields
<1>6. \A k \in Counters : /\ k.live_bytes \in Nat /\ k.live \in Nat
                          /\ k.allocations \in Nat /\ k.frees \in Nat
  BY DEF Counters
<1>7. Room(root[r]) /\ TrackerRoom(state[t])
  BY <1>2 DEF TrackerInv, RoomInv
<1>8. /\ cs \in [Class -> Counters]
      /\ \A c \in Class \ {x.class, class} : cs[c] = state[t].classes[c]
      /\ cs[x.class].live_bytes = state[t].classes[x.class].live_bytes - x.bytes
      /\ cs[x.class].live = state[t].classes[x.class].live - 1
      /\ cs[x.class].allocations = state[t].classes[x.class].allocations - 1
      /\ cs[x.class].frees = state[t].classes[x.class].frees
      /\ cs[class] = RecordAllocate(state[t].classes[class], x.bytes)
  <2> DEFINE k == state[t].classes[x.class]
             a == k.live_bytes - x.bytes
             b == k.live - 1
             c == k.allocations - 1
             left == [k EXCEPT !.live_bytes = a, !.live = b, !.allocations = c]
  <2>1. k \in Counters /\ k.allocations = k.live + k.frees
    BY <1>2, <1>5, <1>7 DEF TrackerRoom
  <2>2. a \in Nat /\ b \in Nat /\ c \in Nat
    <3>1. x.bytes <= k.live_bytes /\ 1 <= k.live /\ x.bytes \in Nat
      BY <1>2
    <3> HIDE DEF k
    <3> QED
      BY <1>6, <2>1, <3>1
  <2>3. cs = [state[t].classes EXCEPT ![x.class] = left,
                                      ![class] = RecordAllocate(@, x.bytes)]
    BY DEF MoveLive
  <2> HIDE DEF a, b, c
  <2>4. /\ left \in Counters /\ left.live_bytes = a /\ left.live = b
        /\ left.allocations = c /\ left.frees = k.frees
    <3> HIDE DEF k
    <3> QED
      BY <2>1, <2>2 DEF Counters
  <2> HIDE DEF left, cs
  <2>5. RecordAllocate(state[t].classes[class], x.bytes) \in Counters
    BY <1>2, <1>5, AllocateFields
  <2>6. /\ cs \in [Class -> Counters]
        /\ \A d \in Class \ {x.class, class} : cs[d] = state[t].classes[d]
        /\ cs[x.class] = left
        /\ cs[class] = RecordAllocate(state[t].classes[class], x.bytes)
    BY <1>1, <1>2, <1>5, <2>3, <2>4, <2>5
  <2> QED
    BY <2>4, <2>6 DEF a, b, c, k
<1> HIDE DEF cs
<1>9. /\ S \in TrackerAccounts
      /\ S.total = state[t].total /\ S.budget = state[t].budget
      /\ S.reserved_bytes = state[t].reserved_bytes
      /\ S.reserved_allocations = state[t].reserved_allocations
      /\ S.reserved_classes = state[t].reserved_classes /\ S.classes = cs
  BY <1>5, <1>8 DEF TrackerAccounts
<1> HIDE DEF S
<1>10. Moved(root[r], root[r], x, y) /\ Moved(S, state[t], x, y) /\ Room(S)
  BY <1>1, <1>2, <1>3, <1>5, <1>6, <1>7, <1>9
  DEF Moved, Room, TrackerRoom, KindBytes, KindCount
<1> DEFINE k == state[t].classes[class]
<1>11. /\ cs[class].live_bytes = k.live_bytes + x.bytes
       /\ cs[class].live = k.live + 1
       /\ cs[class].allocations = k.allocations + 1
       /\ cs[class].frees = k.frees
  <2>1. k \in Counters /\ cs[class] = RecordAllocate(k, x.bytes) /\ x.bytes \in Nat
    BY <1>2, <1>5, <1>8
  <2> HIDE DEF k
  <2> QED
    BY <2>1, AllocateFields
<1>12. TrackerRoom(S)
  <2>1. ASSUME NEW c \in Class
        PROVE  /\ cs[c].allocations = cs[c].live + cs[c].frees
               /\ cs[c].frees <= state[t].total.frees
    <3>1. /\ state[t].classes[c].allocations =
               state[t].classes[c].live + state[t].classes[c].frees
          /\ state[t].classes[c].frees <= state[t].total.frees
          /\ state[t].classes[c] \in Counters
      BY <1>5, <1>7 DEF TrackerRoom
    <3>2. CASE c = class
      BY <1>6, <1>11, <3>1, <3>2
    <3>3. CASE c = x.class
      BY <1>6, <1>8, <3>1, <3>3
    <3>4. CASE c \notin {class, x.class}
      BY <1>8, <3>1, <3>4
    <3> QED
      BY <3>2, <3>3, <3>4
  <2> QED
    BY <1>7, <1>9, <1>10, <2>1 DEF TrackerRoom
<1>13. ASSUME NEW c \in Class PROVE ClassMoved(S, state[t], x, y, c)
  <2>1. /\ state[t].classes[c].live_bytes \in Nat /\ state[t].classes[c].live \in Nat
        /\ state[t].reserved_classes[c] \in Nat
    BY <1>5, <1>6
  <2>2. CASE c = class
    BY <1>1, <1>2, <1>3, <1>9, <1>11, <2>1, <2>2 DEF ClassMoved, ClassBytes, ClassCount
  <2>3. CASE c = x.class
    BY <1>1, <1>2, <1>3, <1>8, <1>9, <2>1, <2>3 DEF ClassMoved, ClassBytes, ClassCount
  <2>4. CASE c \notin {class, x.class}
    BY <1>1, <1>2, <1>3, <1>8, <1>9, <2>1, <2>4 DEF ClassMoved, ClassBytes, ClassCount
  <2> QED
    BY <2>2, <2>3, <2>4
<1>14. Identified(S, state[t], x, y)
  BY <1>1, <1>3, <1>5, <1>6, <1>9 DEF Identified
<1>15. Affords(root[r], S, owner[t])
  BY <1>1, <1>2, <1>9 DEF Affords, BudgetInv, Budget, Shared, r
<1> QED
  BY <1>2, <1>3, <1>4, <1>5, <1>7, <1>9, <1>10, <1>12, <1>13, <1>14, <1>15, ChargeStep
  DEF r, x

\* Every operation on an allocation or a reservation.
LEMMA AllocationPreserves ==
  ASSUME TrackerInv, AllocationStep
  PROVE  TrackerInv' /\ UNCHANGED <<shared, owner>>
<1>1. PICK h \in Handle :
        \/ \E t \in Tracker, class \in Class, bytes \in Bytes : Reserve(h, t, class, bytes)
        \/ \E other \in Handle : ReserveDuplicate(h, other)
        \/ Commit(h) \/ DropReservation(h) \/ DropAllocation(h)
        \/ \E class \in Class : Reclassify(h, class)
  BY DEF AllocationStep
<1>2. CASE \E t \in Tracker, class \in Class, bytes \in Bytes : Reserve(h, t, class, bytes)
  <2>1. PICK t \in Tracker, class \in Class, bytes \in Bytes : Reserve(h, t, class, bytes)
    BY <1>2
  <2>2. bytes \in Nat
    BY TrackerAssumption
  <2> QED
    BY <2>1, <2>2, ReserveStep DEF Reserve
<1>3. CASE \E other \in Handle : ReserveDuplicate(h, other)
  <2>1. PICK other \in Handle : ReserveDuplicate(h, other)
    BY <1>3
  <2>2. handle[h] # NoHandle
    BY <2>1 DEF ReserveDuplicate, NoHandle
  <2>3. /\ handle[h].tracker \in Tracker /\ handle[h].class \in Class
        /\ handle[h].bytes \in Nat
    BY <2>2, HandleCovered
  <2>4. Reserve(other, handle[h].tracker, handle[h].class, handle[h].bytes)
    BY <2>1 DEF ReserveDuplicate
  <2>5. TrackerInv'
    BY <2>3, <2>4, ReserveStep
  <2>6. UNCHANGED <<shared, owner>>
    BY <2>4 DEF Reserve
  <2> QED
    BY <2>5, <2>6
<1>4. CASE Commit(h)
  BY <1>4, CommitStep DEF Commit
<1>5. CASE DropReservation(h)
  BY <1>5, DropReservationStep DEF DropReservation
<1>6. CASE DropAllocation(h)
  BY <1>6, DropAllocationStep DEF DropAllocation
<1>7. CASE \E class \in Class : Reclassify(h, class)
  <2>1. PICK class \in Class : Reclassify(h, class)
    BY <1>7
  <2> QED
    BY <2>1, ReclassifyStep DEF Reclassify
<1> QED
  BY <1>1, <1>2, <1>3, <1>4, <1>5, <1>6, <1>7

-----------------------------------------------------------------------------
(* Budgets change *)

\* The root of an owner accounts for what its tracker does.
LEMMA OwnerAccount ==
  ASSUME TrackerInv, NEW t \in Tracker, owner[t], shared[t] # NoRoot
  PROVE  /\ shared[t] \in Tracker
         /\ Shared(t).total.live_bytes = state[t].total.live_bytes
         /\ Shared(t).reserved_bytes = state[t].reserved_bytes
<1>1. shared[t] \in Tracker
  BY DEF TrackerInv, MemoryTypes
<1>2. {u \in Tracker : shared[u] = shared[t]} = {t}
  BY DEF TrackerInv, ChargeInv
<1>3. Booked(handle, root[shared[t]], {t}) /\ Booked(handle, state[t], {t})
  BY <1>1, <1>2 DEF TrackerInv, AccountInv
<1> QED
  BY <1>1, <1>3 DEF Booked, Shared

\* A step that changes budgets only keeps the accounts.
LEMMA BudgetsOnly ==
  ASSUME TrackerInv, MemoryTypes', UNCHANGED <<shared, owner, handle>>, BudgetInv',
         \A t \in Tracker :
           /\ root'[t].total = root[t].total
           /\ root'[t].reserved_bytes = root[t].reserved_bytes
           /\ root'[t].reserved_allocations = root[t].reserved_allocations
           /\ state'[t].total = state[t].total
           /\ state'[t].classes = state[t].classes
           /\ state'[t].reserved_classes = state[t].reserved_classes
           /\ state'[t].reserved_bytes = state[t].reserved_bytes
           /\ state'[t].reserved_allocations = state[t].reserved_allocations
  PROVE  TrackerInv'
<1>1. ASSUME NEW t \in Tracker PROVE AccountInv(t)'
  <2>1. AccountInv(t)
    BY DEF TrackerInv
  <2>2. Booked(handle', root'[t], {u \in Tracker : shared'[u] = t})
    BY <2>1 DEF AccountInv, Booked
  <2>3. Booked(handle', state'[t], {t})
    BY <2>1 DEF AccountInv, Booked
  <2>4. \A c \in Class : ClassBooked(handle', state'[t], t, c)
    BY <2>1 DEF AccountInv, ClassBooked
  <2> QED
    BY <2>2, <2>3, <2>4 DEF AccountInv
<1>2. ASSUME NEW t \in Tracker PROVE RoomInv(t)'
  BY DEF TrackerInv, RoomInv, TrackerRoom, Room
<1>3. IdentityInv'
  BY DEF TrackerInv, MemoryTypes, IdentityInv, Those, HandleRecords, NoHandle, Kinds
<1>4. ChargeInv'
  BY DEF TrackerInv, ChargeInv
<1> QED
  BY <1>1, <1>2, <1>3, <1>4 DEF TrackerInv

\* A change of budget is checked against what is owned and reserved, of the
\* tracker and, for an owner, of the root.
LEMMA BudgetPreserves ==
  ASSUME TrackerInv, BudgetStep
  PROVE  TrackerInv' /\ UNCHANGED <<shared, owner>>
<1>1. PICK t \in Tracker, budget \in Budgets : SetRootBudget(t, budget) \/ SetBudget(t, budget)
  BY DEF BudgetStep
<1>2. budget \in Nat
  BY TrackerAssumption
<1>3. shared[t] \in Tracker /\ shared[t] # NoRoot /\ MemoryTypes
  BY <1>1 DEF TrackerInv, MemoryTypes, SetRootBudget, SetBudget
<1> DEFINE r == shared[t]
           R == [root[r] EXCEPT !.budget = budget]
           S == [state[t] EXCEPT !.budget = budget]
<1>4. /\ R \in RootAccounts /\ R.budget = budget /\ R.total = root[r].total
      /\ R.reserved_bytes = root[r].reserved_bytes
      /\ R.reserved_allocations = root[r].reserved_allocations
  <2>1. root[r] \in RootAccounts
    BY <1>3 DEF MemoryTypes
  <2> QED
    BY <1>2, <2>1 DEF RootAccounts
<1>5. /\ S \in TrackerAccounts /\ S.budget = budget /\ S.total = state[t].total
      /\ S.classes = state[t].classes /\ S.reserved_classes = state[t].reserved_classes
      /\ S.reserved_bytes = state[t].reserved_bytes
      /\ S.reserved_allocations = state[t].reserved_allocations
  <2>1. state[t] \in TrackerAccounts
    BY <1>3 DEF MemoryTypes
  <2> QED
    BY <1>2, <2>1 DEF TrackerAccounts
<1>7. CASE SetRootBudget(t, budget)
  <2>1. /\ root' = [root EXCEPT ![r] = R] /\ CheckBudgetChange(budget, root[r])
        /\ UNCHANGED <<state, shared, owner, handle>>
    BY <1>7 DEF SetRootBudget, Shared
  <2> HIDE DEF R, S, r
  <2>2. /\ root'[r] = R /\ \A u \in Tracker \ {r} : root'[u] = root[u]
        /\ root' \in [Tracker -> RootAccounts]
    BY <1>3, <1>4, <2>1 DEF MemoryTypes, r
  <2>3. MemoryTypes'
    BY <1>3, <2>1, <2>2 DEF MemoryTypes
  <2>4. ASSUME NEW u \in Tracker, shared[u] # NoRoot
        PROVE  /\ WithinBudget(Budget(u)', state[u].total.live_bytes + state[u].reserved_bytes)
               /\ WithinBudget(root'[shared[u]].budget,
                    root'[shared[u]].total.live_bytes + root'[shared[u]].reserved_bytes)
    <3>1. /\ shared[u] \in Tracker
          /\ WithinBudget(Budget(u), state[u].total.live_bytes + state[u].reserved_bytes)
          /\ WithinBudget(root[shared[u]].budget,
               root[shared[u]].total.live_bytes + root[shared[u]].reserved_bytes)
      BY <1>3, <2>4 DEF TrackerInv, BudgetInv, MemoryTypes, Shared
    <3>2. CASE shared[u] = r
      <4>1. WithinBudget(budget, root[r].total.live_bytes + root[r].reserved_bytes)
        BY <2>1 DEF CheckBudgetChange
      <4>2. CASE owner[u]
        <5>1. /\ root[r].total.live_bytes = state[u].total.live_bytes
              /\ root[r].reserved_bytes = state[u].reserved_bytes
          BY <2>4, <3>2, <4>2, OwnerAccount DEF Shared
        <5>2. Budget(u)' = budget
          BY <1>4, <2>1, <2>2, <3>2, <4>2 DEF Budget, Shared
        <5> QED
          BY <1>4, <2>2, <3>2, <4>1, <5>1, <5>2
      <4>3. CASE ~owner[u]
        <5>1. Budget(u)' = Budget(u)
          BY <2>1, <4>3 DEF Budget
        <5> QED
          BY <1>4, <2>2, <3>1, <3>2, <4>1, <5>1
      <4> QED
        BY <4>2, <4>3
    <3>3. CASE shared[u] # r
      <4>1. root'[shared[u]] = root[shared[u]]
        BY <2>2, <3>1, <3>3
      <4>2. Budget(u)' = Budget(u)
        BY <2>1, <4>1 DEF Budget, Shared
      <4> QED
        BY <3>1, <4>1, <4>2
    <3> QED
      BY <3>2, <3>3
  <2>5. BudgetInv'
    BY <2>1, <2>4 DEF BudgetInv, Shared
  <2>6. \A u \in Tracker : /\ root'[u].total = root[u].total
                           /\ root'[u].reserved_bytes = root[u].reserved_bytes
                           /\ root'[u].reserved_allocations = root[u].reserved_allocations
    BY <1>4, <2>2
  <2> QED
    BY <2>1, <2>3, <2>5, <2>6, BudgetsOnly
<1>8. CASE SetBudget(t, budget)
  <2>1. /\ CheckBudgetChange(budget, state[t])
        /\ owner[t] => CheckBudgetChange(budget, root[r])
        /\ owner[t] => root' = [root EXCEPT ![r] = R]
        /\ ~owner[t] => root' = root
        /\ state' = [state EXCEPT ![t] = S] /\ UNCHANGED <<shared, owner, handle>>
    BY <1>8 DEF SetBudget, Shared
  <2> HIDE DEF R, S, r
  <2>2. /\ owner[t] => root'[r] = R
        /\ \A u \in Tracker : u # r \/ ~owner[t] => root'[u] = root[u]
        /\ root' \in [Tracker -> RootAccounts]
    <3>1. CASE owner[t]
      BY <1>3, <1>4, <2>1, <3>1 DEF MemoryTypes, r
    <3>2. CASE ~owner[t]
      BY <1>3, <2>1, <3>2 DEF MemoryTypes
    <3> QED
      BY <3>1, <3>2
  <2>3. /\ state'[t] = S /\ \A u \in Tracker \ {t} : state'[u] = state[u]
        /\ state' \in [Tracker -> TrackerAccounts]
    BY <1>3, <1>5, <2>1 DEF MemoryTypes
  <2>4. MemoryTypes'
    BY <1>3, <2>1, <2>2, <2>3 DEF MemoryTypes
  <2>5. ASSUME NEW u \in Tracker, shared[u] # NoRoot
        PROVE  /\ WithinBudget(Budget(u)', state'[u].total.live_bytes + state'[u].reserved_bytes)
               /\ WithinBudget(root'[shared[u]].budget,
                    root'[shared[u]].total.live_bytes + root'[shared[u]].reserved_bytes)
    <3>1. /\ shared[u] \in Tracker
          /\ WithinBudget(Budget(u), state[u].total.live_bytes + state[u].reserved_bytes)
          /\ WithinBudget(root[shared[u]].budget,
               root[shared[u]].total.live_bytes + root[shared[u]].reserved_bytes)
      BY <1>3, <2>5 DEF TrackerInv, BudgetInv, MemoryTypes, Shared
    <3>2. CASE u = t /\ owner[t]
      <4>1. Budget(u)' = budget
        BY <1>4, <2>1, <2>2, <3>2 DEF Budget, Shared, r
      <4>2. /\ WithinBudget(budget, state[t].total.live_bytes + state[t].reserved_bytes)
            /\ WithinBudget(budget, root[r].total.live_bytes + root[r].reserved_bytes)
        BY <2>1, <3>2 DEF CheckBudgetChange
      <4> QED
        BY <1>4, <1>5, <2>2, <2>3, <3>2, <4>1, <4>2 DEF r
    <3>3. CASE u = t /\ ~owner[t]
      <4>1. Budget(u)' = budget
        BY <1>5, <2>1, <2>3, <3>3 DEF Budget
      <4>2. WithinBudget(budget, state[t].total.live_bytes + state[t].reserved_bytes)
        BY <2>1 DEF CheckBudgetChange
      <4> QED
        BY <1>5, <2>1, <2>3, <3>1, <3>3, <4>1, <4>2
    <3>4. CASE u # t
      <4>1. root'[shared[u]] = root[shared[u]] /\ state'[u] = state[u]
        BY <2>2, <2>3, <3>1, <3>4 DEF TrackerInv, ChargeInv, r
      <4>2. Budget(u)' = Budget(u)
        BY <2>1, <4>1 DEF Budget, Shared
      <4> QED
        BY <3>1, <4>1, <4>2
    <3> QED
      BY <3>2, <3>3, <3>4
  <2>6. BudgetInv'
    BY <2>1, <2>5 DEF BudgetInv, Shared
  <2>7. \A u \in Tracker :
          /\ root'[u].total = root[u].total
          /\ root'[u].reserved_bytes = root[u].reserved_bytes
          /\ root'[u].reserved_allocations = root[u].reserved_allocations
    BY <1>4, <2>2
  <2>8. \A u \in Tracker :
          /\ state'[u].total = state[u].total
          /\ state'[u].classes = state[u].classes
          /\ state'[u].reserved_classes = state[u].reserved_classes
          /\ state'[u].reserved_bytes = state[u].reserved_bytes
          /\ state'[u].reserved_allocations = state[u].reserved_allocations
    BY <1>5, <2>3
  <2> QED
    BY <2>1, <2>4, <2>6, <2>7, <2>8, BudgetsOnly
<1> QED
  BY <1>1, <1>7, <1>8

-----------------------------------------------------------------------------
(* The policy *)

\* What a capacity that was observed looks like.
LEMMA CapacityTypes ==
  ASSUME NEW capacity \in Capacities, capacity # NoCapacity
  PROVE  capacity.total \in Nat /\ capacity.available \in Nat
BY PolicyAssumption DEF Capacities

\* Four fifths of a number are a number.
LEMMA FourFifthsTypes ==
  ASSUME NEW n \in Nat
  PROVE  FourFifths(n) \in Nat
<1>1. n \div 5 \in Nat /\ n % 5 \in Nat
  OBVIOUS
<1> DEFINE a == n \div 5
           b == (n % 5) * 4
<1>2. a * 4 \in Nat /\ b \in Nat
  BY <1>1
<1> HIDE DEF a, b
<1>3. b \div 5 \in Nat
  BY <1>2
<1>4. a * 4 + b \div 5 \in Nat
  BY <1>2, <1>3
<1> QED
  BY <1>4 DEF FourFifths, a, b

(* A limit that serves what is owned and what the pool can hold. *)
Serves(limit, capacity, owned) ==
    /\ limit \in Nat \ {0}
    /\ limit >= owned
    /\ Within(limit, capacity, owned)

\* An observed maximum is within the pool.
LEMMA MaximumFits ==
  ASSUME NEW capacity \in Capacities, capacity # NoCapacity, NEW owned \in Nat,
         ObservedMaximum(capacity, owned).ok
  PROVE  LET m == ObservedMaximum(capacity, owned).limit
         IN m \in Nat /\ m <= capacity.total /\ m <= owned + capacity.available
<1>1. capacity.total \in Nat /\ capacity.available \in Nat
  BY CapacityTypes
<1>2. ObservedMaximum(capacity, owned) =
        Limit(Lesser(capacity.total, owned + capacity.available))
  BY DEF ObservedMaximum, Fails
<1> QED
  BY <1>1, <1>2 DEF Limit, Lesser

\* An automatic limit serves.
LEMMA AutomaticServes ==
  ASSUME NEW capacity \in Capacities, NEW owned \in Nat,
         ResolveAutomatic(capacity, owned).ok
  PROVE  /\ Serves(ResolveAutomatic(capacity, owned).limit, capacity, owned)
         /\ capacity # NoCapacity
<1> DEFINE maximum == ObservedMaximum(capacity, owned)
           automatic == Lesser(owned + FourFifths(capacity.available), maximum.limit)
<1>1. /\ capacity # NoCapacity /\ maximum.ok /\ automatic > 0 /\ automatic >= owned
      /\ ResolveAutomatic(capacity, owned) = Limit(automatic)
  BY DEF ResolveAutomatic, Fails
<1>2. FourFifths(capacity.available) \in Nat
  BY <1>1, CapacityTypes, FourFifthsTypes
<1>3. /\ maximum.limit \in Nat /\ maximum.limit <= capacity.total
      /\ maximum.limit <= owned + capacity.available
  BY <1>1, MaximumFits
<1>4. capacity.total \in Nat /\ capacity.available \in Nat
  BY <1>1, CapacityTypes
<1> HIDE DEF maximum
<1>5. automatic \in Nat /\ automatic <= maximum.limit
  BY <1>2, <1>3 DEF Lesser
<1> HIDE DEF automatic
<1> QED
  BY <1>1, <1>3, <1>4, <1>5 DEF Serves, Within, Limit

\* A limit that is asked for serves when it is granted.
LEMMA ExplicitServes ==
  ASSUME NEW requested \in Nat \ {0}, NEW capacity \in Capacities, NEW owned \in Nat,
         ResolveExplicit(requested, capacity, owned).ok
  PROVE  Serves(ResolveExplicit(requested, capacity, owned).limit, capacity, owned)
<1> DEFINE maximum == ObservedMaximum(capacity, owned)
<1>1. /\ requested >= owned
      /\ capacity = NoCapacity \/ (maximum.ok /\ requested <= maximum.limit)
      /\ ResolveExplicit(requested, capacity, owned) = Limit(requested)
  BY DEF ResolveExplicit, Fails
<1>2. Within(requested, capacity, owned)
  <2>1. SUFFICES ASSUME capacity # NoCapacity
                 PROVE  requested <= capacity.total /\ requested <= owned + capacity.available
    BY DEF Within
  <2>2. /\ maximum.limit \in Nat /\ maximum.limit <= capacity.total
        /\ maximum.limit <= owned + capacity.available
    BY <1>1, <2>1, MaximumFits
  <2>3. capacity.total \in Nat /\ capacity.available \in Nat
    BY <2>1, CapacityTypes
  <2> HIDE DEF maximum
  <2> QED
    BY <1>1, <2>1, <2>2, <2>3
<1> QED
  BY <1>1, <1>2 DEF Serves, Limit

\* Either way, a limit that is resolved serves.
LEMMA LimitServes ==
  ASSUME NEW request \in Requests, NEW capacity \in Capacities, NEW owned \in Nat,
         ResolveLimit(request, capacity, owned).ok
  PROVE  Serves(ResolveLimit(request, capacity, owned).limit, capacity, owned)
<1>1. CASE request = None
  BY <1>1, AutomaticServes DEF ResolveLimit
<1>2. CASE request # None
  <2>1. request \in Nat \ {0}
    BY <1>2, PolicyAssumption
  <2> QED
    BY <1>2, <2>1, ExplicitServes DEF ResolveLimit
<1> QED
  BY <1>1, <1>2

\* The recommended working set makes a limit smaller, never less than what is
\* owned.
LEMMA CombinedServes ==
  ASSUME NEW request \in Requests, NEW host \in Capacities,
         NEW workingSet \in Totals \cup {None}, NEW owned \in Nat,
         ResolveCombined(request, host, workingSet, owned).ok
  PROVE  Serves(ResolveCombined(request, host, workingSet, owned).limit, host, owned)
<1>1. CASE request # None
  BY <1>1, LimitServes DEF ResolveCombined
<1>2. CASE request = None
  <2> DEFINE derived == ResolveAutomatic(host, owned)
             limit == Lesser(FourFifths(workingSet), derived.limit)
  <2>1. /\ workingSet # None /\ derived.ok /\ limit > 0 /\ limit >= owned
        /\ ResolveCombined(request, host, workingSet, owned) = Limit(limit)
    BY <1>2 DEF ResolveCombined, Fails
  <2>2. FourFifths(workingSet) \in Nat
    BY <2>1, PolicyAssumption, FourFifthsTypes
  <2>3. Serves(derived.limit, host, owned) /\ host # NoCapacity
    BY <2>1, AutomaticServes
  <2>4. host.total \in Nat /\ host.available \in Nat
    BY <2>3, CapacityTypes
  <2> HIDE DEF derived
  <2>5. limit \in Nat /\ limit <= derived.limit /\ derived.limit \in Nat
    BY <2>2, <2>3 DEF Lesser, Serves
  <2> HIDE DEF limit
  <2> QED
    BY <2>1, <2>3, <2>4, <2>5 DEF Serves, Within, Limit
<1> QED
  BY <1>1, <1>2

\* A policy that resolves serves both pools, and a pool that is shared holds
\* the host's part.
LEMMA PolicyServes ==
  ASSUME NEW in \in ObservedInputs, ResolvePolicy(in).ok
  PROVE  LET policy == ResolvePolicy(in)
         IN /\ Serves(policy.combined, IF policy.shared THEN in.host ELSE in.backend, in.owned)
            /\ Serves(policy.host, in.host, 0)
            /\ policy.shared => policy.host <= policy.combined
<1> DEFINE host == ResolveLimit(in.host_request, in.host, 0)
           backend == ResolveBackend(in)
           capped == IF in.topology = "discrete" THEN host
                     ELSE CapHostLimit(in.host_request, host.limit, backend.limit)
<1>1. /\ host.ok /\ backend.ok /\ capped.ok
      /\ ResolvePolicy(in).shared <=> in.topology # "discrete"
      /\ ResolvePolicy(in).combined = backend.limit
      /\ ResolvePolicy(in).host = capped.limit
  BY DEF ResolvePolicy
<1>2. /\ in.topology \in {"discrete", "unified", "cpu"} /\ in.backend \in Capacities
      /\ in.workingSet \in Totals \cup {None} /\ in.host \in Capacities
      /\ in.memory \in Requests /\ in.host_request \in Requests /\ in.owned \in Nat
  BY DEF ObservedInputs
<1>3. Serves(host.limit, in.host, 0)
  BY <1>1, <1>2, LimitServes
<1>4. CASE in.topology = "discrete"
  <2>1. backend = ResolveLimit(in.memory, in.backend, in.owned)
    BY <1>1, <1>4 DEF ResolveBackend, Fails
  <2>2. Serves(backend.limit, in.backend, in.owned)
    BY <1>1, <1>2, <2>1, LimitServes
  <2> QED
    BY <1>1, <1>3, <1>4, <2>2
<1>5. CASE in.topology # "discrete"
  <2>1. Serves(backend.limit, in.host, in.owned)
    <3>1. CASE in.topology = "unified"
      <4>1. backend = ResolveCombined(in.memory, in.host, in.workingSet, in.owned)
        BY <1>1, <3>1 DEF ResolveBackend, Fails
      <4> QED
        BY <1>1, <1>2, <4>1, CombinedServes
    <3>2. CASE in.topology = "cpu"
      <4>1. backend = ResolveLimit(in.memory, in.host, in.owned)
        BY <1>1, <3>2 DEF ResolveBackend
      <4> QED
        BY <1>1, <1>2, <4>1, LimitServes
    <3> QED
      BY <1>2, <1>5, <3>1, <3>2
  <2>2. capped = CapHostLimit(in.host_request, host.limit, backend.limit)
    BY <1>5
  <2>3. host.limit \in Nat \ {0} /\ backend.limit \in Nat \ {0}
    BY <1>3, <2>1 DEF Serves
  <2> HIDE DEF host, backend, capped
  <2>4. /\ capped.limit <= backend.limit /\ capped.limit <= host.limit
        /\ capped.limit \in Nat \ {0}
    BY <1>1, <2>2, <2>3 DEF CapHostLimit, Limit, Fails
  <2>5. Serves(capped.limit, in.host, 0)
    <3>1. in.host # NoCapacity => in.host.total \in Nat /\ in.host.available \in Nat
      BY <1>2, CapacityTypes
    <3> QED
      BY <1>3, <2>3, <2>4, <3>1 DEF Serves, Within
  <2> QED
    BY <1>1, <1>5, <2>1, <2>4, <2>5
<1> QED
  BY <1>4, <1>5

-----------------------------------------------------------------------------
(* The steps of the server *)

\* An account that nothing charges adds up when it is empty.
LEMMA UnchargedBooks ==
  ASSUME NEW hd \in [Handle -> HandleRecords], NEW T,
         \A h \in Handle : hd[h] # NoHandle => hd[h].tracker \notin T
  PROVE  \A kind \in Kinds : \A C :
           BytesIn(hd, kind, T, C) = 0 /\ CountIn(hd, kind, T, C) = 0
<1>1. ASSUME NEW kind \in Kinds, NEW C, NEW h \in Handle
      PROVE  ~Counted(hd[h], kind, T, C)
  BY DEF Counted, NoHandle, Kinds
<1> QED
  BY <1>1, NothingCounted

\* What a new root and a new tracker are.
LEMMA NewAccounts ==
  ASSUME NEW b \in Nat
  PROVE  /\ NewRoot(b) \in RootAccounts /\ NewRoot(b).budget = b
         /\ NewRoot(b).total = Zero /\ NewRoot(b).reserved_bytes = 0
         /\ NewRoot(b).reserved_allocations = 0
         /\ NewTracker(b) \in TrackerAccounts /\ NewTracker(b).budget = b
         /\ NewTracker(b).total = Zero /\ NewTracker(b).reserved_bytes = 0
         /\ NewTracker(b).reserved_allocations = 0
         /\ \A c \in Class : /\ NewTracker(b).classes[c] = Zero
                             /\ NewTracker(b).reserved_classes[c] = 0
         /\ Zero.live_bytes = 0 /\ Zero.live = 0 /\ Zero.allocations = 0 /\ Zero.frees = 0
         /\ Room(NewRoot(b)) /\ TrackerRoom(NewTracker(b))
<1>1. /\ Zero \in Counters /\ Zero.live_bytes = 0 /\ Zero.live = 0
      /\ Zero.allocations = 0 /\ Zero.frees = 0
  BY DEF Zero, Counters
<1>2. /\ NewRoot(b) \in RootAccounts /\ NewRoot(b).budget = b
      /\ NewRoot(b).total = Zero /\ NewRoot(b).reserved_bytes = 0
      /\ NewRoot(b).reserved_allocations = 0
  BY <1>1 DEF NewRoot, RootAccounts
<1>3. /\ NewTracker(b) \in TrackerAccounts /\ NewTracker(b).budget = b
      /\ NewTracker(b).total = Zero /\ NewTracker(b).reserved_bytes = 0
      /\ NewTracker(b).reserved_allocations = 0
      /\ \A c \in Class : /\ NewTracker(b).classes[c] = Zero
                          /\ NewTracker(b).reserved_classes[c] = 0
  BY <1>1 DEF NewTracker, TrackerAccounts
<1>4. Room(NewRoot(b)) /\ TrackerRoom(NewTracker(b))
  BY <1>1, <1>2, <1>3, TrackerAssumption DEF Room, TrackerRoom
<1> QED
  BY <1>1, <1>2, <1>3, <1>4

\* A new account of a tracker, and of a root, that nothing charges.
LEMMA NewBooks ==
  ASSUME NEW hd \in [Handle -> HandleRecords], NEW b \in Nat, NEW t, NEW T,
         \A h \in Handle : hd[h] # NoHandle => hd[h].tracker \notin T /\ hd[h].tracker # t
  PROVE  /\ Booked(hd, NewRoot(b), T) /\ Booked(hd, NewTracker(b), {t})
         /\ \A c \in Class : ClassBooked(hd, NewTracker(b), t, c)
<1>1. "owned" \in Kinds /\ "reserved" \in Kinds
  BY DEF Kinds
<1>2. \A kind \in Kinds : \A C :
        /\ BytesIn(hd, kind, T, C) = 0 /\ CountIn(hd, kind, T, C) = 0
        /\ BytesIn(hd, kind, {t}, C) = 0 /\ CountIn(hd, kind, {t}, C) = 0
  BY UnchargedBooks
<1>3. Booked(hd, NewRoot(b), T) /\ Booked(hd, NewTracker(b), {t})
  BY <1>1, <1>2, NewAccounts DEF Booked
<1>4. \A c \in Class : ClassBooked(hd, NewTracker(b), t, c)
  BY <1>1, <1>2, NewAccounts DEF ClassBooked
<1> QED
  BY <1>3, <1>4

\* The first state.
LEMMA InitInv ==
  Init => MemoryInv
<1> SUFFICES ASSUME Init PROVE MemoryInv
  OBVIOUS
<1> USE DEF Init
<1>1. /\ \A t \in Tracker : root[t] = NewRoot(0) /\ state[t] = NewTracker(0)
      /\ handle \in [Handle -> HandleRecords] /\ \A h \in Handle : handle[h] = NoHandle
  BY DEF Unlimited, HandleRecords
<1>2. MemoryTypes
  <2>1. root \in [Tracker -> RootAccounts] /\ state \in [Tracker -> TrackerAccounts]
    BY NewAccounts DEF Unlimited
  <2> QED
    BY <1>1, <2>1 DEF MemoryTypes
<1>3. ASSUME NEW t \in Tracker PROVE AccountInv(t) /\ RoomInv(t)
  <2>1. AccountInv(t)
    BY <1>1, NewBooks DEF AccountInv
  <2>2. RoomInv(t)
    BY <1>1, NewAccounts DEF RoomInv
  <2> QED
    BY <2>1, <2>2
<1>4. IdentityInv
  BY <1>1 DEF IdentityInv, Those, NoHandle
<1>5. ChargeInv
  BY <1>1, PolicyAssumption, TrackerAssumption DEF ChargeInv
<1>6. BudgetInv
  <2>1. ASSUME NEW t \in Tracker, shared[t] # NoRoot
        PROVE  shared[t] \in Tracker /\ Budget(t) = Unlimited /\ Shared(t).budget = Unlimited
    <3>1. shared[t] \in Tracker
      BY <2>1, PolicyAssumption
    <3> QED
      BY <1>1, <3>1, NewAccounts DEF Budget, Shared, Unlimited
  <2> QED
    BY <2>1 DEF BudgetInv, WithinBudget
<1>7. PhaseInv
  BY PolicyAssumption DEF PhaseInv
<1> QED
  BY <1>2, <1>3, <1>4, <1>5, <1>6, <1>7 DEF MemoryInv, TrackerInv

\* Until the policy is installed, the backend's tracker has all handles.
LEMMA BackendHasAll ==
  ASSUME MemoryInv, phase \in {"built", "observed"}, NEW h \in Handle, handle[h] # NoHandle
  PROVE  handle[h].tracker = Backend
<1>1. handle[h].tracker \in Tracker /\ shared[handle[h].tracker] # NoRoot
  BY DEF MemoryInv, TrackerInv, MemoryTypes, HandleRecords, ChargeInv
<1> QED
  BY <1>1, PolicyAssumption DEF MemoryInv, PhaseInv

\* A backend that owns and has reserved no bytes has no handles.
LEMMA EmptyBackend ==
  ASSUME MemoryInv, phase \in {"built", "observed"}, IsEmpty(Backend), NEW h \in Handle
  PROVE  handle[h] = NoHandle
<1>1. MemoryTypes /\ AccountInv(Backend) /\ Backend \in Tracker
  BY PolicyAssumption DEF MemoryInv, TrackerInv
<1>2. /\ BytesIn(handle, "owned", {Backend}, Class) = 0
      /\ BytesIn(handle, "reserved", {Backend}, Class) = 0
  BY <1>1 DEF AccountInv, Booked, IsEmpty
<1>3. ~Counted(handle[h], "owned", {Backend}, Class)
  BY <1>1, <1>2, NoBytesNoHandle DEF MemoryTypes, Kinds
<1>4. ~Counted(handle[h], "reserved", {Backend}, Class)
  BY <1>1, <1>2, NoBytesNoHandle DEF MemoryTypes, Kinds
<1>5. SUFFICES ASSUME handle[h] # NoHandle PROVE FALSE
  OBVIOUS
<1>6. handle[h].tracker = Backend
  BY <1>5, BackendHasAll
<1>7. handle[h].kind \in Kinds /\ handle[h].class \in Class
  BY <1>1, <1>5 DEF MemoryTypes, HandleRecords
<1> QED
  BY <1>3, <1>4, <1>6, <1>7 DEF Counted, Kinds

\* A shared pool replaces an empty backend tracker by two children of a new
\* root; the root it had is left with nothing.
LEMMA InstallShared ==
  ASSUME MemoryInv, Install, ResolvePolicy(inputs).shared
  PROVE  TrackerInv'
<1> DEFINE policy == ResolvePolicy(inputs)
           b == policy.combined
           n == policy.host
<1>1. /\ phase = "observed" /\ policy.ok /\ IsEmpty(Backend)
      /\ root' = [root EXCEPT ![Host] = NewRoot(b)]
      /\ state' = [state EXCEPT ![Backend] = NewTracker(b), ![Host] = NewTracker(n)]
      /\ shared' = [t \in Tracker |-> Host] /\ owner' = [t \in Tracker |-> FALSE]
      /\ handle' = handle
  BY DEF Install
<1>2. b \in Nat /\ n \in Nat
  BY <1>1, PolicyServes DEF Serves, MemoryInv, PhaseInv
<1>3. MemoryTypes /\ Backend \in Tracker /\ Host \in Tracker /\ Backend # Host
      /\ Tracker = {Backend, Host}
  BY PolicyAssumption DEF MemoryInv, TrackerInv
<1> HIDE DEF policy, b, n
<1>4. \A h \in Handle : handle[h] = NoHandle
  BY <1>1, EmptyBackend
<1>5. /\ root'[Host] = NewRoot(b) /\ root'[Backend] = root[Backend]
      /\ state'[Host] = NewTracker(n) /\ state'[Backend] = NewTracker(b)
      /\ shared'[Host] = Host /\ shared'[Backend] = Host
      /\ ~owner'[Host] /\ ~owner'[Backend]
  BY <1>1, <1>3 DEF MemoryTypes
<1>6. MemoryTypes'
  <2>1. /\ NewRoot(b) \in RootAccounts /\ NewTracker(b) \in TrackerAccounts
        /\ NewTracker(n) \in TrackerAccounts
    BY <1>2, NewAccounts
  <2> QED
    BY <1>1, <1>3, <2>1 DEF MemoryTypes
<1>7. AccountInv(Host)'
  <2>1. /\ Booked(handle, NewRoot(b), {u \in Tracker : shared'[u] = Host})
        /\ Booked(handle, NewTracker(n), {Host})
        /\ \A c \in Class : ClassBooked(handle, NewTracker(n), Host, c)
    BY <1>2, <1>3, <1>4, NewBooks DEF MemoryTypes
  <2> QED
    BY <1>1, <1>5, <2>1 DEF AccountInv
<1>8. AccountInv(Backend)'
  <2>1. /\ Booked(handle, NewTracker(b), {Backend})
        /\ \A c \in Class : ClassBooked(handle, NewTracker(b), Backend, c)
    BY <1>2, <1>3, <1>4, NewBooks DEF MemoryTypes
  <2> DEFINE T == {u \in Tracker : shared[u] = Backend}
             T2 == {u \in Tracker : shared'[u] = Backend}
  <2>2. \A kind \in Kinds : \A U :
          BytesIn(handle, kind, U, Class) = 0 /\ CountIn(handle, kind, U, Class) = 0
    BY <1>3, <1>4, UnchargedBooks DEF MemoryTypes
  <2>3. Booked(handle, root[Backend], T)
    BY <1>3 DEF MemoryInv, TrackerInv, AccountInv
  <2> HIDE DEF T, T2
  <2>4. Booked(handle, root[Backend], T2)
    BY <2>2, <2>3 DEF Booked, Kinds
  <2> QED
    BY <1>1, <1>5, <2>1, <2>4 DEF AccountInv, T2
<1>9. RoomInv(Host)' /\ RoomInv(Backend)'
  <2>1. Room(root[Backend])
    BY <1>3 DEF MemoryInv, TrackerInv, RoomInv
  <2> QED
    BY <1>2, <1>5, <2>1, NewAccounts DEF RoomInv
<1>10. IdentityInv'
  BY <1>1, <1>4 DEF IdentityInv, Those, NoHandle
<1>11. ChargeInv'
  BY <1>1, <1>3, <1>4, <1>5 DEF ChargeInv
<1>12. BudgetInv'
  <2>1. WithinBudget(b, 0) /\ WithinBudget(n, 0)
    BY <1>2 DEF WithinBudget
  <2>2. ASSUME NEW t \in Tracker
        PROVE  /\ WithinBudget(Budget(t)', state'[t].total.live_bytes + state'[t].reserved_bytes)
               /\ WithinBudget(Shared(t)'.budget,
                    Shared(t)'.total.live_bytes + Shared(t)'.reserved_bytes)
    <3>1. Shared(t)' = NewRoot(b) /\ Budget(t)' = state'[t].budget
      BY <1>3, <1>5 DEF Shared, Budget
    <3>2. state'[t] = NewTracker(b) \/ state'[t] = NewTracker(n)
      BY <1>3, <1>5
    <3> QED
      BY <1>2, <2>1, <3>1, <3>2, NewAccounts
  <2> QED
    BY <2>2 DEF BudgetInv
<1> QED
  BY <1>3, <1>6, <1>7, <1>8, <1>9, <1>10, <1>11, <1>12 DEF TrackerInv

\* A discrete backend keeps its tracker with a budget that covers what it
\* owns; host storage gets a tracker of its own.
LEMMA InstallDiscrete ==
  ASSUME MemoryInv, Install, ~ResolvePolicy(inputs).shared
  PROVE  TrackerInv'
<1> DEFINE policy == ResolvePolicy(inputs)
           b == policy.combined
           n == policy.host
           R == [root[Backend] EXCEPT !.budget = b]
           S == [state[Backend] EXCEPT !.budget = b]
<1>1. /\ phase = "observed" /\ policy.ok
      /\ CheckBudgetChange(b, state[Backend]) /\ CheckBudgetChange(b, Shared(Backend))
      /\ root' = [root EXCEPT ![Backend].budget = b, ![Host] = NewRoot(n)]
      /\ state' = [state EXCEPT ![Backend].budget = b, ![Host] = NewTracker(n)]
      /\ shared' = [shared EXCEPT ![Host] = Host] /\ owner' = [t \in Tracker |-> TRUE]
      /\ handle' = handle
  BY DEF Install
<1>2. b \in Nat /\ n \in Nat
  BY <1>1, PolicyServes DEF Serves, MemoryInv, PhaseInv
<1>3. MemoryTypes /\ Backend \in Tracker /\ Host \in Tracker /\ Backend # Host
      /\ Tracker = {Backend, Host}
  BY PolicyAssumption DEF MemoryInv, TrackerInv
<1>4. shared[Backend] = Backend /\ shared[Host] = NoRoot
  BY <1>1 DEF MemoryInv, PhaseInv
<1> HIDE DEF policy, b, n
<1>5. \A h \in Handle : handle[h] # NoHandle => handle[h].tracker = Backend
  BY <1>1, BackendHasAll
<1>6. /\ root'[Host] = NewRoot(n) /\ root'[Backend] = R
      /\ state'[Host] = NewTracker(n) /\ state'[Backend] = S
      /\ shared'[Host] = Host /\ shared'[Backend] = Backend
      /\ owner'[Host] /\ owner'[Backend]
  BY <1>1, <1>3, <1>4 DEF MemoryTypes
<1>7. /\ R \in RootAccounts /\ R.budget = b /\ R.total = root[Backend].total
      /\ R.reserved_bytes = root[Backend].reserved_bytes
      /\ R.reserved_allocations = root[Backend].reserved_allocations
  <2>1. root[Backend] \in RootAccounts
    BY <1>3 DEF MemoryTypes
  <2> QED
    BY <1>2, <2>1 DEF RootAccounts
<1>8. /\ S \in TrackerAccounts /\ S.budget = b /\ S.total = state[Backend].total
      /\ S.classes = state[Backend].classes
      /\ S.reserved_classes = state[Backend].reserved_classes
      /\ S.reserved_bytes = state[Backend].reserved_bytes
      /\ S.reserved_allocations = state[Backend].reserved_allocations
  <2>1. state[Backend] \in TrackerAccounts
    BY <1>3 DEF MemoryTypes
  <2> QED
    BY <1>2, <2>1 DEF TrackerAccounts
<1>9. MemoryTypes'
  <2>1. NewRoot(n) \in RootAccounts /\ NewTracker(n) \in TrackerAccounts
    BY <1>2, NewAccounts
  <2>2. /\ root' = [root EXCEPT ![Backend] = R, ![Host] = NewRoot(n)]
        /\ state' = [state EXCEPT ![Backend] = S, ![Host] = NewTracker(n)]
    BY <1>1
  <2> HIDE DEF R, S
  <2>3. root' \in [Tracker -> RootAccounts] /\ state' \in [Tracker -> TrackerAccounts]
    BY <1>3, <1>7, <1>8, <2>1, <2>2 DEF MemoryTypes
  <2>4. /\ shared' \in [Tracker -> Tracker \cup {NoRoot}] /\ owner' \in [Tracker -> BOOLEAN]
        /\ handle' \in [Handle -> HandleRecords]
    BY <1>1, <1>3 DEF MemoryTypes
  <2> QED
    BY <2>3, <2>4 DEF MemoryTypes
<1> HIDE DEF R, S
<1>10. AccountInv(Host)'
  <2>1. {u \in Tracker : shared'[u] = Host} = {Host}
    BY <1>3, <1>6
  <2>2. /\ Booked(handle, NewRoot(n), {Host}) /\ Booked(handle, NewTracker(n), {Host})
        /\ \A c \in Class : ClassBooked(handle, NewTracker(n), Host, c)
    <3>1. \A h \in Handle : handle[h] # NoHandle =>
            handle[h].tracker \notin {Host} /\ handle[h].tracker # Host
      BY <1>3, <1>5
    <3>2. handle \in [Handle -> HandleRecords]
      BY <1>3 DEF MemoryTypes
    <3> QED
      BY <1>2, <3>1, <3>2, NewBooks
  <2> QED
    BY <1>1, <1>6, <2>1, <2>2 DEF AccountInv
<1>11. AccountInv(Backend)'
  <2>1. /\ {u \in Tracker : shared'[u] = Backend} = {Backend}
        /\ {u \in Tracker : shared[u] = Backend} = {Backend}
    BY <1>3, <1>4, <1>6, TrackerAssumption
  <2>2. /\ Booked(handle, root[Backend], {Backend}) /\ Booked(handle, state[Backend], {Backend})
        /\ \A c \in Class : ClassBooked(handle, state[Backend], Backend, c)
    BY <1>3, <2>1 DEF MemoryInv, TrackerInv, AccountInv
  <2>3. Booked(handle, R, {Backend}) /\ Booked(handle, S, {Backend})
    BY <1>7, <1>8, <2>2 DEF Booked
  <2>4. \A c \in Class : ClassBooked(handle, S, Backend, c)
    BY <1>8, <2>2 DEF ClassBooked
  <2> QED
    BY <1>1, <1>6, <2>1, <2>3, <2>4 DEF AccountInv
<1>12. RoomInv(Host)' /\ RoomInv(Backend)'
  <2>1. RoomInv(Backend)
    BY <1>3 DEF MemoryInv, TrackerInv
  <2>2. Room(R) /\ TrackerRoom(S)
    BY <1>7, <1>8, <2>1 DEF RoomInv, Room, TrackerRoom
  <2> QED
    BY <1>2, <1>6, <2>2, NewAccounts DEF RoomInv
<1>13. IdentityInv'
  <2>1. Those("owned")' = Those("owned")
    BY <1>1 DEF Those
  <2>2. \A h \in Those("owned") : handle[h].tracker = Backend
    BY <1>5 DEF Those, NoHandle
  <2>3. state'[Backend].total = state[Backend].total
    BY <1>6, <1>8
  <2> QED
    BY <1>1, <2>1, <2>2, <2>3 DEF MemoryInv, TrackerInv, IdentityInv
<1>14. ChargeInv'
  BY <1>1, <1>3, <1>5, <1>6, TrackerAssumption DEF ChargeInv
<1>15. BudgetInv'
  <2>1. /\ WithinBudget(b, S.total.live_bytes + S.reserved_bytes)
        /\ WithinBudget(b, R.total.live_bytes + R.reserved_bytes)
    BY <1>1, <1>4, <1>7, <1>8 DEF CheckBudgetChange, Shared
  <2>2. WithinBudget(n, 0)
    BY <1>2 DEF WithinBudget
  <2>3. /\ Shared(Host)' = NewRoot(n) /\ Budget(Host)' = n
        /\ Shared(Backend)' = R /\ Budget(Backend)' = b
    BY <1>2, <1>6, <1>7, NewAccounts DEF Shared, Budget
  <2>4. /\ WithinBudget(Budget(Host)', state'[Host].total.live_bytes + state'[Host].reserved_bytes)
        /\ WithinBudget(Shared(Host)'.budget,
             Shared(Host)'.total.live_bytes + Shared(Host)'.reserved_bytes)
    BY <1>2, <1>6, <2>2, <2>3, NewAccounts
  <2>5. /\ WithinBudget(Budget(Backend)',
             state'[Backend].total.live_bytes + state'[Backend].reserved_bytes)
        /\ WithinBudget(Shared(Backend)'.budget,
             Shared(Backend)'.total.live_bytes + Shared(Backend)'.reserved_bytes)
    BY <1>6, <1>7, <2>1, <2>3
  <2> QED
    BY <1>3, <2>4, <2>5 DEF BudgetInv
<1> QED
  BY <1>3, <1>9, <1>10, <1>11, <1>12, <1>13, <1>14, <1>15 DEF TrackerInv

\* Nothing changes the trackers but their operations and the installation.
LEMMA UnchangedInv ==
  ASSUME TrackerInv, UNCHANGED tracker_vars
  PROVE  TrackerInv'
BY DEF tracker_vars, TrackerInv, MemoryTypes, AccountInv, RoomInv, IdentityInv, ChargeInv,
       BudgetInv, Budget, Shared, Those

\* What is observed is an input the policy is made for.
LEMMA ObserveInputs ==
  ASSUME MemoryInv, NEW device \in Devices, NEW host \in Capacities,
         NEW memory \in Requests, NEW host_request \in Requests,
         Observe(device, host, memory, host_request)
  PROVE  inputs' \in ObservedInputs /\ inputs'.owned = state[Backend].total.live_bytes
<1>1. /\ device.topology \in {"discrete", "unified", "cpu"}
      /\ device.backend \in Capacities /\ device.workingSet \in Totals \cup {None}
  BY DEF Devices, Capacities
<1>2. state[Backend].total.live_bytes \in Nat
  BY PolicyAssumption, AccountFields DEF MemoryInv, TrackerInv
<1> QED
  BY <1>1, <1>2 DEF Observe, ObservedInputs

\* Every step preserves the invariant.
LEMMA NextInv ==
  MemoryInv /\ [Next]_vars => MemoryInv'
<1> SUFFICES ASSUME MemoryInv, [Next]_vars PROVE MemoryInv'
  OBVIOUS
<1>1. TrackerInv /\ PhaseInv
  BY DEF MemoryInv
<1>2. CASE Memory
  <2>1. AllocationStep \/ BudgetStep
    BY <1>2 DEF Memory
  <2>2. TrackerInv' /\ UNCHANGED <<shared, owner>>
    BY <1>1, <2>1, AllocationPreserves, BudgetPreserves
  <2>3. phase \in {"built", "serving"} /\ UNCHANGED <<phase, inputs>>
    BY <1>2 DEF Memory
  <2>4. PhaseInv'
    BY <1>1, <2>2, <2>3 DEF PhaseInv
  <2> QED
    BY <2>2, <2>4 DEF MemoryInv
<1>3. ASSUME NEW device \in Devices, NEW host \in Capacities,
             NEW memory \in Requests, NEW host_request \in Requests,
             Observe(device, host, memory, host_request)
      PROVE  MemoryInv'
  <2>1. UNCHANGED tracker_vars /\ phase = "built" /\ phase' = "observed"
        /\ Those("reserved") = {}
    BY <1>3 DEF Observe
  <2>2. TrackerInv'
    BY <1>1, <2>1, UnchangedInv
  <2>3. inputs' \in ObservedInputs /\ inputs'.owned = state[Backend].total.live_bytes
    BY <1>3, ObserveInputs
  <2>4. PhaseInv'
    BY <1>1, <2>1, <2>3 DEF PhaseInv, tracker_vars, Those
  <2> QED
    BY <2>2, <2>4 DEF MemoryInv
<1>4. CASE Install
  <2>1. TrackerInv'
    BY <1>4, InstallShared, InstallDiscrete
  <2>2. phase' = "serving"
    BY <1>4 DEF Install
  <2>3. PhaseInv'
    BY <2>2 DEF PhaseInv
  <2> QED
    BY <2>1, <2>3 DEF MemoryInv
<1>5. CASE Refuse
  <2>1. UNCHANGED tracker_vars /\ phase' = "refused"
    BY <1>5 DEF Refuse
  <2>2. TrackerInv'
    BY <1>1, <2>1, UnchangedInv
  <2>3. PhaseInv'
    BY <2>1 DEF PhaseInv
  <2> QED
    BY <2>2, <2>3 DEF MemoryInv
<1>6. CASE UNCHANGED vars
  <2>1. UNCHANGED tracker_vars /\ UNCHANGED <<phase, inputs>>
    BY <1>6 DEF vars
  <2>2. TrackerInv'
    BY <1>1, <2>1, UnchangedInv
  <2>3. PhaseInv'
    BY <1>1, <2>1 DEF PhaseInv, tracker_vars, Those
  <2> QED
    BY <2>2, <2>3 DEF MemoryInv
<1> QED
  BY <1>2, <1>3, <1>4, <1>5, <1>6 DEF Next

-----------------------------------------------------------------------------
(* What the invariant says *)

\* An account that adds up stands for the handles of its trackers.
LEMMA BookedStands ==
  ASSUME MemoryTypes, NEW s, NEW T, Booked(handle, s, T), Room(s),
         s.total \in Counters, s.reserved_bytes \in Nat,
         s.reserved_allocations \in Nat
  PROVE  Stands(s, T)
<1>1. \A h \in Handle : handle[h].kind \in Kinds => handle[h].class \in Class
  BY DEF MemoryTypes, HandleRecords, NoHandle, Kinds
<1> DEFINE owned == {h \in Those("owned") : handle[h].tracker \in T}
           reserved == {h \in Those("reserved") : handle[h].tracker \in T}
<1>2. /\ owned = {h \in Those("owned") : handle[h].tracker \in T /\ handle[h].class \in Class}
      /\ reserved = {h \in Those("reserved") : handle[h].tracker \in T
                                               /\ handle[h].class \in Class}
  BY <1>1 DEF Those, Kinds
<1>3. "owned" \in Kinds /\ "reserved" \in Kinds
  BY DEF Kinds
<1> HIDE DEF owned, reserved
<1>4. /\ SumBytes(owned) = BytesIn(handle, "owned", T, Class)
      /\ Cardinality(owned) = CountIn(handle, "owned", T, Class)
  BY <1>2, <1>3, SumsAgree
<1>5. /\ SumBytes(reserved) = BytesIn(handle, "reserved", T, Class)
      /\ Cardinality(reserved) = CountIn(handle, "reserved", T, Class)
  BY <1>2, <1>3, SumsAgree
<1>6. /\ FitsWidth(s.total) /\ s.reserved_allocations <= MaxCount
      /\ s.total.live_bytes + s.reserved_bytes <= MaxBytes
      /\ s.total.allocations = s.total.live + s.total.frees
  <2>1. /\ s.total.live_bytes \in Nat /\ s.total.live \in Nat
        /\ s.total.allocations \in Nat /\ s.total.frees \in Nat
    BY DEF Counters
  <2> QED
    BY <2>1, TrackerAssumption DEF Room, FitsWidth
<1> QED
  BY <1>4, <1>5, <1>6 DEF Booked, Stands, Counts, owned, reserved

\* A class counts no more than its tracker, so its counters fit as well.
LEMMA ClassStands ==
  ASSUME MemoryInv, NEW t \in Tracker, NEW c \in Class
  PROVE  LET Of(kind) == {h \in Those(kind) : handle[h].tracker = t
                                              /\ handle[h].class = c}
         IN /\ Counts(state[t].classes[c], Of("owned"))
            /\ state[t].reserved_classes[c] = Cardinality(Of("reserved"))
            /\ state[t].reserved_classes[c] <= MaxCount
<1> DEFINE Of(kind) == {h \in Those(kind) : handle[h].tracker = t
                                            /\ handle[h].class = c}
           k == state[t].classes[c]
           total == state[t].total
<1>1. MemoryTypes /\ AccountInv(t) /\ RoomInv(t)
  BY DEF MemoryInv, TrackerInv
<1>2. \A kind \in Kinds :
        /\ SumBytes(Of(kind)) = BytesIn(handle, kind, {t}, {c})
        /\ Cardinality(Of(kind)) = CountIn(handle, kind, {t}, {c})
  <2> TAKE kind \in Kinds
  <2>1. Of(kind) = {h \in Those(kind) : handle[h].tracker \in {t}
                                        /\ handle[h].class \in {c}}
    OBVIOUS
  <2> HIDE DEF Of
  <2> QED
    BY <1>1, <2>1, SumsAgree
<1>3. \A kind \in Kinds :
        /\ BytesIn(handle, kind, {t}, {c}) <= BytesIn(handle, kind, {t}, Class)
        /\ CountIn(handle, kind, {t}, {c}) <= CountIn(handle, kind, {t}, Class)
  BY <1>1, ClassWithinTracker DEF MemoryTypes
<1>4. /\ k.live_bytes = BytesIn(handle, "owned", {t}, {c})
      /\ k.live = CountIn(handle, "owned", {t}, {c})
      /\ state[t].reserved_classes[c] = CountIn(handle, "reserved", {t}, {c})
      /\ total.live_bytes = BytesIn(handle, "owned", {t}, Class)
      /\ total.live = CountIn(handle, "owned", {t}, Class)
      /\ state[t].reserved_allocations = CountIn(handle, "reserved", {t}, Class)
  BY <1>1 DEF AccountInv, ClassBooked, Booked
<1>5. /\ k.allocations = k.live + k.frees /\ k.frees <= total.frees
      /\ total.allocations = total.live + total.frees
      /\ total.live_bytes + state[t].reserved_bytes <= MaxBytes
      /\ total.allocations + state[t].reserved_allocations <= MaxCount
  BY <1>1 DEF RoomInv, TrackerRoom, Room
<1>6. /\ k \in Counters /\ total \in Counters /\ state[t].reserved_bytes \in Nat
      /\ state[t].reserved_allocations \in Nat
      /\ state[t].reserved_classes[c] \in Nat
  BY <1>1, AccountFields
<1> HIDE DEF Of, k, total
<1>7. /\ k.live_bytes \in Nat /\ k.live \in Nat /\ k.allocations \in Nat
      /\ k.frees \in Nat /\ total.live_bytes \in Nat /\ total.live \in Nat
      /\ total.allocations \in Nat /\ total.frees \in Nat
  BY <1>6 DEF Counters
<1>8. /\ k.live_bytes <= total.live_bytes /\ k.live <= total.live
      /\ state[t].reserved_classes[c] <= state[t].reserved_allocations
  BY <1>3, <1>4 DEF Kinds
<1>9. FitsWidth(k) /\ state[t].reserved_classes[c] <= MaxCount
  BY <1>5, <1>6, <1>7, <1>8, TrackerAssumption DEF FitsWidth
<1>10. /\ Counts(k, Of("owned"))
       /\ state[t].reserved_classes[c] = Cardinality(Of("reserved"))
  BY <1>2, <1>4, <1>5, <1>6, <1>9 DEF Counts, Kinds
<1> QED
  BY <1>9, <1>10 DEF Of, k

\* The invariant makes the accounts balance.
LEMMA InvBalances ==
  MemoryInv => AccountsBalance
<1> SUFFICES ASSUME MemoryInv PROVE AccountsBalance
  OBVIOUS
<1>1. MemoryTypes /\ TrackerInv
  BY DEF MemoryInv, TrackerInv
<1>2. ASSUME NEW t \in Tracker
      PROVE  /\ Stands(root[t], {u \in Tracker : shared[u] = t})
             /\ Stands(state[t], {t})
  <2>1. /\ Booked(handle, root[t], {u \in Tracker : shared[u] = t})
        /\ Booked(handle, state[t], {t}) /\ Room(root[t]) /\ Room(state[t])
    BY <1>1 DEF TrackerInv, AccountInv, RoomInv, TrackerRoom
  <2>2. /\ root[t].total \in Counters /\ root[t].reserved_allocations \in Nat
        /\ state[t].total \in Counters /\ state[t].reserved_allocations \in Nat
        /\ root[t].reserved_bytes \in Nat /\ state[t].reserved_bytes \in Nat
    BY <1>1, AccountFields
  <2> QED
    BY <1>1, <2>1, <2>2, BookedStands
<1>3. \A h, k \in Those("owned") :
        /\ handle[h].tracker = handle[k].tracker
        /\ handle[h].identity = handle[k].identity
        => h = k
  BY <1>1 DEF TrackerInv, IdentityInv
<1> QED
  BY <1>2, <1>3, ClassStands DEF AccountsBalance

\* The invariant makes an observed policy fit.
LEMMA InvFits ==
  MemoryInv => PolicyFits
<1> SUFFICES ASSUME MemoryInv, phase = "observed", ResolvePolicy(inputs).ok
             PROVE  LET policy == ResolvePolicy(inputs)
                        pool == IF policy.shared THEN inputs.host ELSE inputs.backend
                    IN /\ policy.host > 0 /\ policy.combined > 0
                       /\ CheckBudgetChange(policy.combined, state[Backend])
                       /\ Within(policy.host, inputs.host, 0)
                       /\ Within(policy.combined, pool, inputs.owned)
                       /\ policy.shared => policy.host <= policy.combined
  BY DEF PolicyFits
<1> DEFINE policy == ResolvePolicy(inputs)
           pool == IF policy.shared THEN inputs.host ELSE inputs.backend
           s == state[Backend]
<1>1. /\ inputs \in ObservedInputs /\ inputs.owned = s.total.live_bytes
      /\ Those("reserved") = {} /\ Backend \in Tracker /\ MemoryTypes
  BY PolicyAssumption DEF MemoryInv, PhaseInv, TrackerInv
<1>2. /\ Serves(policy.combined, pool, inputs.owned) /\ Serves(policy.host, inputs.host, 0)
      /\ policy.shared => policy.host <= policy.combined
  BY <1>1, PolicyServes
<1>3. s.reserved_bytes = 0
  <2>1. \A h \in Handle : ~Counted(handle[h], "reserved", {Backend}, Class)
    BY <1>1 DEF Those, Counted
  <2>2. BytesIn(handle, "reserved", {Backend}, Class) = 0
    BY <1>1, <2>1, NothingCounted DEF MemoryTypes, Kinds
  <2> QED
    BY <1>1, <2>2 DEF MemoryInv, TrackerInv, AccountInv, Booked
<1>4. /\ s.total.live_bytes \in Nat
      /\ s.total.live_bytes + s.reserved_bytes <= MaxBytes
  BY <1>1, AccountFields DEF MemoryInv, TrackerInv, RoomInv, TrackerRoom, Room
<1> HIDE DEF policy, pool, s
<1>5. CheckBudgetChange(policy.combined, s)
  BY <1>1, <1>2, <1>3, <1>4 DEF CheckBudgetChange, WithinBudget, Serves
<1>6. policy.host > 0 /\ policy.combined > 0
  BY <1>2 DEF Serves
<1> QED
  BY <1>2, <1>5, <1>6 DEF Serves, policy, pool, s

\* The invariant holds.
LEMMA MemoryInvariant ==
  Spec => []MemoryInv
<1> QED
  BY InitInv, NextInv, PTL DEF Spec

\* Whatever is reserved, committed, duplicated, reclassified and dropped, and
\* whenever the policy is installed, roots, trackers and classes account for
\* the handles that exist: no subtraction of record_free, move_live or a
\* release of a reservation goes below zero, and no counter passes its width,
\* those of the classes included, which move_live raises unchecked.
THEOREM AccountsAlwaysBalance ==
  Spec => []AccountsBalance
<1> QED
  BY MemoryInvariant, InvBalances, PTL

\* MemoryReservation::commit of a live reservation never fails, and what is
\* owned and reserved stays within the budgets of tracker and root, through
\* every later change of a budget.
THEOREM ReservationsAlwaysCommit ==
  Spec => []ReservationsCommit
<1>1. MemoryInv => ReservationsCommit
  <2>1. ASSUME MemoryInv PROVE \A h \in Those("reserved") : Committable(handle[h])
    BY <2>1, ReservedIsCommittable DEF MemoryInv, Those
  <2>2. ASSUME MemoryInv
        PROVE  \A t \in Tracker : shared[t] # NoRoot =>
                 /\ WithinBudget(Budget(t), state[t].total.live_bytes + state[t].reserved_bytes)
                 /\ WithinBudget(Shared(t).budget,
                                 Shared(t).total.live_bytes + Shared(t).reserved_bytes)
    BY <2>2 DEF MemoryInv, TrackerInv, BudgetInv
  <2> QED
    BY <2>1, <2>2 DEF ReservationsCommit
<1> QED
  BY <1>1, MemoryInvariant, PTL

\* A policy that resolve_policy returns covers what the backend owns, so that
\* installing it cannot fail on a budget, and promises no more than the pools
\* were observed to hold.
THEOREM PolicyAlwaysFits ==
  Spec => []PolicyFits
<1> QED
  BY MemoryInvariant, InvFits, PTL

=============================================================================

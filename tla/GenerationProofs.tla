--------------------------- MODULE GenerationProofs ---------------------------
(***************************************************************************)
(* Proofs about KvState and GenerationSessions: every operation of the     *)
(* cache keeps it well-formed, a failed one changes nothing, whatever the  *)
(* list of segments and the operands; hence the sessions of a runtime stay *)
(* well-formed and a failed preparation is a session unchanged.  At the    *)
(* end, that no decode graph is replayed over spans that have changed.     *)
(***************************************************************************)
EXTENDS GenerationSessions, FiniteSetTheorems, SequenceTheorems,
        WellFoundedInduction, TLAPS

-------------------------------------------------------------------------------
(* Numbers. *)

\* A set of natural numbers has a least element. This takes the place of
\* induction in what follows.
LEMMA LeastNat ==
  ASSUME NEW S, S \subseteq Nat, S # {}
  PROVE  \E m \in S : \A k \in S : m <= k
<1> DEFINE R == OpToRel(<, Nat)
<1>1. IsWellFoundedOn(R, Nat)
  BY NatLessThanWellFounded, Zenon
<1>2. \A x, y \in Nat : y < x => <<y, x>> \in R
  BY Zenon DEF OpToRel
<1> HIDE DEF R
<1>3. PICK x \in S : \A y \in S : ~(<<y, x>> \in R)
  BY <1>1, WFMin, Zenon
<1>4. \A y \in S : ~(y < x)
  BY <1>2, <1>3
<1> QED
  BY <1>4

\* A bounded one has a greatest.
LEMMA GreatestNat ==
  ASSUME NEW n \in Nat, NEW S, S \subseteq 0..n, S # {}
  PROVE  \E m \in S : \A k \in S : k <= m
<1> DEFINE T == {n - k : k \in S}
<1>1. \A k \in S : n - k \in Nat
  OBVIOUS
<1>2. T \subseteq Nat /\ T # {}
  BY <1>1
<1> HIDE DEF T
<1>3. PICK t \in T : \A u \in T : t <= u
  BY <1>2, LeastNat
<1>4. PICK m \in S : t = n - m
  BY <1>3 DEF T
<1>5. ASSUME NEW k \in S
      PROVE  k <= m
  <2>1. n - k \in T
    BY DEF T
  <2>2. n - m <= n - k
    BY <1>3, <1>4, <2>1
  <2> QED
    BY <1>4, <2>2
<1> QED
  BY <1>5

-------------------------------------------------------------------------------
(* Types of the cache. *)

Seg == [start : Nat, committed : Nat, storage : Nat, cap : Nat]
TargetType == [start : Nat, tokens : Nat, index : Nat]
TokenType == [layout : Int, generation : Int]
KvType == [segs : Seq(Seg), pos : Nat, ctx : Nat, rev : Nat,
           graph : TokenType, pending : TargetType]

(* The storages of a cache are among X. *)
Within(kv, X) == \A i \in 1..Len(kv.segs) : kv.segs[i].storage \in X

KvOK(kv, X) ==
    /\ kv \in KvType /\ WellFormed(kv)
    /\ kv.rev <= MaxRevision /\ Within(kv, X)
    /\ kv.pending # NoRange => kv.pending.tokens >= 1

(* A transaction under way. *)
RollbackType == [pos : Nat, ctx : Nat, rev : Nat, graph : TokenType,
                 pending : TargetType, len : Nat, committed : Seq(Nat),
                 removed : Seq(Seg)]
StageType == [kv : KvType, rb : RollbackType]

(* The segments o are those of s, which may hold fewer positions, and then *)
(* those of r in reverse.                                                  *)
Undoes(o, s, r) ==
    /\ Len(s) + Len(r) = Len(o)
    /\ \A i \in 1..Len(s) : /\ s[i].start = o[i].start
                           /\ s[i].storage = o[i].storage
                           /\ s[i].cap = o[i].cap
    /\ \A i \in 1..Len(r) : r[i] = o[Len(o) + 1 - i]

(* The stage st of a transaction on kv can be undone: its rollback holds   *)
(* what kv was.                                                            *)
Recovers(kv, st) ==
    /\ st \in StageType
    /\ st.rb.pos = kv.pos /\ st.rb.ctx = kv.ctx /\ st.rb.rev = kv.rev
    /\ st.rb.graph = kv.graph /\ st.rb.pending = kv.pending
    /\ st.rb.len = Len(kv.segs)
    /\ st.rb.committed = [i \in 1..Len(kv.segs) |-> kv.segs[i].committed]
    /\ Undoes(kv.segs, st.kv.segs, st.rb.removed)

\* The parts of a cache have the types of its fields.
LEMMA KvFields ==
  ASSUME NEW kv \in KvType
  PROVE  /\ kv.segs \in Seq(Seg) /\ Len(kv.segs) \in Nat
         /\ kv.pos \in Nat /\ kv.ctx \in Nat /\ kv.rev \in Nat
         /\ kv.graph \in TokenType /\ kv.pending \in TargetType
         /\ \A i \in 1..Len(kv.segs) :
              /\ kv.segs[i] \in Seg
              /\ kv.segs[i].start \in Nat /\ kv.segs[i].committed \in Nat
              /\ kv.segs[i].storage \in Nat /\ kv.segs[i].cap \in Nat
         /\ kv.pending.start \in Nat /\ kv.pending.tokens \in Nat
         /\ kv.pending.index \in Nat
<1>1. /\ kv.segs \in Seq(Seg)
      /\ kv.pos \in Nat /\ kv.ctx \in Nat /\ kv.rev \in Nat
      /\ kv.graph \in TokenType /\ kv.pending \in TargetType
  BY DEF KvType
<1>2. Len(kv.segs) \in Nat
  BY <1>1
<1>3. \A i \in 1..Len(kv.segs) : kv.segs[i] \in Seg
  BY <1>1, ElementOfSeq
<1>4. kv.pending.start \in Nat /\ kv.pending.tokens \in Nat /\ kv.pending.index \in Nat
  BY <1>1 DEF TargetType
<1> QED
  BY <1>1, <1>2, <1>3, <1>4 DEF Seg

\* A sequence with its elements reversed.
LEMMA ReversedFacts ==
  ASSUME NEW s \in Seq(Seg)
  PROVE  /\ Reversed(s) \in Seq(Seg) /\ Len(Reversed(s)) = Len(s)
         /\ \A i \in 1..Len(s) : Reversed(s)[i] = s[Len(s) + 1 - i]
<1>1. Len(s) \in Nat
  OBVIOUS
<1>2. \A i \in 1..Len(s) : s[Len(s) + 1 - i] \in Seg
  BY <1>1, ElementOfSeq
<1> QED
  BY <1>1, <1>2 DEF Reversed

\* What the first part and the rest of a sequence are together.
LEMMA Rejoined ==
  ASSUME NEW s \in Seq(Seg), NEW left \in Seq(Seg), NEW back \in Seq(Seg),
         Len(left) + Len(back) = Len(s),
         \A i \in 1..Len(left) : left[i] = s[i],
         \A i \in 1..Len(back) : back[i] = s[Len(left) + i]
  PROVE  left \o back = s
<1>1. /\ left \o back \in Seq(Seg) /\ Len(left \o back) = Len(s)
      /\ \A i \in 1..Len(s) : (left \o back)[i] =
           IF i <= Len(left) THEN left[i] ELSE back[i - Len(left)]
  BY ConcatProperties
<1>2. Len(left) \in Nat /\ Len(back) \in Nat
  BY LenProperties
<1>3. ASSUME NEW i \in 1..Len(s)
      PROVE  (left \o back)[i] = s[i]
  <2>1. CASE i <= Len(left)
    BY <1>1, <1>2, <2>1
  <2>2. CASE ~(i <= Len(left))
    <3>1. i - Len(left) \in 1..Len(back) /\ Len(left) + (i - Len(left)) = i
      BY <1>2, <2>2
    <3> QED
      BY <1>1, <2>2, <3>1
  <2> QED
    BY <2>1, <2>2
<1> QED
  BY <1>1, <1>3, SeqEqual

(* Counting from the front and from the back. *)
Splits(a, b, c) ==
    /\ \A i \in 1..a : i \in 1..c
    /\ Least(Most(0, c - b), a) = a
    /\ \A i \in 1..b : /\ b + 1 - i \in 1..b
                       /\ c + 1 - (b + 1 - i) = a + i
                       /\ a + i \in 1..c

\* The indices of a list of a + b elements.
LEMMA Counting ==
  ASSUME NEW a \in Nat, NEW b \in Nat, NEW c \in Nat, a + b = c
  PROVE  Splits(a, b, c)
BY DEF Splits, Least, Most

\* The numbers of segments that Recovers relates.
LEMMA RecoversCounts ==
  ASSUME NEW kv \in KvType, NEW st, Recovers(kv, st)
  PROVE  /\ st.kv.segs \in Seq(Seg) /\ st.rb.removed \in Seq(Seg)
         /\ Len(st.kv.segs) \in Nat /\ Len(st.rb.removed) \in Nat
         /\ Len(kv.segs) \in Nat
         /\ Len(st.kv.segs) + Len(st.rb.removed) = Len(kv.segs)
         /\ st.rb.len = Len(kv.segs)
         /\ \A i \in 1..Len(st.kv.segs) : i \in 1..Len(kv.segs)
<1>1. /\ Len(st.kv.segs) + Len(st.rb.removed) = Len(kv.segs)
      /\ st.rb.len = Len(kv.segs) /\ st \in StageType
  BY DEF Recovers, Undoes
<1>2. st.kv.segs \in Seq(Seg) /\ st.rb.removed \in Seq(Seg)
  BY <1>1 DEF StageType, KvType, RollbackType
<1>3. Len(st.kv.segs) \in Nat /\ Len(st.rb.removed) \in Nat /\ Len(kv.segs) \in Nat
  BY <1>2, KvFields, LenProperties
<1>4. Splits(Len(st.kv.segs), Len(st.rb.removed), Len(kv.segs))
  BY <1>1, <1>3, Counting, Zenon
<1> QED
  BY <1>1, <1>2, <1>3, <1>4, Zenon DEF Splits

\* Undoing a stage that recovers kv gives kv back, segment by segment.
LEMMA RestoreExact ==
  ASSUME NEW kv \in KvType, NEW st, Recovers(kv, st)
  PROVE  RestoreAppendPosition(st.kv, st.rb) = kv
<1> DEFINE survivors == Least(Most(0, st.rb.len - Len(st.rb.removed)), Len(st.kv.segs))
           left == [i \in 1..survivors |->
                      [st.kv.segs[i] EXCEPT !.committed = st.rb.committed[i]]]
           back == Reversed(st.rb.removed)
<1>1. kv.segs \in Seq(Seg) /\ \A i \in 1..Len(kv.segs) : kv.segs[i] \in Seg
  BY KvFields
<1>2. PICK k \in Nat, r \in Nat, n \in Nat :
        /\ k = Len(st.kv.segs) /\ r = Len(st.rb.removed) /\ n = Len(kv.segs)
        /\ k + r = n /\ st.rb.len = n
  BY RecoversCounts, Zenon
<1>10. Splits(k, r, n)
  BY <1>2, Counting, Zenon
<1>3. survivors = k
  BY <1>2, <1>10, Zenon DEF Splits
<1>4. ASSUME NEW i \in 1..k
      PROVE  [st.kv.segs[i] EXCEPT !.committed = st.rb.committed[i]] = kv.segs[i]
  <2>1. i \in 1..Len(kv.segs) /\ i \in 1..Len(st.kv.segs)
    BY <1>2, <1>10, Zenon DEF Splits
  <2>2. st.kv.segs[i] \in Seg /\ kv.segs[i] \in Seg
    BY <1>1, <2>1, RecoversCounts, ElementOfSeq
  <2>3. st.rb.committed[i] = kv.segs[i].committed
    BY <2>1 DEF Recovers
  <2>4. /\ st.kv.segs[i].start = kv.segs[i].start
        /\ st.kv.segs[i].storage = kv.segs[i].storage
        /\ st.kv.segs[i].cap = kv.segs[i].cap
    BY <2>1 DEF Recovers, Undoes
  <2> QED
    BY <2>2, <2>3, <2>4 DEF Seg
<1>5. left \in Seq(Seg) /\ Len(left) = k /\ \A i \in 1..k : left[i] = kv.segs[i]
  <2>1. left = [i \in 1..k |-> kv.segs[i]]
    BY <1>3, <1>4
  <2>2. \A i \in 1..k : kv.segs[i] \in Seg
    BY <1>1, <1>2, <1>10, Zenon DEF Splits
  <2> HIDE DEF left
  <2> QED
    BY <2>1, <2>2
<1>6. /\ back \in Seq(Seg) /\ Len(back) = r
      /\ \A i \in 1..r : back[i] = kv.segs[k + i]
  <2>1. /\ back \in Seq(Seg) /\ Len(back) = r
        /\ \A i \in 1..r : back[i] = st.rb.removed[r + 1 - i]
    BY <1>2, RecoversCounts, ReversedFacts
  <2>2. ASSUME NEW i \in 1..r
        PROVE  st.rb.removed[r + 1 - i] = kv.segs[k + i]
    <3>1. r + 1 - i \in 1..r /\ n + 1 - (r + 1 - i) = k + i
      BY <1>10, Zenon DEF Splits
    <3>2. st.rb.removed[r + 1 - i] = kv.segs[n + 1 - (r + 1 - i)]
      BY <1>2, <3>1 DEF Recovers, Undoes
    <3> QED
      BY <3>1, <3>2
  <2> QED
    BY <2>1, <2>2
<1>7. RestoreAppendPosition(st.kv, st.rb) =
        [segs |-> left \o back, pos |-> st.rb.pos, ctx |-> st.rb.ctx,
         rev |-> st.rb.rev, graph |-> st.rb.graph, pending |-> st.rb.pending]
  BY DEF RestoreAppendPosition
<1> HIDE DEF left, back
<1>8. left \o back = kv.segs
  <2>1. /\ Len(left) + Len(back) = Len(kv.segs)
        /\ \A i \in 1..Len(left) : left[i] = kv.segs[i]
        /\ \A i \in 1..Len(back) : back[i] = kv.segs[Len(left) + i]
    BY <1>2, <1>5, <1>6, Zenon
  <2> QED
    BY <1>1, <1>5, <1>6, <2>1, Rejoined, Zenon
<1>9. /\ st.rb.pos = kv.pos /\ st.rb.ctx = kv.ctx /\ st.rb.rev = kv.rev
      /\ st.rb.graph = kv.graph /\ st.rb.pending = kv.pending
  BY DEF Recovers
<1> QED
  BY <1>7, <1>8, <1>9 DEF KvType

\* A transaction that has begun can be undone.
LEMMA BegunRecovers ==
  ASSUME NEW kv \in KvType
  PROVE  /\ Recovers(kv, Begun(kv))
         /\ Begun(kv).kv = kv /\ Begun(kv).rb = Capture(kv)
         /\ Capture(kv) \in RollbackType /\ Capture(kv).removed = <<>>
<1>1. /\ kv.segs \in Seq(Seg) /\ Len(kv.segs) \in Nat
      /\ \A i \in 1..Len(kv.segs) : kv.segs[i].committed \in Nat
  BY KvFields
<1>2. Begun(kv).kv = kv /\ Begun(kv).rb = Capture(kv)
  BY DEF Begun
<1>3. /\ Capture(kv).removed = <<>> /\ Len(<<>>) = 0 /\ <<>> \in Seq(Seg)
      /\ Capture(kv).pos = kv.pos /\ Capture(kv).ctx = kv.ctx
      /\ Capture(kv).rev = kv.rev /\ Capture(kv).graph = kv.graph
      /\ Capture(kv).pending = kv.pending /\ Capture(kv).len = Len(kv.segs)
      /\ Capture(kv).committed = [i \in 1..Len(kv.segs) |-> kv.segs[i].committed]
  BY DEF Capture
<1>4. [i \in 1..Len(kv.segs) |-> kv.segs[i].committed] \in Seq(Nat)
  BY <1>1
<1>5. Capture(kv) \in RollbackType
  <2> DEFINE c == [i \in 1..Len(kv.segs) |-> kv.segs[i].committed]
  <2>1. Capture(kv) = [pos |-> kv.pos, ctx |-> kv.ctx, rev |-> kv.rev, graph |-> kv.graph,
                       pending |-> kv.pending, len |-> Len(kv.segs),
                       committed |-> c, removed |-> <<>>]
    BY DEF Capture
  <2>2. c \in Seq(Nat)
    BY <1>4
  <2> HIDE DEF c
  <2> QED
    BY <1>1, <1>3, <2>1, <2>2, KvFields DEF RollbackType
<1>6. Begun(kv) \in StageType
  BY <1>5 DEF Begun, StageType
<1>7. Undoes(kv.segs, kv.segs, <<>>)
  BY <1>1 DEF Undoes
<1> QED
  BY <1>1, <1>2, <1>3, <1>5, <1>6, <1>7 DEF Recovers

-------------------------------------------------------------------------------
(* Well-formed lists of segments. *)

StartsAt(segs, i) == IF i = 1 THEN 0 ELSE segs[i - 1].start + segs[i - 1].committed

EndOf(segs) == StartsAt(segs, Len(segs) + 1)

\* WellFormed by its parts.
LEMMA WellFormedParts ==
  ASSUME NEW kv
  PROVE  WellFormed(kv) <=>
           /\ \A i \in 1..Len(kv.segs) :
                /\ kv.segs[i].start = StartsAt(kv.segs, i)
                /\ kv.segs[i].committed <= kv.segs[i].cap
                /\ kv.segs[i].committed = 0 => kv.pending.index = i
           /\ kv.pos = EndOf(kv.segs)
           /\ kv.pos <= kv.ctx
           /\ kv.pending # NoRange =>
                /\ kv.pending.start = kv.pos
                /\ kv.pending.index = Len(kv.segs)
                /\ kv.pos - kv.segs[Len(kv.segs)].start + kv.pending.tokens
                     <= kv.segs[Len(kv.segs)].cap
                /\ kv.pos + kv.pending.tokens <= kv.ctx
BY DEF WellFormed, StartsAt, EndOf

\* Only the last segment may be empty, and only as the target of an append.
LEMMA OnlyTargetEmpty ==
  ASSUME NEW kv \in KvType, WellFormed(kv), NEW i \in 1..Len(kv.segs),
         kv.segs[i].committed = 0
  PROVE  kv.pending # NoRange /\ i = Len(kv.segs) /\ kv.segs[i].start = kv.pos
<1>1. /\ kv.segs[i].committed = 0 => kv.pending.index = i
      /\ kv.pending # NoRange => kv.pending.index = Len(kv.segs)
      /\ kv.pos = EndOf(kv.segs)
  BY WellFormedParts
<1>2. /\ Len(kv.segs) \in Nat /\ kv.segs[i].start \in Nat
      /\ kv.segs[i].committed \in Nat
  BY KvFields
<1>3. NoRange.index = 0 /\ i # 0
  BY <1>2 DEF NoRange
<1>4. kv.pending # NoRange /\ i = Len(kv.segs)
  BY <1>1, <1>3
<1>5. EndOf(kv.segs) = kv.segs[i].start + kv.segs[i].committed
  BY <1>2, <1>4 DEF EndOf, StartsAt
<1> QED
  BY <1>1, <1>2, <1>4, <1>5

\* The first segments of a well-formed cache, the last of them perhaps cut
\* short, are a well-formed cache without a pending append.
LEMMA PrefixWellFormed ==
  ASSUME NEW kv \in KvType, WellFormed(kv), NEW new \in KvType,
         Len(new.segs) <= Len(kv.segs),
         \A i \in 1..Len(new.segs) :
           /\ new.segs[i].start = kv.segs[i].start
           /\ new.segs[i].cap = kv.segs[i].cap
           /\ i < Len(new.segs) => new.segs[i].committed = kv.segs[i].committed
           /\ i = Len(new.segs) => new.segs[i].committed \in 1..kv.segs[i].committed,
         new.pos = EndOf(new.segs), new.pos <= new.ctx, new.pending = NoRange
  PROVE  WellFormed(new)
<1>1. Len(new.segs) \in Nat /\ Len(kv.segs) \in Nat
  BY KvFields
<1>2. ASSUME NEW i \in 1..Len(new.segs)
      PROVE  /\ new.segs[i].start = StartsAt(new.segs, i)
             /\ new.segs[i].committed <= new.segs[i].cap
             /\ new.segs[i].committed # 0
  <2>1. i \in 1..Len(kv.segs) /\ (i # 1 => i - 1 \in 1..Len(new.segs) /\ i - 1 < Len(new.segs))
    BY <1>1
  <2>2. /\ kv.segs[i].start = StartsAt(kv.segs, i)
        /\ kv.segs[i].committed <= kv.segs[i].cap
    BY <2>1, WellFormedParts
  <2>3. /\ kv.segs[i].committed \in Nat /\ kv.segs[i].cap \in Nat
        /\ new.segs[i].committed \in Nat
    BY <2>1, KvFields
  <2>4. StartsAt(new.segs, i) = StartsAt(kv.segs, i)
    <3>1. CASE i = 1
      BY <3>1 DEF StartsAt
    <3>2. CASE i # 1
      BY <2>1, <3>2 DEF StartsAt
    <3> QED
      BY <3>1, <3>2
  <2>5. i < Len(new.segs) => kv.segs[i].committed # 0
    <3> SUFFICES ASSUME i < Len(new.segs), kv.segs[i].committed = 0
                 PROVE  FALSE
      OBVIOUS
    <3>1. i = Len(kv.segs)
      BY <2>1, OnlyTargetEmpty
    <3> QED
      BY <1>1, <3>1
  <2>6. i < Len(new.segs) \/ i = Len(new.segs)
    BY <1>1
  <2> QED
    BY <2>2, <2>3, <2>4, <2>5, <2>6
<1> QED
  BY <1>2, WellFormedParts

-------------------------------------------------------------------------------
(* Cutting a cache back. *)

\* The first elements of a list of segments.
LEMMA FirstSegments ==
  ASSUME NEW s \in Seq(Seg), NEW m \in 0..Len(s)
  PROVE  /\ SubSeq(s, 1, m) \in Seq(Seg) /\ Len(SubSeq(s, 1, m)) = m
         /\ \A i \in 1..m : SubSeq(s, 1, m)[i] = s[i]
<1>1. Len(s) \in Nat /\ \A i \in 1..m : s[i] \in Seg
  BY LenProperties, ElementOfSeq
<1> QED
  BY <1>1, SubSeqProperties

\* A record of a cache, assembled.
LEMMA KvRecord ==
  ASSUME NEW segs \in Seq(Seg), NEW pos \in Nat, NEW ctx \in Nat, NEW rev \in Nat,
         NEW g \in TokenType, NEW p \in TargetType
  PROVE  [segs |-> segs, pos |-> pos, ctx |-> ctx, rev |-> rev, graph |-> g,
          pending |-> p] \in KvType
BY DEF KvType

\* NoRange is the target of no append.
LEMMA NoRangeType == NoRange \in TargetType /\ NoRange.index = 0
BY DEF NoRange, TargetType

(* s is the first m of the segments o, and r the others in reverse. *)
Peeled(o, s, r, m) ==
    /\ s \in Seq(Seg) /\ Len(s) = m /\ \A i \in 1..m : s[i] = o[i]
    /\ r \in Seq(Seg) /\ Len(r) = Len(o) - m
    /\ \A i \in 1..Len(o) - m : r[i] = o[Len(o) + 1 - i]

\* A list is peeled further.
LEMMA PeelMore ==
  ASSUME NEW o \in Seq(Seg), NEW s, NEW r, NEW m \in 0..Len(o), Peeled(o, s, r, m),
         NEW k \in 0..m
  PROVE  Peeled(o, SubSeq(s, 1, k), r \o Reversed(SubSeq(s, k + 1, Len(s))), k)
<1> DEFINE t == SubSeq(s, k + 1, Len(s))
           b == Reversed(t)
<1>1. /\ s \in Seq(Seg) /\ Len(s) = m /\ r \in Seq(Seg) /\ Len(r) = Len(o) - m
      /\ \A i \in 1..m : s[i] = o[i]
      /\ \A i \in 1..Len(o) - m : r[i] = o[Len(o) + 1 - i]
  BY DEF Peeled
<1>2. Len(o) \in Nat /\ m \in Nat /\ k \in Nat /\ k <= m /\ m <= Len(o)
  BY LenProperties
<1>3. /\ SubSeq(s, 1, k) \in Seq(Seg) /\ Len(SubSeq(s, 1, k)) = k
      /\ \A i \in 1..k : SubSeq(s, 1, k)[i] = s[i]
  BY <1>1, FirstSegments
<1>4. /\ t \in Seq(Seg) /\ Len(t) = m - k
      /\ \A i \in 1..m - k : t[i] = s[k + i]
  <2>1. \A i \in k + 1..m : s[i] \in Seg
    BY <1>1, <1>2, ElementOfSeq
  <2>2. /\ SubSeq(s, k + 1, m) \in Seq(Seg)
        /\ Len(SubSeq(s, k + 1, m)) = IF k + 1 <= m THEN m - (k + 1) + 1 ELSE 0
        /\ \A i \in 1..m - (k + 1) + 1 : SubSeq(s, k + 1, m)[i] = s[(k + 1) + i - 1]
    BY <1>2, <2>1, SubSeqProperties
  <2> QED
    BY <1>1, <1>2, <2>2
<1> HIDE DEF t
<1>5. /\ b \in Seq(Seg) /\ Len(b) = m - k
      /\ \A i \in 1..m - k : b[i] = s[m + 1 - i]
  <2>1. /\ b \in Seq(Seg) /\ Len(b) = Len(t)
        /\ \A i \in 1..Len(t) : b[i] = t[Len(t) + 1 - i]
    BY <1>4, ReversedFacts
  <2>2. ASSUME NEW i \in 1..m - k
        PROVE  b[i] = s[m + 1 - i]
    <3>1. (m - k) + 1 - i \in 1..m - k /\ k + ((m - k) + 1 - i) = m + 1 - i
      BY <1>2
    <3> QED
      BY <1>4, <2>1, <3>1
  <2> QED
    BY <1>4, <2>1, <2>2
<1> HIDE DEF b
<1>6. /\ r \o b \in Seq(Seg) /\ Len(r \o b) = Len(o) - k
      /\ \A i \in 1..Len(o) - k :
           (r \o b)[i] = IF i <= Len(o) - m THEN r[i] ELSE b[i - (Len(o) - m)]
  <2>1. Len(r) + Len(b) = Len(o) - k
    BY <1>1, <1>2, <1>5
  <2>2. /\ r \o b \in Seq(Seg) /\ Len(r \o b) = Len(r) + Len(b)
        /\ \A i \in 1..Len(r) + Len(b) : (r \o b)[i] =
             IF i <= Len(r) THEN r[i] ELSE b[i - Len(r)]
    BY <1>1, <1>5, ConcatProperties, SMTT(40)
  <2> QED
    BY <1>1, <2>1, <2>2
<1>7. ASSUME NEW i \in 1..Len(o) - k
      PROVE  (r \o b)[i] = o[Len(o) + 1 - i]
  <2>1. CASE i <= Len(o) - m
    BY <1>1, <1>2, <1>6, <2>1
  <2>2. CASE ~(i <= Len(o) - m)
    <3>1. /\ i - (Len(o) - m) \in 1..m - k
          /\ m + 1 - (i - (Len(o) - m)) = Len(o) + 1 - i
          /\ Len(o) + 1 - i \in 1..m
      BY <1>2, <2>2
    <3>2. b[i - (Len(o) - m)] = s[Len(o) + 1 - i]
      BY <1>5, <3>1
    <3> QED
      BY <1>1, <1>6, <2>2, <3>1, <3>2
  <2> QED
    BY <2>1, <2>2
<1>8. \A i \in 1..k : SubSeq(s, 1, k)[i] = o[i]
  BY <1>1, <1>2, <1>3
<1> QED
  BY <1>3, <1>6, <1>7, <1>8 DEF Peeled, b, t

\* The last element is peeled off.
LEMMA PeelLast ==
  ASSUME NEW o \in Seq(Seg), NEW s, NEW r, NEW m \in 1..Len(o), Peeled(o, s, r, m)
  PROVE  Peeled(o, SubSeq(s, 1, m - 1), Append(r, s[m]), m - 1)
<1>1. /\ s \in Seq(Seg) /\ Len(s) = m /\ r \in Seq(Seg) /\ Len(r) = Len(o) - m
      /\ \A i \in 1..m : s[i] = o[i]
      /\ \A i \in 1..Len(o) - m : r[i] = o[Len(o) + 1 - i]
  BY DEF Peeled
<1>2. Len(o) \in Nat /\ m \in Nat /\ m >= 1 /\ m <= Len(o)
  BY LenProperties
<1>3. /\ SubSeq(s, 1, m - 1) \in Seq(Seg) /\ Len(SubSeq(s, 1, m - 1)) = m - 1
      /\ \A i \in 1..m - 1 : SubSeq(s, 1, m - 1)[i] = s[i]
  BY <1>1, <1>2, FirstSegments
<1>4. s[m] \in Seg /\ s[m] = o[m]
  BY <1>1, <1>2, ElementOfSeq
<1>5. /\ Append(r, s[m]) \in Seq(Seg) /\ Len(Append(r, s[m])) = Len(r) + 1
      /\ \A i \in 1..Len(r) : Append(r, s[m])[i] = r[i]
      /\ Append(r, s[m])[Len(r) + 1] = s[m]
  <2>1. r \in Seq(Seg)
    BY <1>1
  <2>2. PICK e \in Seg : e = s[m]
    BY <1>4
  <2>3. /\ Append(r, e) \in Seq(Seg) /\ Len(Append(r, e)) = Len(r) + 1
        /\ \A i \in 1..Len(r) : Append(r, e)[i] = r[i]
        /\ Append(r, e)[Len(r) + 1] = e
    BY <2>1, AppendProperties
  <2> QED
    BY <2>2, <2>3
<1>9. Len(r) = Len(o) - m
  BY <1>1
<1>6. ASSUME NEW i \in 1..Len(o) - (m - 1)
      PROVE  Append(r, s[m])[i] = o[Len(o) + 1 - i]
  <2>1. CASE i <= Len(o) - m
    BY <1>1, <1>2, <1>5, <2>1
  <2>2. CASE ~(i <= Len(o) - m)
    <3>1. i = Len(r) + 1 /\ Len(o) + 1 - i = m
      BY <1>2, <1>9, <2>2
    <3> QED
      BY <1>4, <1>5, <3>1
  <2> QED
    BY <2>1, <2>2
<1>7. Len(Append(r, s[m])) = Len(o) - (m - 1)
  BY <1>1, <1>2, <1>5
<1>8. \A i \in 1..m - 1 : SubSeq(s, 1, m - 1)[i] = o[i]
  BY <1>1, <1>2, <1>3
<1> QED
  BY <1>3, <1>5, <1>6, <1>7, <1>8 DEF Peeled

\* What has been peeled can be put back.
LEMMA PeeledUndoes ==
  ASSUME NEW o \in Seq(Seg), NEW s, NEW r, NEW m \in 0..Len(o), Peeled(o, s, r, m)
  PROVE  Undoes(o, s, r)
<1>1. Len(o) \in Nat /\ m \in Nat
  BY LenProperties
<1> QED
  BY <1>1 DEF Peeled, Undoes

(* The stage of a cut of kv: the segments s are left, r are removed. *)
CommittedOf(kv) == [i \in 1..Len(kv.segs) |-> kv.segs[i].committed]
RollbackOf(kv, r) ==
    [pos |-> kv.pos, ctx |-> kv.ctx, rev |-> kv.rev, graph |-> kv.graph,
     pending |-> kv.pending, len |-> Len(kv.segs),
     committed |-> CommittedOf(kv), removed |-> r]
CacheOf(kv, s, pos, rev) ==
    [segs |-> s, pos |-> pos, ctx |-> kv.ctx, rev |-> rev, graph |-> kv.graph,
     pending |-> NoRange]
StageOf(kv, s, r) == [kv |-> CacheOf(kv, s, kv.pos, kv.rev), rb |-> RollbackOf(kv, r)]

\* The rollback of a transaction on kv.
LEMMA RollbackFacts ==
  ASSUME NEW kv \in KvType, NEW r \in Seq(Seg)
  PROVE  /\ RollbackOf(kv, r) \in RollbackType /\ RollbackOf(kv, r).removed = r
         /\ \A x : [RollbackOf(kv, r) EXCEPT !.removed = x] = RollbackOf(kv, x)
<1>1. CommittedOf(kv) \in Seq(Nat)
  BY KvFields DEF CommittedOf
<1>2. RollbackOf(kv, r) \in RollbackType
  BY <1>1, KvFields DEF RollbackType, RollbackOf
<1> QED
  BY <1>2 DEF RollbackOf

\* A stage and its parts.
LEMMA StageFacts ==
  ASSUME NEW kv \in KvType, NEW s \in Seq(Seg), NEW r \in Seq(Seg)
  PROVE  /\ StageOf(kv, s, r).kv = CacheOf(kv, s, kv.pos, kv.rev)
         /\ StageOf(kv, s, r).kv.segs = s
         /\ StageOf(kv, s, r).kv.pending = NoRange
         /\ StageOf(kv, s, r).rb = RollbackOf(kv, r)
         /\ StageOf(kv, s, r).rb.removed = r
<1>1. /\ StageOf(kv, s, r).kv = CacheOf(kv, s, kv.pos, kv.rev)
      /\ StageOf(kv, s, r).rb = RollbackOf(kv, r)
  BY DEF StageOf
<1> QED
  BY <1>1, RollbackFacts DEF CacheOf

\* A stage whose removed segments can be put back is one that can be undone.
LEMMA StageRecovers ==
  ASSUME NEW kv \in KvType, NEW new \in KvType, NEW r \in Seq(Seg),
         Undoes(kv.segs, new.segs, r)
  PROVE  Recovers(kv, [kv |-> new, rb |-> RollbackOf(kv, r)])
<1> DEFINE rb == RollbackOf(kv, r)
           st == [kv |-> new, rb |-> rb]
<1>1. rb \in RollbackType
  BY RollbackFacts
<1>2. /\ rb.pos = kv.pos /\ rb.ctx = kv.ctx /\ rb.rev = kv.rev
      /\ rb.graph = kv.graph /\ rb.pending = kv.pending
      /\ rb.len = Len(kv.segs) /\ rb.removed = r
      /\ rb.committed = [i \in 1..Len(kv.segs) |-> kv.segs[i].committed]
  BY DEF RollbackOf, CommittedOf
<1> HIDE DEF rb
<1>3. st \in StageType /\ st.kv = new /\ st.rb = rb
  BY <1>1 DEF StageType
<1> HIDE DEF st
<1>4. Recovers(kv, st)
  BY <1>2, <1>3 DEF Recovers
<1> QED
  BY <1>4 DEF st, rb

\* The steps of a cut, as stages.
LEMMA BegunStage ==
  ASSUME NEW kv \in KvType
  PROVE  /\ Begun(kv) = [kv |-> kv, rb |-> RollbackOf(kv, <<>>)]
         /\ [Begun(kv) EXCEPT !.kv.pending = NoRange] = StageOf(kv, kv.segs, <<>>)
<1>1. Begun(kv) = [kv |-> kv, rb |-> RollbackOf(kv, <<>>)]
  BY DEF Begun, RollbackOf, Capture, CommittedOf
<1>2. [kv EXCEPT !.pending = NoRange] = CacheOf(kv, kv.segs, kv.pos, kv.rev)
  BY DEF KvType, CacheOf
<1> HIDE DEF RollbackOf
<1> QED
  BY <1>1, <1>2 DEF StageOf

\* drop of the last segment of a stage.
LEMMA DropTailStage ==
  ASSUME NEW kv \in KvType, NEW s \in Seq(Seg), NEW r \in Seq(Seg)
  PROVE  DropTail(StageOf(kv, s, r)) =
           StageOf(kv, SubSeq(s, 1, Len(s) - 1), Append(r, s[Len(s)]))
<1> DEFINE st == StageOf(kv, s, r)
           x == Append(r, s[Len(s)])
           t == SubSeq(s, 1, Len(s) - 1)
<1>3. st.kv.segs = s /\ st.rb = RollbackOf(kv, r) /\ st.rb.removed = r
  BY StageFacts
<1>5. \A u : [CacheOf(kv, s, kv.pos, kv.rev) EXCEPT !.segs = u]
              = CacheOf(kv, u, kv.pos, kv.rev)
  BY DEF CacheOf
<1>6. st.kv = CacheOf(kv, s, kv.pos, kv.rev)
  BY StageFacts
<1>4. \A u : [RollbackOf(kv, r) EXCEPT !.removed = u] = RollbackOf(kv, u)
  BY RollbackFacts, Zenon
<1>0. /\ st.kv.segs = s /\ st.rb.removed = r
      /\ [st.kv EXCEPT !.segs = t] = CacheOf(kv, t, kv.pos, kv.rev)
      /\ [st.rb EXCEPT !.removed = x] = RollbackOf(kv, x)
  <2> HIDE DEF st, x, t
  <2> QED
    BY <1>3, <1>4, <1>5, <1>6, Zenon
<1> HIDE DEF st
<1>1. DropTail(st) = [kv |-> [st.kv EXCEPT !.segs = t], rb |-> [st.rb EXCEPT !.removed = x]]
  BY <1>0, Zenon DEF DropTail
<1> HIDE DEF x, t
<1>2. DropTail(st) = [kv |-> CacheOf(kv, t, kv.pos, kv.rev), rb |-> RollbackOf(kv, x)]
  BY <1>0, <1>1, Zenon
<1> QED
  BY <1>2 DEF StageOf, x, t, st

\* remove_segments_at_or_after on a stage.
LEMMA RemoveStage ==
  ASSUME NEW kv \in KvType, NEW s \in Seq(Seg), NEW r \in Seq(Seg), NEW position,
         NEW keep, keep = SegmentsBefore(s, position)
  PROVE  RemoveSegmentsAtOrAfter(StageOf(kv, s, r), position) =
           StageOf(kv, SubSeq(s, 1, keep), r \o Reversed(SubSeq(s, keep + 1, Len(s))))
<1> DEFINE st == StageOf(kv, s, r)
           x == r \o Reversed(SubSeq(s, keep + 1, Len(s)))
           t == SubSeq(s, 1, keep)
<1>3. st.kv.segs = s /\ st.rb = RollbackOf(kv, r) /\ st.rb.removed = r
  BY StageFacts
<1>5. \A u : [CacheOf(kv, s, kv.pos, kv.rev) EXCEPT !.segs = u]
              = CacheOf(kv, u, kv.pos, kv.rev)
  BY DEF CacheOf
<1>6. st.kv = CacheOf(kv, s, kv.pos, kv.rev)
  BY StageFacts
<1>4. \A u : [RollbackOf(kv, r) EXCEPT !.removed = u] = RollbackOf(kv, u)
  BY RollbackFacts, Zenon
<1>0. /\ st.kv.segs = s /\ st.rb.removed = r
      /\ [st.kv EXCEPT !.segs = t] = CacheOf(kv, t, kv.pos, kv.rev)
      /\ [st.rb EXCEPT !.removed = x] = RollbackOf(kv, x)
  <2> HIDE DEF st, x, t
  <2> QED
    BY <1>3, <1>4, <1>5, <1>6, Zenon
<1> HIDE DEF st
<1>1. RemoveSegmentsAtOrAfter(st, position) =
        [kv |-> [st.kv EXCEPT !.segs = t], rb |-> [st.rb EXCEPT !.removed = x]]
  BY <1>0, Zenon DEF RemoveSegmentsAtOrAfter
<1> HIDE DEF x, t
<1>2. RemoveSegmentsAtOrAfter(st, position) =
        [kv |-> CacheOf(kv, t, kv.pos, kv.rev), rb |-> RollbackOf(kv, x)]
  BY <1>0, <1>1, Zenon
<1> QED
  BY <1>2 DEF StageOf, x, t, st

(* The segments of a cache that an append is not made to. *)
Shortened(s, position) ==
    IF /\ Len(s) > 0
       /\ Most(0, position - s[Len(s)].start) < s[Len(s)].committed
    THEN [s EXCEPT ![Len(s)].committed = Most(0, position - s[Len(s)].start)]
    ELSE s

\* The shortening of the last segment of a stage.
LEMMA ShortenStage ==
  ASSUME NEW kv \in KvType, NEW s \in Seq(Seg), NEW r \in Seq(Seg), NEW position
  PROVE  ShortenTail(StageOf(kv, s, r), position) = StageOf(kv, Shortened(s, position), r)
<1>1. /\ StageOf(kv, s, r).kv = CacheOf(kv, s, kv.pos, kv.rev)
      /\ StageOf(kv, s, r).kv.segs = s
  BY DEF StageOf, CacheOf
<1>2. CASE /\ Len(s) > 0
           /\ Most(0, position - s[Len(s)].start) < s[Len(s)].committed
  <2> DEFINE v == Most(0, position - s[Len(s)].start)
             new == [s EXCEPT ![Len(s)].committed = v]
  <2>1. ShortenTail(StageOf(kv, s, r), position) =
          [StageOf(kv, s, r) EXCEPT !.kv.segs[Len(s)].committed = v]
    BY <1>1, <1>2 DEF ShortenTail
  <2>2. Shortened(s, position) = new
    BY <1>2 DEF Shortened
  <2> HIDE DEF v
  <2>3. [StageOf(kv, s, r) EXCEPT !.kv.segs[Len(s)].committed = v] = StageOf(kv, new, r)
    <3>1. /\ StageOf(kv, s, r) = [kv |-> CacheOf(kv, s, kv.pos, kv.rev),
                                  rb |-> RollbackOf(kv, r)]
          /\ StageOf(kv, new, r) = [kv |-> CacheOf(kv, new, kv.pos, kv.rev),
                                    rb |-> RollbackOf(kv, r)]
      BY DEF StageOf
    <3>2. [StageOf(kv, s, r) EXCEPT !.kv.segs[Len(s)].committed = v] =
            [StageOf(kv, s, r) EXCEPT !.kv =
               [CacheOf(kv, s, kv.pos, kv.rev) EXCEPT !.segs = [s EXCEPT ![Len(s)].committed = v]]]
      BY <3>1, StageFacts, SMTT(40)
    <3>3. [StageOf(kv, s, r) EXCEPT !.kv.segs[Len(s)].committed = v] =
            [StageOf(kv, s, r) EXCEPT !.kv = [CacheOf(kv, s, kv.pos, kv.rev) EXCEPT !.segs = new]]
      BY <3>2, Zenon
    <3> HIDE DEF new
    <3>4. [CacheOf(kv, s, kv.pos, kv.rev) EXCEPT !.segs = new]
            = CacheOf(kv, new, kv.pos, kv.rev)
      BY DEF CacheOf
    <3>5. [StageOf(kv, s, r) EXCEPT !.kv = CacheOf(kv, new, kv.pos, kv.rev)] = StageOf(kv, new, r)
      BY DEF StageOf
    <3> QED
      BY <3>3, <3>4, <3>5, Zenon
  <2> QED
    BY <2>1, <2>2, <2>3
<1>3. CASE ~(/\ Len(s) > 0
             /\ Most(0, position - s[Len(s)].start) < s[Len(s)].committed)
  BY <1>1, <1>3 DEF ShortenTail, Shortened
<1> QED
  BY <1>2, <1>3

\* What is left of a well-formed cache when its pending append is detached:
\* the segments that hold something, up to the same position.
LEMMA DetachStage ==
  ASSUME NEW kv \in KvType, WellFormed(kv)
  PROVE  \E m \in 0..Len(kv.segs), s \in Seq(Seg), r \in Seq(Seg) :
           /\ DetachPending(Begun(kv)) = StageOf(kv, s, r)
           /\ Peeled(kv.segs, s, r, m)
           /\ \A i \in 1..m : s[i].committed # 0
           /\ EndOf(s) = kv.pos
<1> DEFINE n == Len(kv.segs)
           tail == n > 0 /\ kv.pending.index = n /\ kv.segs[n].committed = 0
<1>1. kv.segs \in Seq(Seg) /\ n \in Nat /\ kv.pos = EndOf(kv.segs)
  BY KvFields, WellFormedParts
<1>2. Peeled(kv.segs, kv.segs, <<>>, n) /\ <<>> \in Seq(Seg)
  BY <1>1 DEF Peeled
<1>3. /\ kv.pending = NoRange => DetachPending(Begun(kv)) = Begun(kv)
      /\ kv.pending # NoRange /\ tail =>
           DetachPending(Begun(kv)) = DropTail([Begun(kv) EXCEPT !.kv.pending = NoRange])
      /\ kv.pending # NoRange /\ ~tail =>
           DetachPending(Begun(kv)) = [Begun(kv) EXCEPT !.kv.pending = NoRange]
  BY BegunRecovers, Zenon DEF DetachPending
<1>4. CASE kv.pending # NoRange /\ tail
  <2>1. Peeled(kv.segs, SubSeq(kv.segs, 1, n - 1), Append(<<>>, kv.segs[n]), n - 1)
    <3>1. n \in 1..Len(kv.segs)
      BY <1>1, <1>4
    <3>2. \A o \in Seq(Seg) : \A t, q : \A m \in 1..Len(o) : Peeled(o, t, q, m) =>
             Peeled(o, SubSeq(t, 1, m - 1), Append(q, t[m]), m - 1)
      BY PeelLast, Zenon
    <3> QED
      BY <1>1, <1>2, <3>1, <3>2, Zenon
  <2>2. DetachPending(Begun(kv)) =
          StageOf(kv, SubSeq(kv.segs, 1, n - 1), Append(<<>>, kv.segs[n]))
    <3>1. DetachPending(Begun(kv)) = DropTail(StageOf(kv, kv.segs, <<>>))
      BY <1>3, <1>4, BegunStage, Zenon
    <3> QED
      BY <1>1, <1>2, <3>1, DropTailStage, Zenon
  <2> DEFINE s == SubSeq(kv.segs, 1, n - 1)
             r == Append(<<>>, kv.segs[n])
  <2>3. /\ s \in Seq(Seg) /\ r \in Seq(Seg) /\ Len(s) = n - 1
        /\ \A i \in 1..n - 1 : s[i] = kv.segs[i]
    BY <2>1, Zenon DEF Peeled
  <2> HIDE DEF s, r
  <2>4. n \in 1..Len(kv.segs) /\ n - 1 \in 0..Len(kv.segs)
    BY <1>1, <1>4
  <2>5. kv.segs[n].start = kv.pos /\ kv.segs[n].start = StartsAt(kv.segs, n)
    BY <1>4, <2>4, OnlyTargetEmpty, WellFormedParts
  <2>6. StartsAt(s, n) = StartsAt(kv.segs, n)
    <3>1. CASE n = 1
      BY <3>1 DEF StartsAt
    <3>2. CASE n # 1
      <4>2. PICK k \in Nat : k = n
        BY <1>1
      <4>3. k > 0
        BY <1>4, <4>2
      <4>4. k # 1
        BY <3>2, <4>2, Zenon
      <4>5. k - 1 \in 1..k - 1
        BY <4>3, <4>4
      <4>1. n - 1 \in 1..n - 1
        BY <4>2, <4>5, Zenon
      <4> QED
        BY <2>3, <3>2, <4>1 DEF StartsAt
    <3> QED
      BY <3>1, <3>2
  <2>7. EndOf(s) = kv.pos
    <3>1. Len(s) + 1 = n
      BY <1>1, <2>3
    <3> QED
      BY <2>5, <2>6, <3>1 DEF EndOf
  <2>8. \A i \in 1..n - 1 : s[i].committed # 0
    <3> SUFFICES ASSUME NEW i \in 1..n - 1, s[i].committed = 0
                 PROVE  FALSE
      OBVIOUS
    <3>1. i \in 1..Len(kv.segs) /\ i # n
      BY <1>1
    <3>2. kv.segs[i].committed = 0
      BY <2>3
    <3> QED
      BY <3>1, <3>2, OnlyTargetEmpty
  <2>9. DetachPending(Begun(kv)) = StageOf(kv, s, r) /\ Peeled(kv.segs, s, r, n - 1)
    BY <2>1, <2>2 DEF s, r
  <2> QED
    BY <2>3, <2>4, <2>7, <2>8, <2>9
<1>5. CASE ~(kv.pending # NoRange /\ tail)
  <2>1. DetachPending(Begun(kv)) = StageOf(kv, kv.segs, <<>>)
    <3>1. CASE kv.pending = NoRange
      <4>1. StageOf(kv, kv.segs, <<>>) = [kv |-> kv, rb |-> RollbackOf(kv, <<>>)]
        BY <3>1 DEF StageOf, CacheOf, KvType
      <4> QED
        BY <1>3, <3>1, <4>1, BegunStage, Zenon
    <3>2. CASE kv.pending # NoRange
      BY <1>3, <1>5, <3>2, BegunStage, Zenon
    <3> QED
      BY <3>1, <3>2
  <2>2. \A i \in 1..n : kv.segs[i].committed # 0
    <3> SUFFICES ASSUME NEW i \in 1..n, kv.segs[i].committed = 0
                 PROVE  FALSE
      OBVIOUS
    <3>1. kv.pending # NoRange /\ i = n
      BY OnlyTargetEmpty
    <3>2. kv.pending.index = n /\ n > 0
      BY <1>1, <3>1, WellFormedParts
    <3> QED
      BY <1>5, <3>1, <3>2
  <2>3. n \in 0..Len(kv.segs)
    BY <1>1
  <2> QED
    BY <1>1, <1>2, <2>1, <2>2, <2>3
<1> QED
  BY <1>4, <1>5

\* How many segments a cut leaves.
LEMMA SegmentsBeforeFacts ==
  ASSUME NEW s \in Seq(Seg), NEW position \in Nat
  PROVE  /\ SegmentsBefore(s, position) \in 0..Len(s)
         /\ \/ SegmentsBefore(s, position) = 0
            \/ s[SegmentsBefore(s, position)].start < position
         /\ \A m \in SegmentsBefore(s, position) + 1..Len(s) : s[m].start >= position
<1> DEFINE S == {n \in 0..Len(s) : n = 0 \/ s[n].start < position}
<1>1. /\ Len(s) \in Nat
      /\ \A i \in 1..Len(s) : s[i].start \in Nat
  <2>1. Len(s) \in Nat
    BY LenProperties
  <2>2. \A i \in 1..Len(s) : s[i] \in Seg
    BY ElementOfSeq
  <2> QED
    BY <2>1, <2>2 DEF Seg
<1>2. S \subseteq 0..Len(s) /\ 0 \in S
  BY <1>1
<1>3. PICK n \in S : \A k \in S : k <= n
  BY <1>1, <1>2, GreatestNat
<1>4. n \in 0..Len(s) /\ (n = 0 \/ s[n].start < position)
  OBVIOUS
<1>5. ASSUME NEW m \in n + 1..Len(s)
      PROVE  s[m].start >= position
  <2>1. m \notin S /\ m \in 1..Len(s)
    BY <1>1, <1>3, <1>4
  <2> QED
    BY <1>1, <2>1
<1>6. \E k \in 0..Len(s) :
        /\ k = 0 \/ s[k].start < position
        /\ \A m \in (k + 1)..Len(s) : s[m].start >= position
  BY <1>4, <1>5
<1> QED
  BY <1>6 DEF SegmentsBefore

\* The numbers of a segment that a cut at a position may shorten: it starts
\* before the position and ends at it or behind it.
LEMMA ShortenedNumbers ==
  ASSUME NEW start \in Nat, NEW committed \in Nat, NEW position \in Nat,
         start < position, position <= start + committed
  PROVE  LET v == Most(0, position - start)
         IN /\ v \in 1..committed /\ start + v = position
            /\ ~(v < committed) => v = committed
BY DEF Most

\* A segment whose committed positions are set.
LEMMA SegExcept ==
  ASSUME NEW seg \in Seg, NEW v \in Nat
  PROVE  /\ [seg EXCEPT !.committed = v] \in Seg
         /\ [seg EXCEPT !.committed = v].committed = v
         /\ [seg EXCEPT !.committed = v].start = seg.start
         /\ [seg EXCEPT !.committed = v].cap = seg.cap
         /\ [seg EXCEPT !.committed = v].storage = seg.storage
BY DEF Seg

(* The segments u are those of s before the position, cut short there. *)
CutBack(s, u, keep, position) ==
    /\ keep \in 0..Len(s) /\ u \in Seq(Seg) /\ Len(u) = keep
    /\ \A i \in 1..keep :
         /\ u[i].start = s[i].start /\ u[i].cap = s[i].cap
         /\ u[i].storage = s[i].storage
         /\ i < keep => u[i].committed = s[i].committed
         /\ i = keep => u[i].committed \in 1..s[i].committed
    /\ EndOf(u) = position

\* Where the last segment that a cut keeps begins and ends.
LEMMA LastKept ==
  ASSUME NEW s \in Seq(Seg), \A i \in 1..Len(s) : s[i].start = StartsAt(s, i),
         NEW position \in Nat, position <= EndOf(s),
         NEW keep, keep = SegmentsBefore(s, position)
  PROVE  /\ keep \in 0..Len(s)
         /\ keep = 0 => position = 0
         /\ keep # 0 => /\ s[keep].start < position
                        /\ position <= s[keep].start + s[keep].committed
<1>1. /\ Len(s) \in Nat
      /\ \A i \in 1..Len(s) : s[i].start \in Nat /\ s[i].committed \in Nat
  <2>1. Len(s) \in Nat
    BY LenProperties
  <2>2. \A i \in 1..Len(s) : s[i] \in Seg
    BY ElementOfSeq
  <2> QED
    BY <2>1, <2>2 DEF Seg
<1>2. /\ keep \in 0..Len(s) /\ (keep = 0 \/ s[keep].start < position)
      /\ \A m \in keep + 1..Len(s) : s[m].start >= position
  BY SegmentsBeforeFacts
<1>3. StartsAt(s, keep + 1) >= position
  <2>1. CASE keep = Len(s)
    BY <2>1 DEF EndOf
  <2>2. CASE keep # Len(s)
    <3>1. keep + 1 \in 1..Len(s) /\ keep + 1 \in keep + 1..Len(s)
      BY <1>1, <1>2, <2>2
    <3> QED
      BY <1>2, <3>1
  <2> QED
    BY <2>1, <2>2
<1>4. keep = 0 => position = 0
  <2> SUFFICES ASSUME keep = 0
               PROVE  position = 0
    OBVIOUS
  <2>1. StartsAt(s, keep + 1) = 0
    BY DEF StartsAt
  <2> QED
    BY <1>3, <2>1
<1>5. keep # 0 => position <= s[keep].start + s[keep].committed
  <2> SUFFICES ASSUME keep # 0
               PROVE  position <= s[keep].start + s[keep].committed
    OBVIOUS
  <2>1. keep \in 1..Len(s) /\ keep + 1 # 1 /\ keep + 1 - 1 = keep
    BY <1>1, <1>2
  <2>2. StartsAt(s, keep + 1) = s[keep].start + s[keep].committed
    BY <2>1 DEF StartsAt
  <2>3. s[keep].start + s[keep].committed \in Nat
    BY <1>1, <2>1
  <2> QED
    BY <1>3, <2>2, <2>3
<1> QED
  BY <1>2, <1>4, <1>5

\* The segments that a cut leaves end at its position.
LEMMA CutSegments ==
  ASSUME NEW s \in Seq(Seg), \A i \in 1..Len(s) : s[i].start = StartsAt(s, i),
         NEW position \in Nat, position <= EndOf(s),
         NEW keep, keep = SegmentsBefore(s, position)
  PROVE  CutBack(s, Shortened(SubSeq(s, 1, keep), position), keep, position)
<1> DEFINE t == SubSeq(s, 1, keep)
           v == Most(0, position - s[keep].start)
           u == Shortened(t, position)
<1>1. /\ keep \in 0..Len(s) /\ (keep = 0 => position = 0)
      /\ keep # 0 => /\ s[keep].start < position
                     /\ position <= s[keep].start + s[keep].committed
  BY LastKept
<1>2. Len(s) \in Nat /\ keep \in Nat
  BY <1>1, LenProperties
<1>3. /\ t \in Seq(Seg) /\ Len(t) = keep /\ \A i \in 1..keep : t[i] = s[i]
  BY <1>1, FirstSegments
<1> HIDE DEF t
<1>4. CASE keep = 0
  <2>1. u = t
    BY <1>3, <1>4 DEF Shortened
  <2>2. EndOf(t) = position
    BY <1>1, <1>3, <1>4 DEF EndOf, StartsAt
  <2> HIDE DEF u
  <2>3. CutBack(s, u, keep, position)
    BY <1>1, <1>3, <1>4, <2>1, <2>2 DEF CutBack
  <2> QED
    BY <2>3 DEF u, t
<1>5. CASE keep # 0
  <2>1. keep \in 1..Len(s) /\ keep \in 1..keep /\ Len(t) > 0 /\ t[Len(t)] = s[keep]
    BY <1>1, <1>2, <1>3, <1>5
  <2>2. s[keep] \in Seg /\ s[keep].start \in Nat /\ s[keep].committed \in Nat
    <3>1. s[keep] \in Seg
      BY <2>1, ElementOfSeq
    <3> QED
      BY <3>1 DEF Seg
  <2>3. /\ v \in 1..s[keep].committed /\ s[keep].start + v = position
        /\ ~(v < s[keep].committed) => v = s[keep].committed
    <3>1. s[keep].start < position /\ position <= s[keep].start + s[keep].committed
      BY <1>1, <1>5
    <3> QED
      BY <2>2, <3>1, ShortenedNumbers, Zenon
  <2>4. v \in Nat
    BY <2>2, <2>3
  <2> HIDE DEF v
  <2>5. /\ u \in Seq(Seg) /\ Len(u) = keep
        /\ \A i \in 1..keep : i # keep => u[i] = s[i]
        /\ u[keep].start = s[keep].start /\ u[keep].cap = s[keep].cap
        /\ u[keep].storage = s[keep].storage
        /\ u[keep].committed = v
    <3>1. CASE v < s[keep].committed
      <4> DEFINE e == [s[keep] EXCEPT !.committed = v]
      <4>1. u = [t EXCEPT ![keep] = e]
        <5>1. u = [t EXCEPT ![keep].committed = v]
          BY <1>3, <2>1, <3>1, Zenon DEF Shortened, v
        <5> QED
          BY <1>3, <2>1, <5>1
      <4>2. /\ e \in Seg /\ e.committed = v /\ e.start = s[keep].start
            /\ e.cap = s[keep].cap /\ e.storage = s[keep].storage
        BY <2>2, <2>4, SegExcept
      <4> HIDE DEF e
      <4>3. /\ [t EXCEPT ![keep] = e] \in Seq(Seg)
            /\ Len([t EXCEPT ![keep] = e]) = Len(t)
            /\ \A j \in 1..Len(t) : [t EXCEPT ![keep] = e][j] = IF j = keep THEN e ELSE t[j]
        BY <1>3, <2>1, <4>2, ExceptSeq
      <4> HIDE DEF u
      <4> QED
        BY <1>3, <2>1, <4>1, <4>2, <4>3
    <3>2. CASE ~(v < s[keep].committed)
      <4>1. u = t
        BY <1>3, <2>1, <3>2, Zenon DEF Shortened, v
      <4>2. v = s[keep].committed
        BY <2>3, <3>2
      <4> HIDE DEF u
      <4> QED
        BY <1>3, <2>1, <4>1, <4>2
    <3> QED
      BY <3>1, <3>2
  <2> HIDE DEF u
  <2>6. EndOf(u) = position
    <3>1. Len(u) + 1 # 1 /\ Len(u) + 1 - 1 = keep
      BY <1>2, <1>5, <2>5
    <3>2. EndOf(u) = u[keep].start + u[keep].committed
      BY <3>1 DEF EndOf, StartsAt
    <3> QED
      BY <2>3, <2>5, <3>2
  <2>7. CutBack(s, u, keep, position)
    BY <1>1, <1>2, <2>3, <2>5, <2>6 DEF CutBack
  <2> QED
    BY <2>7 DEF u, t
<1> QED
  BY <1>4, <1>5

\* A prefix of the segments of a cache starts where the cache says.
LEMMA PeeledStarts ==
  ASSUME NEW kv \in KvType, WellFormed(kv), NEW s, NEW r,
         NEW m \in 0..Len(kv.segs), Peeled(kv.segs, s, r, m)
  PROVE  \A i \in 1..Len(s) : s[i].start = StartsAt(s, i)
<1>1. Len(kv.segs) \in Nat /\ m \in Nat /\ Len(s) = m /\ \A i \in 1..m : s[i] = kv.segs[i]
  BY KvFields DEF Peeled
<1> SUFFICES ASSUME NEW i \in 1..m
             PROVE  s[i].start = StartsAt(s, i)
  BY <1>1
<1>2. i \in 1..Len(kv.segs) /\ (i # 1 => i - 1 \in 1..m)
  BY <1>1
<1>3. kv.segs[i].start = StartsAt(kv.segs, i)
  BY <1>2, WellFormedParts
<1>4. StartsAt(s, i) = StartsAt(kv.segs, i)
  <2>1. CASE i = 1
    BY <2>1 DEF StartsAt
  <2>2. CASE i # 1
    BY <1>1, <1>2, <2>2 DEF StartsAt
  <2> QED
    BY <2>1, <2>2
<1> QED
  BY <1>1, <1>3, <1>4

\* A cache whose position or revision is set.
LEMMA CacheExcept ==
  ASSUME NEW kv, NEW s, NEW a, NEW b
  PROVE  /\ \A x : [CacheOf(kv, s, a, b) EXCEPT !.pos = x] = CacheOf(kv, s, x, b)
         /\ \A x : [CacheOf(kv, s, a, b) EXCEPT !.rev = x] = CacheOf(kv, s, a, x)
         /\ CacheOf(kv, s, a, b).rev = b
BY DEF CacheOf

\* What is left of a cache by a cut back to a position, and the rollback.
LEMMA CutShape ==
  ASSUME NEW kv \in KvType, WellFormed(kv), NEW position \in Nat, position <= kv.pos
  PROVE  \E u \in Seq(Seg), r \in Seq(Seg), keep \in 0..Len(kv.segs), inc \in 0..2 :
           /\ CutTo(kv, position) =
                [ok |-> kv.rev + inc <= MaxRevision,
                 st |-> [kv |-> CacheOf(kv, u, position, kv.rev + inc),
                         rb |-> RollbackOf(kv, r)]]
           /\ CutBack(kv.segs, u, keep, position)
           /\ Undoes(kv.segs, u, r)
           /\ inc = 0 => u = kv.segs
<1>1. PICK m \in 0..Len(kv.segs), s \in Seq(Seg), r \in Seq(Seg) :
        /\ DetachPending(Begun(kv)) = StageOf(kv, s, r)
        /\ Peeled(kv.segs, s, r, m)
        /\ \A i \in 1..m : s[i].committed # 0
        /\ EndOf(s) = kv.pos
  BY DetachStage
<1>2. PICK keep : keep = SegmentsBefore(s, position)
  OBVIOUS
<1> DEFINE t == SubSeq(s, 1, keep)
           q == r \o Reversed(SubSeq(s, keep + 1, Len(s)))
           u == Shortened(t, position)
<1>3. \A i \in 1..Len(s) : s[i].start = StartsAt(s, i)
  BY <1>1, PeeledStarts
<1>4. CutBack(s, u, keep, position)
  BY <1>1, <1>2, <1>3, CutSegments
<1>5. /\ kv.segs \in Seq(Seg) /\ Len(kv.segs) \in Nat /\ Len(s) = m
      /\ \A i \in 1..m : s[i] = kv.segs[i]
  BY <1>1, KvFields DEF Peeled
<1>6. keep \in 0..m /\ keep \in 0..Len(kv.segs) /\ u \in Seq(Seg) /\ Len(u) = keep
  BY <1>4, <1>5 DEF CutBack
<1>7. Peeled(kv.segs, t, q, keep)
  BY <1>1, <1>5, <1>6, PeelMore
<1>8. t \in Seq(Seg) /\ q \in Seq(Seg) /\ Len(t) = keep
  BY <1>7 DEF Peeled
<1> HIDE DEF t, q, u
<1>9. CutBack(kv.segs, u, keep, position)
  BY <1>4, <1>5, <1>6 DEF CutBack
<1>10. Undoes(kv.segs, u, q)
  <2>1. Undoes(kv.segs, t, q)
    BY <1>5, <1>6, <1>7, PeeledUndoes
  <2>2. /\ Len(t) + Len(q) = Len(kv.segs)
        /\ \A i \in 1..Len(q) : q[i] = kv.segs[Len(kv.segs) + 1 - i]
    BY <2>1 DEF Undoes
  <2> QED
    BY <1>6, <1>8, <1>9, <2>2 DEF CutBack, Undoes
<1>11. ShortenTail(RemoveSegmentsAtOrAfter(StageOf(kv, s, r), position), position)
         = StageOf(kv, u, q)
  <2>1. RemoveSegmentsAtOrAfter(StageOf(kv, s, r), position) = StageOf(kv, t, q)
    BY <1>2, RemoveStage DEF t, q
  <2> QED
    BY <1>8, <2>1, ShortenStage DEF u
<1>12. CutTo(kv, position) =
         FinishStagedRevision(kv, StageOf(kv, s, r), StageOf(kv, u, q), position)
  BY <1>1, <1>11, Zenon DEF CutTo
<1> DEFINE removed == kv.pending # NoRange
           changed == removed \/ StageOf(kv, u, q).kv.segs # StageOf(kv, s, r).kv.segs
           inc == (IF removed THEN 1 ELSE 0)
                  + (IF changed \/ kv.pos = position THEN 1 ELSE 0)
<1>13. inc \in 0..2
  <2> HIDE DEF removed, changed
  <2> QED
    OBVIOUS
<1>16. inc = 0 => u = kv.segs
  <2> SUFFICES ASSUME inc = 0
               PROVE  u = kv.segs
    OBVIOUS
  <2>1. ~removed /\ ~changed
    <3> HIDE DEF removed, changed
    <3> QED
      OBVIOUS
  <2>2. u = s
    <3>1. StageOf(kv, u, q).kv.segs = u /\ StageOf(kv, s, r).kv.segs = s
      BY <1>6, <1>8, StageFacts
    <3> QED
      BY <2>1, <3>1, Zenon
  <2>3. DetachPending(Begun(kv)) = Begun(kv) /\ Begun(kv).kv = kv
    BY <2>1 DEF DetachPending, Begun
  <2>4. StageOf(kv, s, r).kv = kv /\ StageOf(kv, s, r).kv.segs = s
    BY <1>1, <2>3, StageFacts, ZenonT(60)
  <2> QED
    BY <2>2, <2>4, Zenon
<1>14. FinishStagedRevision(kv, StageOf(kv, s, r), StageOf(kv, u, q), position) =
         [ok |-> kv.rev + inc <= MaxRevision,
          st |-> [StageOf(kv, u, q) EXCEPT !.kv.pos = position, !.kv.rev = @ + inc]]
  BY Zenon DEF FinishStagedRevision
<1> HIDE DEF inc
<1>15. [StageOf(kv, u, q) EXCEPT !.kv.pos = position, !.kv.rev = @ + inc] =
         [kv |-> CacheOf(kv, u, position, kv.rev + inc), rb |-> RollbackOf(kv, q)]
  <2> DEFINE R == RollbackOf(kv, q)
             st0 == [kv |-> CacheOf(kv, u, kv.pos, kv.rev), rb |-> R]
             st1 == [kv |-> CacheOf(kv, u, position, kv.rev), rb |-> R]
             st2 == [kv |-> CacheOf(kv, u, position, kv.rev + inc), rb |-> R]
  <2>1. [st0 EXCEPT !.kv.pos = position] = st1
    BY CacheExcept DEF CacheOf
  <2>2. [st1 EXCEPT !.kv.rev = @ + inc] = st2
    BY CacheExcept DEF CacheOf
  <2>3. StageOf(kv, u, q) = st0
    BY DEF StageOf
  <2> HIDE DEF st0, st1, st2
  <2>4. [st0 EXCEPT !.kv.pos = position, !.kv.rev = @ + inc] =
          [[st0 EXCEPT !.kv.pos = position] EXCEPT !.kv.rev = @ + inc]
    OBVIOUS
  <2> QED
    BY <2>1, <2>2, <2>3, <2>4, Zenon DEF st2
<1> QED
  BY <1>6, <1>8, <1>9, <1>10, <1>12, <1>13, <1>14, <1>15, <1>16, Zenon

\* A cut leaves a well-formed cache that ends at the position, or can be
\* undone where the layout revision is exhausted.
LEMMA CutFacts ==
  ASSUME NEW X, NEW kv, KvOK(kv, X), NEW position \in Nat, position <= kv.pos,
         NEW c, c = CutTo(kv, position)
  PROVE  /\ c.ok \in BOOLEAN /\ Recovers(kv, c.st)
         /\ c.ok => /\ KvOK(c.st.kv, X) /\ c.st.kv.pos = position
                    /\ c.st.kv.ctx = kv.ctx /\ c.st.kv.pending = NoRange
<1>1. kv \in KvType /\ WellFormed(kv) /\ Within(kv, X)
  BY DEF KvOK
<1>2. PICK u \in Seq(Seg), r \in Seq(Seg), keep \in 0..Len(kv.segs), inc \in 0..2 :
        /\ c = [ok |-> kv.rev + inc <= MaxRevision,
                st |-> [kv |-> CacheOf(kv, u, position, kv.rev + inc),
                        rb |-> RollbackOf(kv, r)]]
        /\ CutBack(kv.segs, u, keep, position)
        /\ Undoes(kv.segs, u, r)
  BY <1>1, CutShape
<1> DEFINE new == CacheOf(kv, u, position, kv.rev + inc)
<1>3. /\ c.ok = (kv.rev + inc <= MaxRevision) /\ c.st.kv = new
      /\ c.st = [kv |-> new, rb |-> RollbackOf(kv, r)]
  BY <1>2
<1>4. /\ new.segs = u /\ new.pos = position /\ new.ctx = kv.ctx
      /\ new.rev = kv.rev + inc /\ new.pending = NoRange
  BY DEF CacheOf
<1>5. /\ kv.pos \in Nat /\ kv.ctx \in Nat /\ kv.rev \in Nat /\ kv.graph \in TokenType
      /\ Len(kv.segs) \in Nat /\ kv.pos <= kv.ctx
  BY <1>1, KvFields, WellFormedParts
<1>6. new \in KvType
  <2>1. kv.rev + inc \in Nat
    BY <1>5
  <2> QED
    BY <1>5, <2>1, KvRecord, NoRangeType DEF CacheOf
<1> HIDE DEF new
<1>7. /\ Len(u) = keep /\ keep <= Len(kv.segs) /\ EndOf(u) = position
      /\ \A i \in 1..keep :
           /\ u[i].start = kv.segs[i].start /\ u[i].cap = kv.segs[i].cap
           /\ u[i].storage = kv.segs[i].storage
           /\ i < keep => u[i].committed = kv.segs[i].committed
           /\ i = keep => u[i].committed \in 1..kv.segs[i].committed
  BY <1>2, <1>5 DEF CutBack
<1>8. new.pos <= new.ctx
  BY <1>4, <1>5
<1>9. WellFormed(new)
  <2>1. /\ Len(new.segs) <= Len(kv.segs)
        /\ \A i \in 1..Len(new.segs) :
             /\ new.segs[i].start = kv.segs[i].start
             /\ new.segs[i].cap = kv.segs[i].cap
             /\ i < Len(new.segs) => new.segs[i].committed = kv.segs[i].committed
             /\ i = Len(new.segs) => new.segs[i].committed \in 1..kv.segs[i].committed
        /\ new.pos = EndOf(new.segs)
    BY <1>4, <1>7, Zenon
  <2> QED
    BY <1>1, <1>4, <1>6, <1>8, <2>1, PrefixWellFormed
<1>10. Within(new, X)
  <2>1. ASSUME NEW i \in 1..Len(u)
        PROVE  u[i].storage \in X
    <3>1. i \in 1..Len(kv.segs) /\ u[i].storage = kv.segs[i].storage
      BY <1>5, <1>7, SMTT(40)
    <3> QED
      BY <1>1, <3>1 DEF Within
  <2> QED
    BY <1>4, <2>1 DEF Within
<1>11. Recovers(kv, c.st)
  BY <1>1, <1>2, <1>3, <1>4, <1>6, StageRecovers
<1>12. c.ok \in BOOLEAN /\ (c.ok => new.rev <= MaxRevision)
  <2>1. (kv.rev + inc <= MaxRevision) \in BOOLEAN
    OBVIOUS
  <2>2. c.ok \in BOOLEAN
    BY <1>3, <2>1, Zenon
  <2>3. c.ok => kv.rev + inc <= MaxRevision
    BY <1>3, Zenon
  <2> QED
    BY <1>4, <2>2, <2>3, Zenon
<1> QED
  BY <1>3, <1>4, <1>6, <1>9, <1>10, <1>11, <1>12 DEF KvOK

-------------------------------------------------------------------------------
(* The operations of the cache. *)

(* An operation on kv leaves a cache in order, or kv itself. *)
Sound(result, kv, X) ==
    /\ result.ok \in BOOLEAN
    /\ result.ok => KvOK(result.kv, X)
    /\ ~result.ok => result.kv = kv

\* A stage that can be undone is, exactly.
LEMMA RolledBack ==
  ASSUME NEW kv \in KvType, NEW st, Recovers(kv, st)
  PROVE  Rolled(st) = Refused(kv) /\ Rolled(st).ok = FALSE /\ Rolled(st).kv = kv
BY RestoreExact DEF Rolled, Refused

\* A refusal changes nothing.
LEMMA RefusedSound ==
  ASSUME NEW kv, NEW X
  PROVE  Sound(Refused(kv), kv, X)
BY DEF Sound, Refused

\* A success leaves what it is given.
LEMMA KeptSound ==
  ASSUME NEW kv, NEW X, NEW new, KvOK(new, X)
  PROVE  Sound(Kept(new), kv, X) /\ Kept(new).ok = TRUE /\ Kept(new).kv = new
BY DEF Sound, Kept

\* KvState::truncate: the cache ends at the position, or nothing changes.
LEMMA TruncateSound ==
  ASSUME NEW X, NEW kv, KvOK(kv, X), NEW position \in Nat
  PROVE  /\ Sound(Truncate(kv, position), kv, X)
         /\ Truncate(kv, position).ok =>
              /\ Truncate(kv, position).kv.pos = position
              /\ Truncate(kv, position).kv.ctx = kv.ctx
              /\ Truncate(kv, position).kv.pending = NoRange
<1>1. kv \in KvType /\ kv.pos \in Nat
  BY KvFields DEF KvOK
<1>2. CASE position > kv.pos
  <2>1. Truncate(kv, position) = Refused(kv)
    BY <1>2 DEF Truncate
  <2> QED
    BY <2>1, RefusedSound DEF Refused
<1>3. CASE ~(position > kv.pos)
  <2>1. PICK c : c = CutTo(kv, position)
    OBVIOUS
  <2>2. position <= kv.pos
    BY <1>1, <1>3
  <2>3. /\ c.ok \in BOOLEAN /\ Recovers(kv, c.st)
        /\ c.ok => /\ KvOK(c.st.kv, X) /\ c.st.kv.pos = position
                   /\ c.st.kv.ctx = kv.ctx /\ c.st.kv.pending = NoRange
    BY <2>1, <2>2, CutFacts
  <2>4. Truncate(kv, position) = IF c.ok THEN Kept(c.st.kv) ELSE Rolled(c.st)
    BY <1>3, <2>1, Zenon DEF Truncate
  <2>5. CASE c.ok
    BY <2>3, <2>4, <2>5, KeptSound DEF Kept
  <2>6. CASE ~c.ok
    <3>1. Truncate(kv, position) = Refused(kv)
      BY <1>1, <2>3, <2>4, <2>6, RolledBack, Zenon
    <3>2. ~Refused(kv).ok
      BY DEF Refused
    <3> QED
      BY <3>1, <3>2, RefusedSound, Zenon
  <2> QED
    BY <2>5, <2>6
<1> QED
  BY <1>2, <1>3

(* The target of an append of `tokens` at the end of the committed prefix. *)
TargetFits(kv, tokens) ==
    /\ Len(kv.segs) >= 1
    /\ kv.pos - kv.segs[Len(kv.segs)].start + tokens <= kv.segs[Len(kv.segs)].cap
    /\ kv.pos + tokens <= kv.ctx

\* A cache whose last segment has room is well-formed with a target there.
LEMMA Retargeted ==
  ASSUME NEW X, NEW kv, KvOK(kv, X), NEW new \in KvType, NEW tokens \in Nat \ {0},
         TargetFits(kv, tokens),
         new.segs = kv.segs, new.pos = kv.pos, new.ctx = kv.ctx,
         new.rev <= MaxRevision,
         new.pending = Target(kv, tokens, Len(kv.segs))
  PROVE  KvOK(new, X) /\ new.pending # NoRange
<1>1. kv \in KvType /\ WellFormed(kv) /\ Within(kv, X)
  BY DEF KvOK
<1>2. Len(kv.segs) \in Nat
  BY <1>1, KvFields
<1>3. /\ new.pending.start = kv.pos /\ new.pending.index = Len(kv.segs)
      /\ new.pending.tokens = tokens
  BY DEF Target
<1>4. new.pending # NoRange
  BY <1>2, <1>3, NoRangeType DEF TargetFits
<1>5. /\ \A i \in 1..Len(kv.segs) :
           /\ kv.segs[i].start = StartsAt(kv.segs, i)
           /\ kv.segs[i].committed <= kv.segs[i].cap
      /\ kv.pos = EndOf(kv.segs) /\ kv.pos <= kv.ctx
  BY <1>1, WellFormedParts
<1>6. \A i \in 1..Len(kv.segs) : kv.segs[i].committed = 0 => i = Len(kv.segs)
  BY <1>1, OnlyTargetEmpty
<1>7. WellFormed(new)
  <2>1. /\ \A i \in 1..Len(new.segs) :
             /\ new.segs[i].start = StartsAt(new.segs, i)
             /\ new.segs[i].committed <= new.segs[i].cap
             /\ new.segs[i].committed = 0 => new.pending.index = i
        /\ new.pos = EndOf(new.segs) /\ new.pos <= new.ctx
    BY <1>3, <1>5, <1>6, Zenon
  <2>2. /\ new.pending.start = new.pos /\ new.pending.index = Len(new.segs)
        /\ new.pos - new.segs[Len(new.segs)].start + new.pending.tokens
             <= new.segs[Len(new.segs)].cap
        /\ new.pos + new.pending.tokens <= new.ctx
    BY <1>3, Zenon DEF TargetFits
  <2> QED
    BY <2>1, <2>2, WellFormedParts
<1>8. Within(new, X)
  BY <1>1 DEF Within
<1>9. new.pending.tokens >= 1
  BY <1>3
<1> QED
  BY <1>4, <1>7, <1>8, <1>9 DEF KvOK

\* A cache without a pending append is well-formed with an empty segment for
\* one behind the others.
LEMMA Extended ==
  ASSUME NEW X, NEW kv, KvOK(kv, X), kv.pending = NoRange, NEW new \in KvType,
         NEW tokens \in Nat \ {0}, NEW seg \in Seg,
         seg.start = kv.pos, seg.committed = 0, seg.storage \in X,
         tokens <= seg.cap, kv.pos + tokens <= kv.ctx,
         new.segs = Append(kv.segs, seg), new.pos = kv.pos, new.ctx = kv.ctx,
         new.rev <= MaxRevision,
         new.pending = Target(kv, tokens, Len(kv.segs) + 1)
  PROVE  KvOK(new, X) /\ new.pending # NoRange
<1>1. kv \in KvType /\ WellFormed(kv) /\ Within(kv, X)
  BY DEF KvOK
<1>2. kv.segs \in Seq(Seg) /\ Len(kv.segs) \in Nat /\ kv.pos \in Nat /\ kv.ctx \in Nat
  BY <1>1, KvFields
<1>3. /\ new.pending.start = kv.pos /\ new.pending.index = Len(kv.segs) + 1
      /\ new.pending.tokens = tokens
  BY DEF Target
<1>4. new.pending # NoRange
  BY <1>2, <1>3, NoRangeType
<1>5. /\ \A i \in 1..Len(kv.segs) :
           /\ kv.segs[i].start = StartsAt(kv.segs, i)
           /\ kv.segs[i].committed <= kv.segs[i].cap
           /\ kv.segs[i].committed # 0
      /\ kv.pos = EndOf(kv.segs) /\ kv.pos <= kv.ctx
  BY <1>1, WellFormedParts, OnlyTargetEmpty
<1>6. /\ Len(new.segs) = Len(kv.segs) + 1
      /\ \A i \in 1..Len(kv.segs) : new.segs[i] = kv.segs[i]
      /\ new.segs[Len(kv.segs) + 1] = seg
  BY <1>2, AppendProperties
<1> DEFINE n == Len(kv.segs)
<1>7. seg.cap \in Nat
  BY DEF Seg
<1>8. \A i \in 1..n + 1 : StartsAt(new.segs, i) = StartsAt(kv.segs, i)
  <2> SUFFICES ASSUME NEW i \in 1..n + 1
               PROVE  StartsAt(new.segs, i) = StartsAt(kv.segs, i)
    OBVIOUS
  <2>1. CASE i = 1
    BY <2>1 DEF StartsAt
  <2>2. CASE i # 1
    <3>1. i - 1 \in 1..n
      BY <1>2, <2>2
    <3> QED
      BY <1>6, <2>2, <3>1 DEF StartsAt
  <2> QED
    BY <2>1, <2>2
<1>9. \A i \in 1..n + 1 :
        /\ new.segs[i].start = StartsAt(new.segs, i)
        /\ new.segs[i].committed <= new.segs[i].cap
        /\ new.segs[i].committed = 0 => new.pending.index = i
  <2> SUFFICES ASSUME NEW i \in 1..n + 1
               PROVE  /\ new.segs[i].start = StartsAt(new.segs, i)
                      /\ new.segs[i].committed <= new.segs[i].cap
                      /\ new.segs[i].committed = 0 => new.pending.index = i
    OBVIOUS
  <2>1. StartsAt(new.segs, i) = StartsAt(kv.segs, i)
    BY <1>8
  <2>2. CASE i \in 1..n
    BY <1>5, <1>6, <2>1, <2>2
  <2>3. CASE i = n + 1
    <3>1. new.segs[i] = seg /\ new.pending.index = i
      BY <1>3, <1>6, <2>3
    <3>2. seg.start = StartsAt(kv.segs, i)
      BY <1>5, <2>3 DEF EndOf
    <3>3. seg.committed <= seg.cap
      BY <1>7
    <3> QED
      BY <2>1, <3>1, <3>2, <3>3
  <2> QED
    BY <1>2, <2>2, <2>3
<1>10. new.pos = EndOf(new.segs)
  <2>1. StartsAt(new.segs, (n + 1) + 1) = new.segs[n + 1].start + new.segs[n + 1].committed
    <3>1. (n + 1) + 1 # 1 /\ (n + 1) + 1 - 1 = n + 1
      BY <1>2
    <3> QED
      BY <3>1 DEF StartsAt
  <2>2. EndOf(new.segs) = seg.start + seg.committed
    BY <1>6, <2>1 DEF EndOf
  <2> QED
    BY <1>2, <2>2
<1>11. kv.pos - seg.start + tokens <= seg.cap
  BY <1>2, <1>7
<1>12. WellFormed(new)
  <2>1. \A i \in 1..Len(new.segs) :
          /\ new.segs[i].start = StartsAt(new.segs, i)
          /\ new.segs[i].committed <= new.segs[i].cap
          /\ new.segs[i].committed = 0 => new.pending.index = i
    BY <1>6, <1>9, Zenon
  <2>2. new.pos <= new.ctx
    BY <1>5, Zenon
  <2>3. /\ new.pending.start = new.pos /\ new.pending.index = Len(new.segs)
        /\ new.pos - new.segs[Len(new.segs)].start + new.pending.tokens
             <= new.segs[Len(new.segs)].cap
        /\ new.pos + new.pending.tokens <= new.ctx
    BY <1>3, <1>6, <1>11, Zenon
  <2> QED
    BY <1>10, <2>1, <2>2, <2>3, WellFormedParts
<1>13. Within(new, X)
  <2>1. ASSUME NEW i \in 1..Len(new.segs)
        PROVE  new.segs[i].storage \in X
    <3>1. CASE i \in 1..n
      BY <1>1, <1>6, <3>1 DEF Within
    <3>2. CASE i = n + 1
      BY <1>6, <3>2
    <3>3. i \in 1..n \/ i = n + 1
      BY <1>2, <1>6
    <3> QED
      BY <3>1, <3>2, <3>3
  <2> QED
    BY <2>1 DEF Within
<1>14. new.pending.tokens >= 1
  BY <1>3
<1> QED
  BY <1>4, <1>12, <1>13, <1>14 DEF KvOK

(* The storages of a device, and what it may be asked for. *)
Operands(X, tokens, growth, fresh) ==
    /\ X \subseteq Nat \ {NoStorage} /\ tokens \in Nat \ {0} /\ growth \in Nat
    /\ fresh \in X \cup {NoStorage}

(* A successful append has `tokens` pending at the end of kv. *)
Appends(result, kv, tokens) ==
    result.ok => /\ result.kv.pos = kv.pos /\ result.kv.ctx = kv.ctx
                 /\ result.kv.pending # NoRange /\ result.kv.pending.tokens = tokens

\* The capacity of a new segment.
LEMMA NewCapacity ==
  ASSUME NEW tokens \in Nat, NEW growth \in Nat, NEW ctx \in Nat, NEW pos \in Nat,
         pos + tokens <= ctx
  PROVE  LET cap == Least(Most(growth, tokens), ctx - pos)
         IN cap \in Nat /\ tokens <= cap
BY DEF Least, Most

\* allocate_append: a new segment behind the others, or the rollback.
LEMMA AllocateSound ==
  ASSUME NEW X, NEW kv, kv \in KvType, NEW st, Recovers(kv, st), KvOK(st.kv, X),
         st.kv.pending = NoRange, NEW tokens, NEW growth, NEW fresh,
         Operands(X, tokens, growth, fresh), st.kv.pos + tokens <= st.kv.ctx,
         NEW r, r = AllocateAppend(st, tokens, growth, fresh)
  PROVE  Sound(r, kv, X) /\ Appends(r, st.kv, tokens)
<1> DEFINE old == st.kv
           cap == Least(Most(growth, tokens), old.ctx - old.pos)
           seg == [start |-> old.pos, committed |-> 0, storage |-> fresh, cap |-> cap]
           target == Target(old, tokens, Len(old.segs) + 1)
           segs == Append(old.segs, seg)
           rev == old.rev + 1
           new == [old EXCEPT !.segs = segs, !.rev = rev, !.pending = target]
<1>1. /\ r = IF old.rev < MaxRevision /\ fresh # NoStorage
             THEN Kept([old EXCEPT !.segs = Append(@, seg), !.rev = @ + 1,
                                   !.pending = target])
             ELSE Rolled(st)
  BY Zenon DEF AllocateAppend
<1>2. /\ old \in KvType /\ WellFormed(old) /\ tokens \in Nat \ {0} /\ growth \in Nat
      /\ X \subseteq Nat \ {NoStorage} /\ fresh \in X \cup {NoStorage}
  BY DEF KvOK, Operands
<1>3. /\ old.segs \in Seq(Seg) /\ Len(old.segs) \in Nat /\ old.pos \in Nat
      /\ old.ctx \in Nat /\ old.rev \in Nat
  BY <1>2, KvFields
<1>4. CASE ~(old.rev < MaxRevision /\ fresh # NoStorage)
  <2>1. r = Refused(kv)
    BY <1>1, <1>4, RolledBack, Zenon
  <2>2. ~Refused(kv).ok
    BY DEF Refused
  <2> QED
    BY <2>1, <2>2, RefusedSound, Zenon DEF Appends
<1>5. CASE old.rev < MaxRevision /\ fresh # NoStorage
  <2>1. cap \in Nat /\ tokens <= cap
    <3>1. old.pos + tokens <= old.ctx /\ tokens \in Nat
      BY <1>2
    <3> QED
      BY <1>2, <1>3, <3>1, NewCapacity, Zenon
  <2> HIDE DEF cap
  <2>2. fresh \in X /\ fresh \in Nat
    BY <1>2, <1>5
  <2>3. /\ seg \in Seg /\ seg.start = old.pos /\ seg.committed = 0
        /\ seg.storage = fresh /\ seg.cap = cap
    BY <1>3, <2>1, <2>2 DEF Seg
  <2> HIDE DEF seg
  <2>4. segs \in Seq(Seg) /\ rev \in Nat /\ rev <= MaxRevision
    <3>1. segs \in Seq(Seg)
      BY <1>3, <2>3, AppendProperties
    <3>2. rev \in Nat /\ rev <= MaxRevision
      BY <1>3, <1>5, RevisionAssumption
    <3> QED
      BY <3>1, <3>2
  <2>5. /\ target \in TargetType /\ target.tokens = tokens
    BY <1>2, <1>3 DEF Target, TargetType
  <2>6. [old EXCEPT !.segs = Append(@, seg), !.rev = @ + 1, !.pending = target] = new
    BY <1>2 DEF KvType
  <2> HIDE DEF segs, rev, target, old
  <2>7. /\ new \in KvType /\ new.segs = segs /\ new.pos = old.pos /\ new.ctx = old.ctx
        /\ new.rev = rev /\ new.pending = target
    BY <1>2, <2>4, <2>5 DEF KvType
  <2> HIDE DEF new
  <2>8. KvOK(new, X) /\ new.pending # NoRange
    <3>1. KvOK(old, X) /\ old.pending = NoRange /\ old.pos + tokens <= old.ctx
      BY DEF old
    <3>2. /\ new.segs = Append(old.segs, seg)
          /\ new.pending = Target(old, tokens, Len(old.segs) + 1)
      BY <2>7 DEF segs, target
    <3>3. /\ tokens <= seg.cap /\ seg.storage \in X /\ new.rev <= MaxRevision
      BY <2>1, <2>2, <2>3, <2>4, <2>7
    <3> QED
      BY <1>2, <2>3, <2>7, <3>1, <3>2, <3>3, Extended
  <2>9. r = Kept(new)
    BY <1>1, <1>5, <2>6, Zenon DEF old
  <2>10. r.ok /\ r.kv = new /\ Sound(r, kv, X)
    BY <2>8, <2>9, KeptSound, Zenon
  <2>11. Appends(r, old, tokens)
    BY <2>5, <2>7, <2>8, <2>10, Zenon DEF Appends
  <2> QED
    BY <2>10, <2>11 DEF old
<1> QED
  BY <1>4, <1>5

\* A cache with another target, or another revision.
LEMMA KvUpdates ==
  ASSUME NEW kv \in KvType, NEW p \in TargetType, NEW v \in Nat
  PROVE  /\ LET new == [kv EXCEPT !.pending = p]
            IN /\ new \in KvType /\ new.segs = kv.segs /\ new.pos = kv.pos
               /\ new.ctx = kv.ctx /\ new.rev = kv.rev /\ new.pending = p
         /\ LET new == [kv EXCEPT !.pending = p, !.rev = v]
            IN /\ new \in KvType /\ new.segs = kv.segs /\ new.pos = kv.pos
               /\ new.ctx = kv.ctx /\ new.rev = v /\ new.pending = p
         /\ LET new == [kv EXCEPT !.rev = v]
            IN /\ new \in KvType /\ new.segs = kv.segs /\ new.pos = kv.pos
               /\ new.ctx = kv.ctx /\ new.rev = v /\ new.pending = kv.pending
BY DEF KvType

\* The tail with room for an append.
LEMMA RoomInTail ==
  ASSUME NEW kv \in KvType, NEW tokens \in Nat, NEW uniq,
         TailHasRoom(kv, tokens, uniq), kv.pos + tokens <= kv.ctx
  PROVE  TargetFits(kv, tokens)
<1>1. Len(kv.segs) \in Nat /\ kv.pos \in Nat
  BY KvFields
<1> DEFINE n == Len(kv.segs)
<1>2. /\ Len(kv.segs) > 0 /\ kv.segs[n].start + kv.segs[n].committed = kv.pos
      /\ kv.segs[n].cap - kv.segs[n].committed >= tokens
  BY DEF TailHasRoom, Final
<1>3. n \in 1..Len(kv.segs)
  BY <1>1, <1>2
<1>4. PICK a \in Nat, b \in Nat, c \in Nat :
        a = kv.segs[n].start /\ b = kv.segs[n].committed /\ c = kv.segs[n].cap
  BY <1>3, KvFields
<1>6. PICK e \in Nat : e = kv.pos
  BY <1>1
<1>7. a + b = e /\ c - b >= tokens
  BY <1>2, <1>4, <1>6, Zenon
<1>8. e - a + tokens <= c
  BY <1>7
<1>5. kv.pos - a + tokens <= c
  BY <1>6, <1>8
<1> QED
  BY <1>1, <1>2, <1>4, <1>5 DEF TargetFits

\* The placing of an append that has no target yet.
LEMMA PlaceSound ==
  ASSUME NEW X, NEW kv, kv \in KvType, NEW st, Recovers(kv, st), KvOK(st.kv, X),
         st.kv.pending = NoRange, NEW tokens, NEW growth, NEW fresh, NEW uniq,
         Operands(X, tokens, growth, fresh), st.kv.pos + tokens <= st.kv.ctx,
         NEW r, r = PlaceAppend(st, tokens, growth, uniq, fresh)
  PROVE  Sound(r, kv, X) /\ Appends(r, st.kv, tokens)
<1> DEFINE old == st.kv
           target == Target(old, tokens, Len(old.segs))
           new == [old EXCEPT !.pending = target]
<1>1. CASE ~TailHasRoom(st.kv, tokens, uniq)
  <2>1. r = AllocateAppend(st, tokens, growth, fresh)
    BY <1>1 DEF PlaceAppend
  <2> QED
    BY <2>1, AllocateSound
<1>2. CASE TailHasRoom(st.kv, tokens, uniq)
  <2>1. r = Kept(new)
    BY <1>2, Zenon DEF PlaceAppend
  <2>2. old \in KvType /\ tokens \in Nat \ {0} /\ old.rev <= MaxRevision
    BY DEF KvOK, Operands
  <2>3. target \in TargetType /\ target.tokens = tokens
    BY <2>2, KvFields DEF Target, TargetType
  <2>4. /\ new \in KvType /\ new.segs = old.segs /\ new.pos = old.pos
        /\ new.ctx = old.ctx /\ new.rev = old.rev /\ new.pending = target
    <3> HIDE DEF target, old
    <3> QED
      BY <2>2, <2>3, KvUpdates, ZenonT(60)
  <2>5. TargetFits(old, tokens)
    BY <1>2, <2>2, RoomInTail
  <2> HIDE DEF new
  <2>6. KvOK(new, X) /\ new.pending # NoRange
    BY <2>2, <2>4, <2>5, Retargeted
  <2>7. r.ok /\ r.kv = new /\ Sound(r, kv, X)
    BY <2>1, <2>6, KeptSound, Zenon
  <2> HIDE DEF old, target
  <2>8. Appends(r, old, tokens)
    BY <2>3, <2>4, <2>6, <2>7, Zenon DEF Appends
  <2> QED
    BY <2>7, <2>8 DEF old
<1> QED
  BY <1>1, <1>2

\* The stage that has discarded the pending append.
LEMMA DiscardedStage ==
  ASSUME NEW X, NEW kv, KvOK(kv, X), kv.rev # MaxRevision,
         NEW st, st = [DetachPending(Begun(kv)) EXCEPT !.kv.rev = @ + 1]
  PROVE  /\ Recovers(kv, st) /\ KvOK(st.kv, X) /\ st.kv.pending = NoRange
         /\ st.kv.pos = kv.pos /\ st.kv.ctx = kv.ctx
<1>1. kv \in KvType /\ WellFormed(kv) /\ Within(kv, X) /\ kv.rev <= MaxRevision
  BY DEF KvOK
<1>2. PICK m \in 0..Len(kv.segs), s \in Seq(Seg), r \in Seq(Seg) :
        /\ DetachPending(Begun(kv)) = StageOf(kv, s, r)
        /\ Peeled(kv.segs, s, r, m)
        /\ \A i \in 1..m : s[i].committed # 0
        /\ EndOf(s) = kv.pos
  BY <1>1, DetachStage
<1> DEFINE v == kv.rev + 1
           new == CacheOf(kv, s, kv.pos, v)
<1>3. st = [kv |-> new, rb |-> RollbackOf(kv, r)]
  <2> DEFINE R == RollbackOf(kv, r)
             st0 == [kv |-> CacheOf(kv, s, kv.pos, kv.rev), rb |-> R]
  <2>1. [st0 EXCEPT !.kv.rev = @ + 1] = [kv |-> CacheOf(kv, s, kv.pos, kv.rev + 1), rb |-> R]
    BY CacheExcept DEF CacheOf
  <2>2. StageOf(kv, s, r) = st0
    BY DEF StageOf
  <2> QED
    BY <1>2, <2>1, <2>2, Zenon
<1>4. /\ kv.pos \in Nat /\ kv.ctx \in Nat /\ kv.rev \in Nat /\ kv.graph \in TokenType
      /\ Len(kv.segs) \in Nat /\ kv.pos <= kv.ctx /\ kv.segs \in Seq(Seg)
      /\ \A i \in 1..Len(kv.segs) : kv.segs[i].committed \in Nat
  BY <1>1, KvFields, WellFormedParts
<1>5. v \in Nat /\ v <= MaxRevision
  BY <1>1, <1>4, RevisionAssumption
<1> HIDE DEF v
<1>6. /\ new.segs = s /\ new.pos = kv.pos /\ new.ctx = kv.ctx
      /\ new.rev = v /\ new.pending = NoRange
  BY DEF CacheOf
<1>7. new \in KvType
  BY <1>4, <1>5, KvRecord, NoRangeType DEF CacheOf
<1> HIDE DEF new
<1>8. Len(s) = m /\ \A i \in 1..m : s[i] = kv.segs[i]
  BY <1>2 DEF Peeled
<1>9. WellFormed(new)
  <2>1. m \in Nat /\ m <= Len(kv.segs) /\ \A i \in 1..m : i \in 1..Len(kv.segs)
    BY <1>4
  <2>2. \A i \in 1..m : s[i].committed \in 1..kv.segs[i].committed
    BY <1>2, <1>4, <1>8, <2>1
  <2>3. /\ Len(new.segs) <= Len(kv.segs)
        /\ \A i \in 1..Len(new.segs) :
             /\ new.segs[i].start = kv.segs[i].start
             /\ new.segs[i].cap = kv.segs[i].cap
             /\ i < Len(new.segs) => new.segs[i].committed = kv.segs[i].committed
             /\ i = Len(new.segs) => new.segs[i].committed \in 1..kv.segs[i].committed
        /\ new.pos = EndOf(new.segs) /\ new.pos <= new.ctx
    BY <1>2, <1>4, <1>6, <1>8, <2>1, <2>2, Zenon
  <2> QED
    BY <1>1, <1>6, <1>7, <2>3, PrefixWellFormed
<1>10. Within(new, X)
  BY <1>1, <1>4, <1>6, <1>8 DEF Within
<1>11. KvOK(new, X)
  BY <1>5, <1>6, <1>7, <1>9, <1>10 DEF KvOK
<1>12. Undoes(kv.segs, new.segs, r)
  BY <1>2, <1>4, <1>6, PeeledUndoes
<1>13. Recovers(kv, [kv |-> new, rb |-> RollbackOf(kv, r)])
  BY <1>1, <1>7, <1>12, StageRecovers
<1>14. st.kv = new
  BY <1>3
<1> QED
  BY <1>3, <1>6, <1>11, <1>13, <1>14, Zenon

\* A target that is written in its segment fits there.
LEMMA WritableFits ==
  ASSUME NEW X, NEW kv, KvOK(kv, X), kv.pending # NoRange, NEW tokens \in Nat, NEW uniq,
         NEW range \in TargetType, range.index = kv.pending.index,
         range.start = kv.pending.start, range.tokens = tokens,
         PendingTargetWritable(kv, range, uniq), kv.pos + tokens <= kv.ctx
  PROVE  TargetFits(kv, tokens) /\ range = Target(kv, tokens, Len(kv.segs))
<1>1. kv \in KvType /\ WellFormed(kv)
  BY DEF KvOK
<1>2. Len(kv.segs) \in Nat
  BY <1>1, KvFields
<1>3. range.start = kv.pos /\ range.index = Len(kv.segs)
  BY <1>1, WellFormedParts
<1>4. /\ range.index \in 1..Len(kv.segs)
      /\ range.start - kv.segs[range.index].start + range.tokens <= kv.segs[range.index].cap
  BY DEF PendingTargetWritable
<1>5. TargetFits(kv, tokens)
  BY <1>2, <1>3, <1>4 DEF TargetFits
<1> QED
  BY <1>3, <1>5 DEF Target, TargetType

\* KvState::prepare_append.
LEMMA PrepareAppendSound ==
  ASSUME NEW X, NEW kv, KvOK(kv, X), NEW tokens, NEW growth, NEW fresh, NEW uniq,
         Operands(X, tokens, growth, fresh),
         NEW r, r = PrepareAppend(kv, tokens, growth, uniq, fresh)
  PROVE  Sound(r, kv, X) /\ Appends(r, kv, tokens)
<1> DEFINE st == Begun(kv)
           resized == [kv.pending EXCEPT !.tokens = tokens]
           discarded == [DetachPending(st) EXCEPT !.kv.rev = @ + 1]
<1>1. kv \in KvType /\ WellFormed(kv) /\ kv.rev <= MaxRevision /\ tokens \in Nat \ {0}
  BY DEF KvOK, Operands
<1>2. /\ kv.pos \in Nat /\ kv.ctx \in Nat /\ kv.rev \in Nat /\ Len(kv.segs) \in Nat
      /\ kv.pending \in TargetType
  BY <1>1, KvFields
<1>3. Recovers(kv, st) /\ st.kv = kv
  BY <1>1, BegunRecovers
<1>4. ASSUME r = Refused(kv)
      PROVE  Sound(r, kv, X) /\ Appends(r, kv, tokens)
  <2>1. ~Refused(kv).ok
    BY DEF Refused
  <2> QED
    BY <1>4, <2>1, RefusedSound, Zenon DEF Appends
<1>5. ASSUME r = Rolled(st)
      PROVE  Sound(r, kv, X) /\ Appends(r, kv, tokens)
  BY <1>1, <1>3, <1>4, <1>5, RolledBack, Zenon
<1>6. CASE kv.pos + tokens > kv.ctx
  <2>1. r = Refused(kv)
    BY <1>6 DEF PrepareAppend
  <2> QED
    BY <1>4, <2>1
<1>7. CASE ~(kv.pos + tokens > kv.ctx)
  <2>1. r = PrepareAppendStaged(kv, tokens, growth, uniq, fresh)
    BY <1>7, Zenon DEF PrepareAppend
  <2>2. kv.pos + tokens <= kv.ctx
    BY <1>1, <1>2, <1>7
  <2>3. CASE kv.pending = NoRange
    <3>1. r = PlaceAppend(st, tokens, growth, uniq, fresh)
      BY <2>1, <2>3 DEF PrepareAppendStaged
    <3>2. Sound(r, kv, X) /\ Appends(r, st.kv, tokens)
      BY <1>1, <1>3, <2>2, <2>3, <3>1, PlaceSound, Zenon
    <3> QED
      BY <1>3, <3>2
  <2>4. CASE kv.pending # NoRange
    <3>1. kv.pending.start = kv.pos /\ kv.pending.index = Len(kv.segs)
      BY <1>1, <2>4, WellFormedParts
    <3>2. r = IF PendingTargetWritable(kv, resized, uniq)
              THEN IF resized = kv.pending THEN Kept(kv)
                   ELSE IF kv.rev = MaxRevision THEN Rolled(st)
                   ELSE Kept([kv EXCEPT !.pending = resized, !.rev = @ + 1])
              ELSE IF kv.rev = MaxRevision THEN Rolled(st)
              ELSE PlaceAppend(discarded, tokens, growth, uniq, fresh)
      BY <2>1, <2>4, <3>1 DEF PrepareAppendStaged
    <3>3. /\ resized \in TargetType /\ resized.tokens = tokens
          /\ resized.index = kv.pending.index /\ resized.start = kv.pending.start
      BY <1>1, <1>2 DEF TargetType
    <3>4. CASE ~PendingTargetWritable(kv, resized, uniq)
      <4>1. CASE kv.rev = MaxRevision
        BY <1>5, <3>2, <3>4, <4>1, Zenon
      <4>2. CASE kv.rev # MaxRevision
        <5>1. r = PlaceAppend(discarded, tokens, growth, uniq, fresh)
          BY <3>2, <3>4, <4>2, Zenon
        <5>2. /\ Recovers(kv, discarded) /\ KvOK(discarded.kv, X)
              /\ discarded.kv.pending = NoRange
              /\ discarded.kv.pos = kv.pos /\ discarded.kv.ctx = kv.ctx
          BY <4>2, DiscardedStage, ZenonT(60)
        <5> HIDE DEF discarded
        <5>3. discarded.kv.pos + tokens <= discarded.kv.ctx
          BY <2>2, <5>2, Zenon
        <5>4. Sound(r, kv, X) /\ Appends(r, discarded.kv, tokens)
          BY <1>1, <5>1, <5>2, <5>3, PlaceSound, Zenon
        <5> QED
          BY <5>2, <5>4, Zenon DEF Appends
      <4> QED
        BY <4>1, <4>2
    <3>5. CASE PendingTargetWritable(kv, resized, uniq)
      <4> HIDE DEF resized
      <4>1. TargetFits(kv, tokens) /\ resized = Target(kv, tokens, Len(kv.segs))
        BY <1>1, <2>2, <2>4, <3>3, <3>5, WritableFits
      <4>2. CASE resized = kv.pending
        <5>1. r = Kept(kv)
          BY <3>2, <3>5, <4>2, Zenon
        <5>2. r.ok /\ r.kv = kv /\ Sound(r, kv, X)
          BY <5>1, KeptSound, Zenon
        <5> QED
          BY <2>4, <3>3, <4>2, <5>2, Zenon DEF Appends
      <4>3. CASE resized # kv.pending /\ kv.rev = MaxRevision
        BY <1>5, <3>2, <3>5, <4>3, Zenon
      <4>4. CASE resized # kv.pending /\ kv.rev # MaxRevision
        <5> DEFINE v == kv.rev + 1
                   new == [kv EXCEPT !.pending = resized, !.rev = v]
        <5>1. v \in Nat /\ v <= MaxRevision
          BY <1>1, <1>2, <4>4, RevisionAssumption
        <5>2. [kv EXCEPT !.pending = resized, !.rev = @ + 1] = new
          BY <1>1 DEF KvType
        <5> HIDE DEF v
        <5>3. /\ new \in KvType /\ new.segs = kv.segs /\ new.pos = kv.pos
              /\ new.ctx = kv.ctx /\ new.rev = v /\ new.pending = resized
          BY <1>1, <3>3, <5>1 DEF KvType
        <5>4. r = Kept(new)
          BY <3>2, <3>5, <4>4, <5>2, Zenon
        <5> HIDE DEF new
        <5>5. KvOK(new, X) /\ new.pending # NoRange
          BY <1>1, <4>1, <5>1, <5>3, Retargeted
        <5>6. r.ok /\ r.kv = new /\ Sound(r, kv, X)
          BY <5>4, <5>5, KeptSound, Zenon
        <5> QED
          BY <3>3, <5>3, <5>5, <5>6, Zenon DEF Appends
      <4> QED
        BY <4>2, <4>3, <4>4
    <3> QED
      BY <3>4, <3>5
  <2> QED
    BY <2>3, <2>4
<1> QED
  BY <1>6, <1>7

\* The same segments, in a context that is no smaller, at any revision.
LEMMA Reshaped ==
  ASSUME NEW X, NEW kv, KvOK(kv, X), NEW new \in KvType,
         new.segs = kv.segs, new.pos = kv.pos, new.pending = kv.pending,
         new.ctx >= kv.ctx, new.rev <= MaxRevision
  PROVE  KvOK(new, X)
<1>1. kv \in KvType /\ WellFormed(kv) /\ Within(kv, X)
  BY DEF KvOK
<1>2. /\ kv.pos \in Nat /\ kv.ctx \in Nat /\ new.ctx \in Nat /\ kv.pending.tokens \in Nat
  BY <1>1, KvFields
<1>3. /\ \A i \in 1..Len(kv.segs) :
           /\ kv.segs[i].start = StartsAt(kv.segs, i)
           /\ kv.segs[i].committed <= kv.segs[i].cap
           /\ kv.segs[i].committed = 0 => kv.pending.index = i
      /\ kv.pos = EndOf(kv.segs)
      /\ kv.pos <= kv.ctx
      /\ kv.pending # NoRange =>
           /\ kv.pending.start = kv.pos
           /\ kv.pending.index = Len(kv.segs)
           /\ kv.pos - kv.segs[Len(kv.segs)].start + kv.pending.tokens
                <= kv.segs[Len(kv.segs)].cap
           /\ kv.pos + kv.pending.tokens <= kv.ctx
  BY <1>1, WellFormedParts, Zenon
<1>4. /\ kv.pos <= new.ctx
      /\ kv.pending # NoRange => kv.pos + kv.pending.tokens <= new.ctx
  <2>1. PICK a \in Nat, b \in Nat, c \in Nat, d \in Nat :
          a = kv.pos /\ b = kv.ctx /\ c = new.ctx /\ d = kv.pending.tokens
    BY <1>2, Zenon
  <2>2. b <= c /\ a <= b /\ (kv.pending # NoRange => a + d <= b)
    <3>1. c >= b /\ a <= b /\ (kv.pending # NoRange => a + d <= b)
      BY <1>3, <2>1, Zenon
    <3> QED
      BY <3>1
  <2>3. a <= c /\ (kv.pending # NoRange => a + d <= c)
    BY <2>2
  <2> QED
    BY <2>1, <2>3, Zenon
<1>5. WellFormed(new)
  <2>1. /\ \A i \in 1..Len(new.segs) :
             /\ new.segs[i].start = StartsAt(new.segs, i)
             /\ new.segs[i].committed <= new.segs[i].cap
             /\ new.segs[i].committed = 0 => new.pending.index = i
        /\ new.pos = EndOf(new.segs)
        /\ new.pos <= new.ctx
        /\ new.pending # NoRange =>
             /\ new.pending.start = new.pos
             /\ new.pending.index = Len(new.segs)
             /\ new.pos - new.segs[Len(new.segs)].start + new.pending.tokens
                  <= new.segs[Len(new.segs)].cap
             /\ new.pos + new.pending.tokens <= new.ctx
    BY <1>3, <1>4, Zenon
  <2> QED
    BY <2>1, WellFormedParts, Zenon
<1> QED
  BY <1>1, <1>5 DEF KvOK, Within

\* A failed operation on a stage that can be undone is undone with it.
LEMMA UndoneSound ==
  ASSUME NEW X, NEW kv \in KvType, NEW mid, NEW rb, Recovers(kv, [kv |-> mid, rb |-> rb]),
         NEW p, Sound(p, mid, X), NEW r, r = Undone(p, rb)
  PROVE  Sound(r, kv, X) /\ (r.ok => r = p)
<1>1. CASE p.ok
  BY <1>1 DEF Undone, Sound
<1>2. CASE ~p.ok
  <2>1. p.kv = mid
    BY <1>2 DEF Sound
  <2>2. r = Rolled([kv |-> mid, rb |-> rb])
    BY <1>2, <2>1, Zenon DEF Undone
  <2>3. r = Refused(kv)
    BY <2>2, RolledBack, Zenon
  <2>4. ~Refused(kv).ok
    BY DEF Refused
  <2> QED
    BY <2>3, <2>4, RefusedSound, Zenon
<1> QED
  BY <1>1, <1>2

\* stage_append_position: a stage at the position, or one that is undone.
LEMMA StagedFacts ==
  ASSUME NEW X, NEW kv, KvOK(kv, X), NEW position \in Nat, position <= kv.pos,
         NEW tokens, NEW uniq,
         NEW c, c = StageAppendPosition(kv, position, tokens, uniq)
  PROVE  /\ c.ok \in BOOLEAN /\ Recovers(kv, c.st)
         /\ c.ok => KvOK(c.st.kv, X) /\ c.st.kv.pos = position /\ c.st.kv.ctx = kv.ctx
<1>1. kv \in KvType /\ kv.rev \in Nat /\ kv.segs \in Seq(Seg) /\ Len(kv.segs) \in Nat
  BY KvFields DEF KvOK
<1>2. CASE ~PendingReusableAt(kv, position, tokens, uniq)
  <2>1. c = CutTo(kv, position)
    BY <1>2, Zenon DEF StageAppendPosition
  <2> QED
    BY <2>1, CutFacts, Zenon
<1>3. CASE PendingReusableAt(kv, position, tokens, uniq)
  <2> DEFINE v == kv.rev + 1
             new == [kv EXCEPT !.rev = v]
             R == RollbackOf(kv, <<>>)
  <2>1. c = [ok |-> kv.rev < MaxRevision, st |-> [Begun(kv) EXCEPT !.kv.rev = @ + 1]]
    BY <1>3, Zenon DEF StageAppendPosition
  <2>2. Begun(kv) = [kv |-> kv, rb |-> R]
    BY <1>1, BegunStage
  <2>3. [[kv |-> kv, rb |-> R] EXCEPT !.kv.rev = @ + 1] = [kv |-> new, rb |-> R]
    OBVIOUS
  <2>4. c = [ok |-> kv.rev < MaxRevision, st |-> [kv |-> new, rb |-> R]]
    BY <2>1, <2>2, <2>3, Zenon
  <2>5. c.st = [kv |-> new, rb |-> R] /\ c.st.kv = new /\ c.ok = (kv.rev < MaxRevision)
    BY <2>4
  <2>6. v \in Nat /\ (kv.rev < MaxRevision => v <= MaxRevision)
    BY <1>1, RevisionAssumption
  <2> HIDE DEF v
  <2>7. /\ new \in KvType /\ new.segs = kv.segs /\ new.pos = kv.pos
        /\ new.ctx = kv.ctx /\ new.rev = v /\ new.pending = kv.pending
    BY <1>1, <2>6 DEF KvType
  <2> HIDE DEF new
  <2>8. Undoes(kv.segs, new.segs, <<>>) /\ <<>> \in Seq(Seg)
    BY <1>1, <2>7 DEF Undoes
  <2>9. Recovers(kv, c.st)
    BY <1>1, <2>5, <2>7, <2>8, StageRecovers, Zenon
  <2>10. c.ok \in BOOLEAN /\ (c.ok => v <= MaxRevision)
    <3>1. (kv.rev < MaxRevision) \in BOOLEAN
      OBVIOUS
    <3> QED
      BY <2>5, <2>6, <3>1, Zenon
  <2>11. c.ok => KvOK(new, X)
    <3>1. new.ctx >= kv.ctx
      BY <1>1, <2>7, KvFields
    <3> QED
      BY <2>7, <2>10, <3>1, Reshaped
  <2>12. position = kv.pos
    BY <1>3 DEF PendingReusableAt
  <2> QED
    BY <2>5, <2>7, <2>9, <2>10, <2>11, <2>12, Zenon
<1> QED
  BY <1>2, <1>3

\* KvState::prepare_append_at.
LEMMA PrepareAppendAtSound ==
  ASSUME NEW X, NEW kv, KvOK(kv, X), NEW position \in Nat,
         NEW tokens, NEW growth, NEW fresh, NEW uniq,
         Operands(X, tokens, growth, fresh),
         NEW r, r = PrepareAppendAt(kv, position, tokens, growth, uniq, fresh)
  PROVE  /\ Sound(r, kv, X)
         /\ r.ok => r.kv.pos = position /\ r.kv.ctx = kv.ctx
<1>1. kv \in KvType /\ kv.pos \in Nat
  BY KvFields DEF KvOK
<1>0. ~Refused(kv).ok
  BY DEF Refused
<1>2. CASE position > kv.pos
  <2>1. r = Refused(kv)
    BY <1>2, Zenon DEF PrepareAppendAt
  <2> QED
    BY <1>0, <2>1, RefusedSound, Zenon
<1>3. CASE ~(position > kv.pos)
  <2>1. position <= kv.pos
    BY <1>1, <1>3
  <2>2. PICK c : c = StageAppendPosition(kv, position, tokens, uniq)
    OBVIOUS
  <2>3. r = IF ~c.ok THEN Rolled(c.st)
            ELSE Undone(PrepareAppend(c.st.kv, tokens, growth, uniq, fresh), c.st.rb)
    BY <1>3, <2>2, Zenon DEF PrepareAppendAt
  <2>4. /\ c.ok \in BOOLEAN /\ Recovers(kv, c.st)
        /\ c.ok => KvOK(c.st.kv, X) /\ c.st.kv.pos = position /\ c.st.kv.ctx = kv.ctx
    BY <2>1, <2>2, StagedFacts, Zenon
  <2>5. CASE ~c.ok
    <3>1. r = Refused(kv)
      BY <1>1, <2>3, <2>4, <2>5, RolledBack, Zenon
    <3> QED
      BY <1>0, <3>1, RefusedSound, Zenon
  <2>6. CASE c.ok
    <3>1. PICK p : p = PrepareAppend(c.st.kv, tokens, growth, uniq, fresh)
      OBVIOUS
    <3>2. Sound(p, c.st.kv, X) /\ Appends(p, c.st.kv, tokens)
      BY <2>4, <2>6, <3>1, PrepareAppendSound, Zenon
    <3>3. r = Undone(p, c.st.rb)
      BY <2>3, <2>6, <3>1, Zenon
    <3>4. c.st = [kv |-> c.st.kv, rb |-> c.st.rb]
      BY <2>4 DEF Recovers, StageType
    <3>5. Recovers(kv, [kv |-> c.st.kv, rb |-> c.st.rb])
      BY <2>4, <3>4, Zenon
    <3>6. Sound(r, kv, X) /\ (r.ok => r = p)
      <4>1. PICK mid, rb : mid = c.st.kv /\ rb = c.st.rb
        OBVIOUS
      <4>2. Recovers(kv, [kv |-> mid, rb |-> rb]) /\ Sound(p, mid, X) /\ r = Undone(p, rb)
        BY <3>2, <3>3, <3>5, <4>1
      <4> QED
        BY <1>1, <4>2, UndoneSound
    <3> QED
      BY <2>4, <2>6, <3>2, <3>6, Zenon DEF Appends
  <2> QED
    BY <2>5, <2>6
<1> QED
  BY <1>2, <1>3

\* KvState::prepare_shape_transition: the context, the position and the first
\* append together, or nothing.
LEMMA ShapeTransitionSound ==
  ASSUME NEW X, NEW kv, KvOK(kv, X), NEW ctx \in Nat, NEW position \in Nat,
         NEW tokens, NEW growth, NEW fresh, NEW uniq,
         tokens = 0 \/ Operands(X, tokens, growth, fresh),
         NEW r, r = PrepareShapeTransition(kv, ctx, position, tokens, growth, uniq, fresh)
  PROVE  /\ Sound(r, kv, X)
         /\ r.ok => r.kv.pos = position /\ r.kv.ctx = ctx
<1>1. /\ kv \in KvType /\ kv.rev <= MaxRevision /\ kv.rev \in Nat /\ kv.ctx \in Nat
      /\ kv.segs \in Seq(Seg) /\ Len(kv.segs) \in Nat
  BY KvFields DEF KvOK
<1>0. ~Refused(kv).ok
  BY DEF Refused
<1> DEFINE same == ctx = kv.ctx
           shaped == IF same THEN kv
                     ELSE [kv EXCEPT !.rev = @ + 1, !.ctx = ctx, !.graph = NoGraph]
           p == IF tokens = 0 THEN Truncate(shaped, position)
                ELSE PrepareAppendAt(shaped, position, tokens, growth, uniq, fresh)
<1>2. r = IF ~same /\ (~CanGrowTo(kv, ctx) \/ kv.rev = MaxRevision)
          THEN Rolled(Begun(kv)) ELSE Undone(p, Capture(kv))
  BY Zenon DEF PrepareShapeTransition
<1>3. CASE ~same /\ (~CanGrowTo(kv, ctx) \/ kv.rev = MaxRevision)
  <2>1. r = Refused(kv)
    BY <1>1, <1>2, <1>3, BegunRecovers, RolledBack, Zenon
  <2> QED
    BY <1>0, <2>1, RefusedSound, Zenon
<1>4. CASE ~(~same /\ (~CanGrowTo(kv, ctx) \/ kv.rev = MaxRevision))
  <2>1. /\ shaped \in KvType /\ shaped.segs = kv.segs /\ shaped.pos = kv.pos
        /\ shaped.pending = kv.pending /\ shaped.ctx = ctx /\ shaped.ctx >= kv.ctx
        /\ shaped.rev <= MaxRevision
    <3>1. CASE same
      BY <1>1, <3>1
    <3>2. CASE ~same
      <4> DEFINE v == kv.rev + 1
                 new == [kv EXCEPT !.rev = v, !.ctx = ctx, !.graph = NoGraph]
      <4>1. ctx >= kv.ctx /\ v \in Nat /\ v <= MaxRevision
        BY <1>1, <1>4, <3>2, RevisionAssumption DEF CanGrowTo
      <4>2. [kv EXCEPT !.rev = @ + 1, !.ctx = ctx, !.graph = NoGraph] = new
        OBVIOUS
      <4>3. NoGraph \in TokenType
        BY DEF NoGraph, TokenType
      <4> HIDE DEF v
      <4>4. /\ new \in KvType /\ new.segs = kv.segs /\ new.pos = kv.pos
            /\ new.ctx = ctx /\ new.rev = v /\ new.pending = kv.pending
        BY <1>1, <4>1, <4>3 DEF KvType
      <4>5. shaped = new
        BY <3>2, <4>2, Zenon
      <4> HIDE DEF new, shaped
      <4> QED
        BY <4>1, <4>4, <4>5
    <3> QED
      BY <3>1, <3>2
  <2> HIDE DEF shaped
  <2>2. KvOK(shaped, X)
    BY <2>1, Reshaped
  <2>3. Sound(p, shaped, X) /\ (p.ok => p.kv.pos = position /\ p.kv.ctx = ctx)
    <3>1. CASE tokens = 0
      <4>1. p = Truncate(shaped, position)
        BY <3>1
      <4> HIDE DEF p
      <4>2. /\ Sound(Truncate(shaped, position), shaped, X)
            /\ Truncate(shaped, position).ok =>
                 /\ Truncate(shaped, position).kv.pos = position
                 /\ Truncate(shaped, position).kv.ctx = shaped.ctx
        BY <2>2, TruncateSound, Zenon
      <4>3. shaped.ctx = ctx
        BY <2>1
      <4> QED
        BY <4>1, <4>2, <4>3, Zenon
    <3>2. CASE tokens # 0
      <4>1. p = PrepareAppendAt(shaped, position, tokens, growth, uniq, fresh)
        BY <3>2
      <4> HIDE DEF p
      <4>2. Sound(p, shaped, X) /\ (p.ok => p.kv.pos = position /\ p.kv.ctx = shaped.ctx)
        <5>1. Operands(X, tokens, growth, fresh)
          BY <3>2
        <5>2. PICK q : q = PrepareAppendAt(shaped, position, tokens, growth, uniq, fresh)
          OBVIOUS
        <5>3. Sound(q, shaped, X) /\ (q.ok => q.kv.pos = position /\ q.kv.ctx = shaped.ctx)
          BY <2>2, <5>1, <5>2, PrepareAppendAtSound
        <5> QED
          BY <4>1, <5>2, <5>3, Zenon
      <4>3. shaped.ctx = ctx
        BY <2>1
      <4> QED
        BY <4>2, <4>3, Zenon
    <3> QED
      BY <3>1, <3>2
  <2> HIDE DEF p
  <2>4. r = Undone(p, Capture(kv))
    BY <1>2, <1>4, Zenon
  <2>5. Capture(kv) = RollbackOf(kv, <<>>)
    BY DEF Capture, RollbackOf, CommittedOf
  <2>6. Undoes(kv.segs, shaped.segs, <<>>) /\ <<>> \in Seq(Seg)
    BY <1>1, <2>1 DEF Undoes
  <2>7. Recovers(kv, [kv |-> shaped, rb |-> RollbackOf(kv, <<>>)])
    BY <1>1, <2>1, <2>6, StageRecovers
  <2>8. Sound(r, kv, X) /\ (r.ok => r = p)
    <3>1. PICK rb : rb = Capture(kv)
      OBVIOUS
    <3>2. Recovers(kv, [kv |-> shaped, rb |-> rb]) /\ r = Undone(p, rb)
      BY <2>4, <2>5, <2>7, <3>1
    <3> QED
      BY <1>1, <2>3, <3>2, UndoneSound
  <2> QED
    BY <2>3, <2>8, Zenon
<1> QED
  BY <1>3, <1>4

\* Another last segment.
LEMMA LastReplaced ==
  ASSUME NEW s \in Seq(Seg), Len(s) >= 1, NEW e \in Seg
  PROVE  LET t == [s EXCEPT ![Len(s)] = e]
         IN /\ t \in Seq(Seg) /\ Len(t) = Len(s) /\ t[Len(s)] = e
            /\ \A i \in 1..Len(s) : i # Len(s) => t[i] = s[i]
            /\ \A i \in 1..Len(s) : StartsAt(t, i) = StartsAt(s, i)
            /\ EndOf(t) = e.start + e.committed
<1> DEFINE n == Len(s)
           t == [s EXCEPT ![Len(s)] = e]
<1>1. n \in Nat /\ n \in 1..Len(s)
  BY LenProperties
<1>2. /\ t \in Seq(Seg) /\ Len(t) = n
      /\ \A j \in 1..n : t[j] = IF j = n THEN e ELSE s[j]
  BY <1>1, ExceptSeq
<1> HIDE DEF t
<1>3. \A i \in 1..n : StartsAt(t, i) = StartsAt(s, i)
  <2> SUFFICES ASSUME NEW i \in 1..n
               PROVE  StartsAt(t, i) = StartsAt(s, i)
    OBVIOUS
  <2>1. CASE i = 1
    BY <2>1 DEF StartsAt
  <2>2. CASE i # 1
    <3>1. i - 1 \in 1..n /\ i - 1 # n
      BY <1>1, <2>2
    <3> QED
      BY <1>2, <2>2, <3>1 DEF StartsAt
  <2> QED
    BY <2>1, <2>2
<1>4. EndOf(t) = e.start + e.committed
  <2>1. n + 1 # 1 /\ n + 1 - 1 = n
    BY <1>1
  <2>2. t[n] = e
    BY <1>1, <1>2
  <2> QED
    BY <1>2, <2>1, <2>2 DEF EndOf, StartsAt
<1> QED
  BY <1>1, <1>2, <1>3, <1>4 DEF t

\* KvState::commit_append of the pending target.
LEMMA CommitSound ==
  ASSUME NEW X, NEW kv, KvOK(kv, X), NEW r, r = CommitAppend(kv, kv.pending)
  PROVE  /\ Sound(r, kv, X)
         /\ r.ok => /\ r.kv.pos = kv.pos + kv.pending.tokens /\ r.kv.ctx = kv.ctx
                    /\ r.kv.pending = NoRange
<1> DEFINE n == Len(kv.segs)
           i == kv.pending.index
           seg == kv.segs[i]
           local == kv.pending.start - seg.start
           committed == local + kv.pending.tokens
           able == /\ i \in 1..n /\ local >= 0 /\ seg.committed = local
                   /\ committed <= seg.cap
<1>1. r = IF able
          THEN Kept([kv EXCEPT !.segs[i].committed = committed,
                               !.pos = kv.pending.start + kv.pending.tokens,
                               !.pending = NoRange])
          ELSE Refused(kv)
  BY Zenon DEF CommitAppend
<1>2. /\ kv \in KvType /\ WellFormed(kv) /\ Within(kv, X) /\ kv.rev <= MaxRevision
      /\ kv.pending # NoRange => kv.pending.tokens >= 1
  BY DEF KvOK
<1>3. /\ kv.segs \in Seq(Seg) /\ n \in Nat /\ kv.pos \in Nat /\ kv.ctx \in Nat
      /\ kv.pending.tokens \in Nat /\ kv.pending.start \in Nat
  BY <1>2, KvFields
<1>4. CASE ~able
  <2>1. r = Refused(kv)
    BY <1>1, <1>4, Zenon
  <2>2. ~Refused(kv).ok
    BY DEF Refused
  <2> QED
    BY <2>1, <2>2, RefusedSound, Zenon
<1>5. CASE able
  <2>1. kv.pending # NoRange
    BY <1>3, <1>5, NoRangeType
  <2>2. kv.pending.start = kv.pos /\ i = n /\ kv.pos + kv.pending.tokens <= kv.ctx
    BY <1>2, <2>1, WellFormedParts
  <2>3. /\ n >= 1 /\ n \in 1..n /\ kv.segs[n] \in Seg
    BY <1>2, <1>3, <1>5, <2>2, KvFields
  <2>4. PICK a \in Nat, b \in Nat, c \in Nat, d \in Nat, p \in Nat :
          /\ a = kv.segs[n].start /\ b = kv.segs[n].committed /\ c = kv.segs[n].cap
          /\ d = kv.pending.tokens /\ p = kv.pos
    BY <1>2, <1>3, <2>3, KvFields
  <2>5. committed = (p - a) + d /\ b = p - a /\ (p - a) + d <= c /\ d >= 1
    BY <1>2, <1>5, <2>1, <2>2, <2>4, Zenon
  <2>6. /\ (p - a) + d \in Nat /\ (p - a) + d # 0 /\ p + d \in Nat
        /\ a + ((p - a) + d) = p + d
    <3>1. b = p - a /\ d >= 1
      BY <2>5, Zenon
    <3> QED
      BY <3>1
  <2> DEFINE m == (p - a) + d
             q == p + d
             e == [kv.segs[n] EXCEPT !.committed = m]
             segs == [kv.segs EXCEPT ![n] = e]
             new == [kv EXCEPT !.segs = segs, !.pos = q, !.pending = NoRange]
  <2>7. r = Kept([kv EXCEPT !.segs[n].committed = m, !.pos = q, !.pending = NoRange])
    <3>1. i = n /\ committed = m /\ kv.pending.start + kv.pending.tokens = q
      BY <2>2, <2>4, <2>5, Zenon
    <3> HIDE DEF i, committed, m, q
    <3> QED
      BY <1>1, <1>5, <3>1, Zenon DEF i
  <2>8. m \in Nat /\ m # 0 /\ q \in Nat /\ m <= c /\ a + m = q /\ q <= kv.ctx
    BY <2>2, <2>4, <2>5, <2>6, Zenon
  <2> HIDE DEF m, q
  <2>9. [kv EXCEPT !.segs[n].committed = m, !.pos = q, !.pending = NoRange] = new
    <3>1. [kv.segs EXCEPT ![n].committed = m] = segs
      BY <2>3
    <3>2. [kv EXCEPT !.segs[n].committed = m] =
            [kv EXCEPT !.segs = [kv.segs EXCEPT ![n].committed = m]]
      BY <1>2 DEF KvType
    <3> HIDE DEF segs
    <3>3. [kv EXCEPT !.segs[n].committed = m] = [kv EXCEPT !.segs = segs]
      BY <3>1, <3>2, Zenon
    <3>4. [kv EXCEPT !.segs[n].committed = m, !.pos = q, !.pending = NoRange] =
            [[[kv EXCEPT !.segs[n].committed = m] EXCEPT !.pos = q] EXCEPT !.pending = NoRange]
      OBVIOUS
    <3>5. new = [[[kv EXCEPT !.segs = segs] EXCEPT !.pos = q] EXCEPT !.pending = NoRange]
      OBVIOUS
    <3> QED
      BY <3>3, <3>4, <3>5, Zenon
  <2>10. /\ e \in Seg /\ e.committed = m /\ e.start = a /\ e.cap = c
         /\ e.storage = kv.segs[n].storage
    BY <2>3, <2>4, <2>8, SegExcept
  <2> HIDE DEF e
  <2>11. /\ segs \in Seq(Seg) /\ Len(segs) = n /\ segs[n] = e
         /\ \A j \in 1..n : j # n => segs[j] = kv.segs[j]
         /\ \A j \in 1..n : StartsAt(segs, j) = StartsAt(kv.segs, j)
         /\ EndOf(segs) = e.start + e.committed
    BY <1>3, <2>3, <2>10, LastReplaced
  <2> HIDE DEF segs
  <2>12. /\ new \in KvType /\ new.segs = segs /\ new.pos = q /\ new.ctx = kv.ctx
         /\ new.rev = kv.rev /\ new.pending = NoRange
    BY <1>2, <2>8, <2>11, NoRangeType DEF KvType
  <2> HIDE DEF new
  <2>13. ASSUME NEW j \in 1..n
         PROVE  /\ segs[j].start = StartsAt(segs, j) /\ segs[j].committed <= segs[j].cap
                /\ segs[j].committed # 0 /\ segs[j].storage \in X
    <3>1. /\ kv.segs[j].start = StartsAt(kv.segs, j)
          /\ kv.segs[j].committed <= kv.segs[j].cap /\ kv.segs[j].storage \in X
      BY <1>2, WellFormedParts DEF Within
    <3>2. CASE j = n
      BY <2>4, <2>8, <2>10, <2>11, <3>1, <3>2
    <3>3. CASE j # n
      <4>1. kv.segs[j].committed # 0
        BY <1>2, <3>3, OnlyTargetEmpty
      <4> QED
        BY <2>11, <3>1, <3>3, <4>1
    <3> QED
      BY <3>2, <3>3
  <2>14. new.pos = EndOf(new.segs)
    BY <2>8, <2>10, <2>11, <2>12, Zenon
  <2>15. WellFormed(new)
    BY <2>8, <2>11, <2>12, <2>13, <2>14, WellFormedParts
  <2>16. KvOK(new, X)
    BY <1>2, <2>11, <2>12, <2>13, <2>15 DEF KvOK, Within
  <2>17. r = Kept(new)
    BY <2>7, <2>9, Zenon
  <2>18. r.ok /\ r.kv = new /\ Sound(r, kv, X)
    BY <2>16, <2>17, KeptSound, Zenon
  <2>19. new.pos = kv.pos + kv.pending.tokens
    BY <2>4, <2>12, Zenon DEF q
  <2> QED
    BY <2>12, <2>18, <2>19, Zenon
<1> QED
  BY <1>4, <1>5

\* The elements of a range of numbers, counted from the least.
LEMMA NthOfRange ==
  ASSUME NEW n \in Nat, NEW k \in 1..n
  PROVE  Nth(1..n, k) = k
<1>1. \A x \in 1..n : {y \in 1..n : y <= x} = 1..x
  OBVIOUS
<1>2. \A x \in 1..n : Cardinality(1..x) = x
  <2> SUFFICES ASSUME NEW x \in 1..n
               PROVE  Cardinality(1..x) = x
    OBVIOUS
  <2>1. x \in Int /\ 1 \in Int /\ ~(1 > x) /\ x - 1 + 1 = x
    OBVIOUS
  <2>2. Cardinality(1..x) = IF 1 > x THEN 0 ELSE x - 1 + 1
    BY <2>1, FS_Interval
  <2> QED
    BY <2>1, <2>2
<1>3. \A x \in 1..n : Cardinality({y \in 1..n : y <= x}) = x
  BY <1>1, <1>2, Zenon
<1>4. \A x \in 1..n : Cardinality({y \in 1..n : y <= x}) = k <=> x = k
  BY <1>3
<1> QED
  BY <1>4, Zenon DEF Nth

\* A set of numbers has a k-th element for every k up to its size.
LEMMA NthFacts ==
  ASSUME NEW b \in Nat, NEW S, S \subseteq 0..b, NEW k \in Nat, k >= 1,
         k <= Cardinality(S)
  PROVE  Nth(S, k) \in S /\ Cardinality({y \in S : y <= Nth(S, k)}) = k
<1> DEFINE Below(x) == {y \in S : y <= x}
           T == {x \in S : Cardinality(Below(x)) >= k}
<1>1. IsFiniteSet(S) /\ S \subseteq Nat /\ Cardinality(S) \in Nat
  <2>1. IsFiniteSet(0..b)
    BY FS_Interval
  <2>2. IsFiniteSet(S)
    BY <2>1, FS_Subset
  <2> QED
    BY <2>2, FS_CardinalityType
<1>2. \A x : Below(x) \subseteq S /\ IsFiniteSet(Below(x)) /\ Cardinality(Below(x)) \in Nat
  <2> SUFFICES ASSUME NEW x
               PROVE  Below(x) \subseteq S /\ IsFiniteSet(Below(x))
                      /\ Cardinality(Below(x)) \in Nat
    OBVIOUS
  <2>1. Below(x) \in SUBSET S
    OBVIOUS
  <2> HIDE DEF Below
  <2>2. IsFiniteSet(Below(x))
    BY <1>1, <2>1, FS_Subset
  <2> QED
    BY <2>1, <2>2, FS_CardinalityType
<1>3. S # {}
  <2> SUFFICES ASSUME S = {}
               PROVE  FALSE
    OBVIOUS
  <2>1. Cardinality(S) = 0
    BY FS_EmptySet
  <2> QED
    BY <2>1
<1>4. PICK top \in S : \A y \in S : y <= top
  BY <1>3, GreatestNat
<1>5. top \in T
  <2>1. Below(top) = S
    BY <1>4
  <2>2. Cardinality(Below(top)) >= k
    BY <1>1, <2>1
  <2> QED
    BY <2>2
<1>6. PICK x \in T : \A y \in T : x <= y
  <2>1. T \subseteq Nat /\ T # {}
    BY <1>1, <1>5
  <2> QED
    BY <2>1, LeastNat
<1>7. x \in S /\ x \in Nat /\ Cardinality(Below(x)) >= k
  BY <1>1, <1>6
<1>8. Cardinality(Below(x)) = k
  <2> SUFFICES ASSUME Cardinality(Below(x)) # k
               PROVE  FALSE
    OBVIOUS
  <2> DEFINE U == Below(x) \ {x}
  <2>1. x \in Below(x)
    BY <1>7
  <2>2. Cardinality(U) = Cardinality(Below(x)) - 1 /\ IsFiniteSet(U)
    <3>1. IsFiniteSet(Below(x))
      BY <1>2
    <3> HIDE DEF Below
    <3> QED
      BY <2>1, <3>1, FS_RemoveElement
  <2>3. Cardinality(U) >= k
    <3>1. Cardinality(Below(x)) \in Nat
      BY <1>2
    <3> HIDE DEF Below, U
    <3> QED
      BY <1>7, <2>2, <3>1
  <2>4. U # {}
    <3> SUFFICES ASSUME U = {}
                 PROVE  FALSE
      OBVIOUS
    <3>1. Cardinality(U) = 0
      BY FS_EmptySet
    <3> HIDE DEF U
    <3> QED
      BY <2>3, <3>1
  <2>5. U \subseteq 0..b
    OBVIOUS
  <2>6. PICK z \in U : \A y \in U : y <= z
    <3> HIDE DEF U
    <3> QED
      BY <2>4, <2>5, GreatestNat
  <2>7. z \in S /\ z \in Nat /\ z < x
    BY <1>1, <1>7
  <2>8. Below(z) = U
    <3>1. ASSUME NEW y \in S
          PROVE  y <= z <=> y <= x /\ y # x
      <4>1. y \in Nat
        BY <1>1
      <4>2. y <= x /\ y # x => y \in U
        OBVIOUS
      <4>3. y <= x /\ y # x => y <= z
        BY <2>6, <4>2
      <4> QED
        BY <1>7, <2>7, <4>1, <4>3
    <3> QED
      BY <3>1
  <2>9. z \in T
    <3>1. Cardinality(Below(z)) >= k
      BY <2>3, <2>8
    <3> QED
      BY <2>7, <3>1
  <2>10. x <= z
    <3> HIDE DEF T, U
    <3> QED
      BY <1>6, <2>9
  <2> HIDE DEF T, U, Below
  <2> QED
    BY <1>7, <2>7, <2>10
<1>9. \E w \in S : Cardinality({y \in S : y <= w}) = k
  BY <1>7, <1>8
<1> QED
  BY <1>9, Zenon DEF Nth

\* The segments that hold something are the first ones, up to the position.
LEMMA NonEmptyPrefix ==
  ASSUME NEW kv \in KvType, WellFormed(kv)
  PROVE  \E m \in 0..Len(kv.segs) :
           /\ {i \in 1..Len(kv.segs) : kv.segs[i].committed # 0} = 1..m
           /\ StartsAt(kv.segs, m + 1) = kv.pos
<1> DEFINE n == Len(kv.segs)
<1>1. n \in Nat /\ kv.pos = StartsAt(kv.segs, n + 1)
  BY KvFields, WellFormedParts DEF EndOf
<1>2. \A i \in 1..n : kv.segs[i].committed = 0 => i = n /\ kv.segs[i].start = kv.pos
  BY OnlyTargetEmpty
<1>3. CASE n > 0 /\ kv.segs[n].committed = 0
  <2>1. n \in 1..n /\ n - 1 \in 0..n /\ (n - 1) + 1 = n
    BY <1>1, <1>3
  <2>2. kv.segs[n].start = StartsAt(kv.segs, n) /\ kv.segs[n].start = kv.pos
    BY <1>2, <1>3, <2>1, WellFormedParts
  <2>3. \A i \in 1..n : kv.segs[i].committed # 0 <=> i # n
    BY <1>2, <1>3
  <2>4. {i \in 1..n : kv.segs[i].committed # 0} = {i \in 1..n : i # n}
    BY <2>3
  <2>5. {i \in 1..n : i # n} = 1..n - 1
    BY <1>1
  <2> QED
    BY <2>1, <2>2, <2>4, <2>5
<1>4. CASE ~(n > 0 /\ kv.segs[n].committed = 0)
  <2>1. \A i \in 1..n : kv.segs[i].committed # 0
    BY <1>1, <1>2, <1>4
  <2>2. n \in 0..n
    BY <1>1
  <2> QED
    BY <1>1, <2>1, <2>2
<1> QED
  BY <1>3, <1>4

\* What is left without the segments that hold nothing.
LEMMA CommittedFacts ==
  ASSUME NEW kv \in KvType, WellFormed(kv), NEW s, s = Committed(kv.segs)
  PROVE  /\ s \in Seq(Seg) /\ Len(s) \in 0..Len(kv.segs) /\ EndOf(s) = kv.pos
         /\ \A i \in 1..Len(s) : s[i] = kv.segs[i] /\ s[i].committed # 0
<1> DEFINE n == Len(kv.segs)
           S == {i \in 1..n : kv.segs[i].committed # 0}
<1>1. PICK m \in 0..n : S = 1..m /\ StartsAt(kv.segs, m + 1) = kv.pos
  BY NonEmptyPrefix
<1>2. n \in Nat /\ m \in Nat /\ \A i \in 1..m : i \in 1..n
  BY KvFields
<1>3. Cardinality(1..m) = m
  <2>1. m \in Int /\ 1 \in Int /\ (1 > m => m = 0) /\ m - 1 + 1 = m
    BY <1>2
  <2>2. Cardinality(1..m) = IF 1 > m THEN 0 ELSE m - 1 + 1
    BY <2>1, FS_Interval
  <2> QED
    BY <2>1, <2>2
<1>4. s = [k \in 1..Cardinality(S) |-> kv.segs[Nth(S, k)]]
  BY DEF Committed
<1> HIDE DEF S
<1>5. s = [k \in 1..m |-> kv.segs[Nth(1..m, k)]]
  BY <1>1, <1>3, <1>4, Zenon
<1>6. \A k \in 1..m : Nth(1..m, k) = k
  BY <1>2, NthOfRange
<1>7. s = [k \in 1..m |-> kv.segs[k]]
  BY <1>5, <1>6
<1>8. \A k \in 1..m : kv.segs[k] \in Seg /\ kv.segs[k].committed # 0
  BY <1>1, <1>2, KvFields DEF S
<1>9. s \in Seq(Seg) /\ Len(s) = m /\ \A k \in 1..m : s[k] = kv.segs[k]
  BY <1>2, <1>7, <1>8
<1>10. EndOf(s) = kv.pos
  <2>1. StartsAt(s, m + 1) = StartsAt(kv.segs, m + 1)
    <3>1. CASE m = 0
      BY <3>1 DEF StartsAt
    <3>2. CASE m # 0
      <4>1. m \in 1..m /\ m + 1 # 1 /\ m + 1 - 1 = m
        BY <1>2, <3>2
      <4> QED
        BY <1>9, <4>1 DEF StartsAt
    <3> QED
      BY <3>1, <3>2
  <2> QED
    BY <1>1, <1>9, <2>1 DEF EndOf
<1> QED
  BY <1>8, <1>9, <1>10

\* A cache without the segments that hold nothing, and without a target.
LEMMA Compacted ==
  ASSUME NEW X, NEW kv, KvOK(kv, X), NEW new \in KvType,
         new.segs = Committed(kv.segs), new.pos = kv.pos, new.ctx = kv.ctx,
         new.rev <= MaxRevision, new.pending = NoRange
  PROVE  KvOK(new, X)
<1>1. kv \in KvType /\ WellFormed(kv) /\ Within(kv, X)
  BY DEF KvOK
<1>2. /\ new.segs \in Seq(Seg) /\ Len(new.segs) \in 0..Len(kv.segs)
      /\ EndOf(new.segs) = kv.pos
      /\ \A i \in 1..Len(new.segs) : new.segs[i] = kv.segs[i] /\ new.segs[i].committed # 0
  BY <1>1, CommittedFacts
<1>3. Len(kv.segs) \in Nat /\ kv.pos <= kv.ctx
  BY <1>1, KvFields, WellFormedParts
<1>4. Len(new.segs) <= Len(kv.segs) /\ \A i \in 1..Len(new.segs) : i \in 1..Len(kv.segs)
  BY <1>2, <1>3
<1>5. \A i \in 1..Len(new.segs) : new.segs[i].committed \in 1..kv.segs[i].committed
  <2> SUFFICES ASSUME NEW i \in 1..Len(new.segs)
               PROVE  new.segs[i].committed \in 1..kv.segs[i].committed
    OBVIOUS
  <2>1. kv.segs[i].committed \in Nat
    BY <1>1, <1>4, KvFields
  <2> QED
    BY <1>2, <2>1
<1>6. WellFormed(new)
  BY <1>1, <1>2, <1>3, <1>4, <1>5, PrefixWellFormed
<1> QED
  BY <1>1, <1>2, <1>4, <1>6 DEF KvOK, Within

\* KvState::discard_pending keeps the cache in order, whatever it returns.
LEMMA DiscardSound ==
  ASSUME NEW X, NEW kv, KvOK(kv, X), NEW r, r = DiscardPending(kv)
  PROVE  Sound(r, kv, X) /\ KvOK(r.kv, X)
<1> DEFINE segs == Committed(kv.segs)
           end == IF segs = <<>> THEN 0 ELSE Final(segs).start + Final(segs).committed
<1>1. kv \in KvType /\ WellFormed(kv) /\ kv.rev <= MaxRevision /\ kv.rev \in Nat
  BY KvFields DEF KvOK
<1>2. CASE kv.pending = NoRange
  <2>1. r = Kept(kv)
    BY <1>2, Zenon DEF DiscardPending
  <2> QED
    BY <2>1, KeptSound, Zenon
<1>3. CASE kv.pending # NoRange /\ kv.rev = MaxRevision
  <2>1. r = Refused(kv)
    BY <1>3, Zenon DEF DiscardPending
  <2>2. Refused(kv).kv = kv
    BY DEF Refused
  <2> QED
    BY <2>1, <2>2, RefusedSound, Zenon
<1>4. CASE kv.pending # NoRange /\ kv.rev # MaxRevision
  <2> DEFINE v == kv.rev + 1
             new == [kv EXCEPT !.pending = NoRange, !.segs = segs, !.pos = end, !.rev = v]
  <2>1. r = Kept([kv EXCEPT !.pending = NoRange, !.segs = segs, !.pos = end, !.rev = @ + 1])
    BY <1>4, Zenon DEF DiscardPending
  <2>2. /\ segs \in Seq(Seg) /\ EndOf(segs) = kv.pos
    BY <1>1, CommittedFacts
  <2> HIDE DEF segs
  <2>3. end = kv.pos
    <3>1. CASE segs = <<>>
      <4>1. EndOf(segs) = 0
        BY <3>1 DEF EndOf, StartsAt
      <4> QED
        BY <2>2, <3>1, <4>1
    <3>2. CASE segs # <<>>
      <4>1. Len(segs) \in Nat \ {0}
        BY <2>2, <3>2, EmptySeq
      <4>2. Len(segs) + 1 # 1 /\ Len(segs) + 1 - 1 = Len(segs)
        BY <4>1
      <4>3. EndOf(segs) = segs[Len(segs)].start + segs[Len(segs)].committed
        BY <4>2 DEF EndOf, StartsAt
      <4> QED
        BY <2>2, <3>2, <4>3 DEF Final
    <3> QED
      BY <3>1, <3>2
  <2> HIDE DEF end
  <2>4. [kv EXCEPT !.pending = NoRange, !.segs = segs, !.pos = end, !.rev = @ + 1] = new
    BY <1>1 DEF KvType
  <2>5. v \in Nat /\ v <= MaxRevision
    BY <1>1, <1>4, RevisionAssumption
  <2> HIDE DEF v
  <2>6. end \in Nat
    BY <1>1, <2>3, KvFields
  <2>7. /\ new \in KvType /\ new.segs = segs /\ new.pos = end /\ new.ctx = kv.ctx
        /\ new.rev = v /\ new.pending = NoRange
    BY <1>1, <2>2, <2>5, <2>6, NoRangeType DEF KvType
  <2> HIDE DEF new
  <2>8. KvOK(new, X)
    BY <2>3, <2>5, <2>7, Compacted DEF segs
  <2>9. r = Kept(new)
    BY <2>1, <2>4, Zenon
  <2> QED
    BY <2>8, <2>9, KeptSound, Zenon
<1> QED
  BY <1>2, <1>3, <1>4

\* KvState::fork.
LEMMA ForkOK ==
  ASSUME NEW X, NEW kv, KvOK(kv, X)
  PROVE  KvOK(Fork(kv), X) /\ Fork(kv).pos = kv.pos
<1> DEFINE segs == Committed(kv.segs)
           new == [kv EXCEPT !.segs = segs, !.graph = NoGraph, !.pending = NoRange]
<1>1. kv \in KvType /\ WellFormed(kv) /\ kv.rev <= MaxRevision
  BY DEF KvOK
<1>2. Fork(kv) = new
  BY <1>1 DEF Fork, KvType
<1>3. segs \in Seq(Seg)
  BY <1>1, CommittedFacts
<1>4. NoGraph \in TokenType
  BY DEF NoGraph, TokenType
<1> HIDE DEF segs
<1>5. /\ new \in KvType /\ new.segs = segs /\ new.pos = kv.pos /\ new.ctx = kv.ctx
      /\ new.rev = kv.rev /\ new.pending = NoRange
  BY <1>1, <1>3, <1>4, NoRangeType DEF KvType
<1> HIDE DEF new
<1>6. KvOK(new, X)
  BY <1>1, <1>5, Compacted DEF segs
<1> QED
  BY <1>2, <1>5, <1>6

-------------------------------------------------------------------------------
(* The sessions of a runtime. *)

Phases == {"idle", "prefill", "prompt", "decode", "quarantined", "asleep"}
Calling == {"prompt", "decode"}
SessionType(H) ==
    [phase : Phases, kv : KvType \cup {NoKv}, evaluated : Seq(Token), identity : Nat,
     text : Seq(Token), prompt : Nat, limit : Int, captured : BOOLEAN, host : H]
SignatureType == [identity : Nat, revision : Nat, context : Nat]

(* The cache that a host copy is one of. *)
HostKv(h) ==
    [segs |-> [i \in 1..Len(h.segs) |-> h.segs[i].seg], pos |-> h.pos, ctx |-> h.ctx,
     rev |-> 0, graph |-> NoGraph, pending |-> NoRange]
HostOK(h) == HostKv(h) \in KvType /\ WellFormed(HostKv(h))

(* The cache of every session is in order; a session in a prefill or in a  *)
(* call has one.                                                           *)
SessionsOK(ss, X) ==
    /\ ss \in [Session -> SessionType({ss[s].host : s \in Session})]
    /\ \A s \in Session :
         /\ HostOK(ss[s].host)
         /\ ss[s].kv = NoKv \/ KvOK(ss[s].kv, X)
         /\ ss[s].phase \in Calling \cup {"prefill"} => ss[s].kv # NoKv

CallOK(ss, c) == \A s \in Session : ss[s].phase \in Calling <=> c = s

GenerationInv ==
    /\ profile \in Profiles
    /\ signature \in Seq(SignatureType)
    /\ SessionsOK(sess, Storages)
    /\ CallOK(sess, call)

\* The sessions by a set of host copies.
LEMMA SessionsIntro ==
  ASSUME NEW ss, NEW X, NEW H, \A h \in H : HostOK(h),
         ss \in [Session -> SessionType(H)],
         \A s \in Session :
           /\ ss[s].kv = NoKv \/ KvOK(ss[s].kv, X)
           /\ ss[s].phase \in Calling \cup {"prefill"} => ss[s].kv # NoKv
  PROVE  SessionsOK(ss, X)
<1> DEFINE G == {ss[s].host : s \in Session}
<1>1. \A s \in Session : ss[s] \in SessionType(H) /\ ss[s].host \in G /\ ss[s].host \in H
  BY DEF SessionType
<1> HIDE DEF G
<1>2. \A s \in Session : ss[s] \in SessionType(G)
  BY <1>1 DEF SessionType
<1>3. ss \in [Session -> SessionType(G)]
  BY <1>2
<1> QED
  BY <1>1, <1>3 DEF SessionsOK, G

\* The sessions have host copies in order.
LEMMA SessionsElim ==
  ASSUME NEW ss, NEW X, SessionsOK(ss, X)
  PROVE  \E H : /\ \A h \in H : HostOK(h)
                /\ ss \in [Session -> SessionType(H)]
<1> DEFINE G == {ss[s].host : s \in Session}
<1>1. \A h \in G : HostOK(h)
  BY DEF SessionsOK
<1> QED
  BY <1>1 DEF SessionsOK

\* A session and its fields.
LEMMA SessionFacts ==
  ASSUME NEW ss, NEW X, SessionsOK(ss, X), NEW s \in Session
  PROVE  /\ ss[s].phase \in Phases /\ ss[s].evaluated \in Seq(Token)
         /\ ss[s].text \in Seq(Token) /\ ss[s].identity \in Nat /\ ss[s].prompt \in Nat
         /\ ss[s].limit \in Int /\ ss[s].captured \in BOOLEAN
         /\ ss[s].kv \in KvType \cup {NoKv} /\ HostOK(ss[s].host)
         /\ ss[s].kv # NoKv => KvOK(ss[s].kv, X)
         /\ ss[s].phase \in Calling \cup {"prefill"} => ss[s].kv # NoKv
<1> DEFINE G == {ss[t].host : t \in Session}
<1>1. ss[s] \in SessionType(G)
  BY DEF SessionsOK
<1> HIDE DEF G
<1>2. /\ HostOK(ss[s].host) /\ (ss[s].kv # NoKv => KvOK(ss[s].kv, X))
      /\ ss[s].phase \in Calling \cup {"prefill"} => ss[s].kv # NoKv
  BY DEF SessionsOK
<1> QED
  BY <1>1, <1>2 DEF SessionType

\* One session is replaced by another in order.
LEMMA SessionReplaced ==
  ASSUME NEW ss, NEW X, SessionsOK(ss, X), NEW s \in Session,
         NEW H, \A h \in H : HostOK(h), NEW r \in SessionType(H),
         r.kv = NoKv \/ KvOK(r.kv, X),
         r.phase \in Calling \cup {"prefill"} => r.kv # NoKv
  PROVE  /\ SessionsOK([ss EXCEPT ![s] = r], X)
         /\ [ss EXCEPT ![s] = r][s] = r
         /\ \A t \in Session \ {s} : [ss EXCEPT ![s] = r][t] = ss[t]
<1>1. PICK G : (\A h \in G : HostOK(h)) /\ ss \in [Session -> SessionType(G)]
  BY SessionsElim
<1> DEFINE K == H \cup G
           new == [ss EXCEPT ![s] = r]
<1>2. \A t \in Session : ss[t] \in SessionType(K)
  BY <1>1 DEF SessionType
<1>3. r \in SessionType(K)
  BY DEF SessionType
<1>4. \A h \in K : HostOK(h)
  BY <1>1
<1> HIDE DEF K
<1>5. /\ new \in [Session -> SessionType(K)] /\ new[s] = r
      /\ \A t \in Session \ {s} : new[t] = ss[t]
  BY <1>1, <1>2, <1>3
<1> HIDE DEF new
<1>6. \A t \in Session :
        /\ new[t].kv = NoKv \/ KvOK(new[t].kv, X)
        /\ new[t].phase \in Calling \cup {"prefill"} => new[t].kv # NoKv
  BY <1>5 DEF SessionsOK
<1>7. SessionsOK(new, X)
  BY <1>4, <1>5, <1>6, SessionsIntro
<1> QED
  BY <1>5, <1>7 DEF new

\* A cache that is in order is one.
LEMMA NoCacheFacts ==
  /\ NoKv.rev = -1 /\ NoKv.segs = <<>> /\ NoKv.pos = 0
  /\ \A kv, X : KvOK(kv, X) => kv # NoKv /\ kv \in KvType
<1>1. NoKv.rev = -1 /\ NoKv.segs = <<>> /\ NoKv.pos = 0
  BY DEF NoKv, NewKv
<1>2. ASSUME NEW kv, NEW X, KvOK(kv, X)
      PROVE  kv # NoKv /\ kv \in KvType
  <2>1. kv \in KvType
    BY <1>2 DEF KvOK
  <2>2. kv.rev \in Nat
    BY <2>1, KvFields
  <2> QED
    BY <1>1, <2>1, <2>2
<1> QED
  BY <1>1, <1>2

\* The host copy that stands for none.
LEMMA NoHostOK == HostOK(NoHost)
<1> DEFINE h == NoHost
           segs == [i \in 1..Len(h.segs) |-> h.segs[i].seg]
<1>1. h.segs = <<>> /\ h.pos = 0 /\ h.ctx = 0 /\ Len(<<>>) = 0
  BY DEF NoHost
<1>2. segs \in Seq(Seg) /\ Len(segs) = 0
  BY <1>1
<1> HIDE DEF segs
<1>3. NoGraph \in TokenType
  BY DEF NoGraph, TokenType
<1> DEFINE k == [segs |-> segs, pos |-> 0, ctx |-> 0, rev |-> 0, graph |-> NoGraph,
                 pending |-> NoRange]
<1>4. HostKv(NoHost) = k
  BY <1>1 DEF HostKv, segs
<1>5. k \in KvType
  BY <1>2, <1>3, KvRecord, NoRangeType
<1>6. k.segs = segs /\ k.pos = 0 /\ k.ctx = 0 /\ k.pending = NoRange
  OBVIOUS
<1> HIDE DEF k
<1>7. WellFormed(k)
  BY <1>2, <1>6, WellFormedParts DEF EndOf, StartsAt
<1> QED
  BY <1>4, <1>5, <1>7 DEF HostOK

\* A session without anything, and one that has only a cache.
LEMMA EmptyFacts ==
  /\ Empty \in SessionType({NoHost}) /\ \A h \in {NoHost} : HostOK(h)
  /\ Empty.kv = NoKv /\ Empty.phase = "idle" /\ Empty.host = NoHost
<1>1. NoKv \in KvType \cup {NoKv}
  OBVIOUS
<1>2. <<>> \in Seq(Token)
  OBVIOUS
<1>3. Empty \in SessionType({NoHost})
  BY <1>1, <1>2 DEF Empty, SessionType, Phases
<1> QED
  BY <1>3, NoHostOK DEF Empty

\* The storages of the device.
LEMMA StorageFacts ==
  ASSUME profile \in Profiles
  PROVE  /\ profile.storages \in Nat /\ profile.chunk \in Nat /\ profile.longest \in Nat
         /\ profile.graphs \in BOOLEAN
         /\ Storages \subseteq Nat \ {NoStorage} /\ Storages \subseteq 0..profile.storages
<1>1. profile \in [graphs : BOOLEAN, hibernates : BOOLEAN, chunk : Nat,
                   storages : Nat, longest : Nat]
  BY SessionsAssumption
<1>2. /\ profile.storages \in Nat /\ profile.chunk \in Nat /\ profile.longest \in Nat
      /\ profile.graphs \in BOOLEAN
  BY <1>1
<1> QED
  BY <1>2 DEF Storages, NoStorage

\* A storage that is allocated is one of the device, or none.
LEMMA AllocateFacts ==
  ASSUME profile \in Profiles, NEW ss
  PROVE  Allocate(ss) \in Storages \cup {NoStorage}
<1> DEFINE free == Storages \ InUse(ss)
<1>1. CASE free = {}
  BY <1>1 DEF Allocate
<1>2. CASE free # {}
  <2>1. free \subseteq Nat
    BY StorageFacts
  <2>2. \E x \in free : \A y \in free : x <= y
    BY <1>2, <2>1, LeastNat
  <2>3. Allocate(ss) = CHOOSE x \in free : \A y \in free : x <= y
    BY <1>2 DEF Allocate
  <2>4. Allocate(ss) \in free
    BY <2>2, <2>3, Zenon
  <2> QED
    BY <2>4
<1> QED
  BY <1>1, <1>2

\* The least number that a finite set does not hold.
LEMMA UnheldFacts ==
  ASSUME NEW held, IsFiniteSet(held)
  PROVE  Unheld(held) \in Nat /\ Unheld(held) \notin held
<1> DEFINE c == Cardinality(held)
           S == {n \in 0..c : n \notin held}
<1>1. c \in Nat
  BY FS_CardinalityType
<1>2. S # {}
  <2> SUFFICES ASSUME S = {}
               PROVE  FALSE
    OBVIOUS
  <2>1. 0..c \in SUBSET held
    OBVIOUS
  <2>2. Cardinality(0..c) <= c
    BY <2>1, FS_Subset
  <2>3. Cardinality(0..c) = IF 0 > c THEN 0 ELSE c - 0 + 1
    BY <1>1, FS_Interval
  <2> HIDE DEF c
  <2> QED
    BY <1>1, <2>2, <2>3
<1>3. S \subseteq Nat
  OBVIOUS
<1>4. PICK m \in S : \A k \in S : m <= k
  <2> HIDE DEF S
  <2> QED
    BY <1>2, <1>3, LeastNat
<1>5. m \in 0..c /\ m \notin held
  OBVIOUS
<1> HIDE DEF c
<1>6. \A k \in 0..m - 1 : k \in held
  <2> SUFFICES ASSUME NEW k \in 0..m - 1, k \notin held
               PROVE  FALSE
    OBVIOUS
  <2>1. k \in 0..c /\ k < m
    BY <1>1, <1>5
  <2>2. k \in S
    BY <2>1
  <2> HIDE DEF S
  <2> QED
    BY <1>1, <1>4, <1>5, <2>1, <2>2
<1>7. \E n \in 0..c : n \notin held /\ \A k \in 0..(n - 1) : k \in held
  BY <1>5, <1>6
<1>8. /\ Unheld(held) \in 0..c /\ Unheld(held) \notin held
  BY <1>7, Zenon DEF Unheld, c
<1> QED
  BY <1>1, <1>8

\* What a function takes on a finite set.
LEMMA ImageFinite ==
  ASSUME NEW S, IsFiniteSet(S), NEW f
  PROVE  IsFiniteSet({f[x] : x \in S})
<1> DEFINE T == {f[x] : x \in S}
           g == [x \in S |-> f[x]]
<1>1. g \in [S -> T] /\ \A t \in T : \E x \in S : g[x] = t
  OBVIOUS
<1>2. g \in Surjection(S, T)
  BY <1>1 DEF Surjection
<1> HIDE DEF g, T
<1>3. IsFiniteSet(T)
  BY <1>2, FS_Surjection
<1> QED
  BY <1>3 DEF T

\* next_decode_graph_generation is a number that no session holds.
LEMMA GenerationFacts ==
  /\ NextGeneration \in Nat /\ NextGeneration # generation
  /\ \A s \in Session : sess[s].kv.graph.generation # NextGeneration
<1> DEFINE f == [s \in Session |-> sess[s].kv.graph.generation]
           A == {f[s] : s \in Session}
           held == {generation} \cup A
<1>1. IsFiniteSet(A)
  <2> HIDE DEF f
  <2> QED
    BY SessionsAssumption, ImageFinite
<1>2. A = {sess[s].kv.graph.generation : s \in Session}
  OBVIOUS
<1> HIDE DEF A
<1>3. IsFiniteSet(held)
  <2>1. IsFiniteSet({generation})
    BY FS_Singleton
  <2> QED
    BY <1>1, <2>1, FS_Union
<1>4. NextGeneration = Unheld(held)
  BY <1>2 DEF NextGeneration
<1>5. NextGeneration \in Nat /\ NextGeneration \notin held
  BY <1>3, <1>4, UnheldFacts
<1> QED
  BY <1>2, <1>5

\* assign_batch_signature: a new identity is a number that no session and no
\* entry of the signature has.
LEMMA IdentityFacts ==
  ASSUME NEW ss, signature \in Seq(SignatureType)
  PROVE  /\ NextIdentity(ss) \in Nat /\ NextIdentity(ss) # 0
         /\ \A s \in Session : ss[s].identity # NextIdentity(ss)
         /\ \A i \in 1..Len(signature) : signature[i].identity # NextIdentity(ss)
<1> DEFINE f == [s \in Session |-> ss[s].identity]
           g == [i \in 1..Len(signature) |-> signature[i].identity]
           A == {f[s] : s \in Session}
           B == {g[i] : i \in 1..Len(signature)}
           held == {0} \cup A \cup B
<1>1. IsFiniteSet(A)
  <2> HIDE DEF f
  <2> QED
    BY SessionsAssumption, ImageFinite
<1>2. IsFiniteSet(B)
  <2>1. IsFiniteSet(1..Len(signature))
    BY LenProperties, FS_Interval
  <2> HIDE DEF g
  <2> QED
    BY <2>1, ImageFinite
<1>3. A = {ss[s].identity : s \in Session}
  OBVIOUS
<1>4. B = {signature[i].identity : i \in 1..Len(signature)}
  OBVIOUS
<1> HIDE DEF A, B
<1>5. IsFiniteSet(held)
  <2>1. IsFiniteSet({0})
    BY FS_Singleton
  <2>2. IsFiniteSet({0} \cup A)
    BY <1>1, <2>1, FS_Union
  <2> QED
    BY <1>2, <2>2, FS_Union
<1>6. NextIdentity(ss) = Unheld(held)
  BY <1>3, <1>4 DEF NextIdentity
<1>7. NextIdentity(ss) \in Nat /\ NextIdentity(ss) \notin held
  BY <1>5, <1>6, UnheldFacts
<1> QED
  BY <1>3, <1>4, <1>7

\* prepare_append for a session of the runtime.
LEMMA PreparedSound ==
  ASSUME profile \in Profiles, NEW ss, NEW s, KvOK(ss[s].kv, Storages),
         NEW tokens \in Nat \ {0}, NEW growth \in Nat, NEW fails,
         NEW r, r = Prepared(ss, s, tokens, growth, fails)
  PROVE  Sound(r, ss[s].kv, Storages) /\ Appends(r, ss[s].kv, tokens)
<1> DEFINE fresh == IF fails THEN NoStorage ELSE Allocate(ss)
<1>1. fresh \in Storages \cup {NoStorage}
  BY AllocateFacts
<1>2. r = PrepareAppend(ss[s].kv, tokens, growth, Unique(ss, s), fresh)
  BY Zenon DEF Prepared
<1> HIDE DEF fresh
<1>3. Operands(Storages, tokens, growth, fresh)
  BY <1>1, StorageFacts DEF Operands
<1>4. PICK kv, uniq : kv = ss[s].kv /\ uniq = Unique(ss, s)
  OBVIOUS
<1>5. KvOK(kv, Storages) /\ r = PrepareAppend(kv, tokens, growth, uniq, fresh)
  BY <1>2, <1>4, Zenon
<1>6. Sound(r, kv, Storages) /\ Appends(r, kv, tokens)
  BY <1>3, <1>5, PrepareAppendSound
<1> QED
  BY <1>4, <1>6, Zenon

\* The length of the common prefix of two texts.
LEMMA CommonPrefixFacts ==
  ASSUME NEW T, NEW a \in Seq(T), NEW b \in Seq(T)
  PROVE  /\ CommonPrefix(a, b) \in 0..Len(a) /\ CommonPrefix(a, b) \in 0..Len(b)
         /\ \A i \in 1..CommonPrefix(a, b) : a[i] = b[i]
<1> DEFINE l == Least(Len(a), Len(b))
           S == {n \in 0..l : \A i \in 1..n : a[i] = b[i]}
<1>1. Len(a) \in Nat /\ Len(b) \in Nat
  BY LenProperties
<1>2. l \in Nat /\ l <= Len(a) /\ l <= Len(b)
  BY <1>1 DEF Least
<1> HIDE DEF l
<1>3. S \subseteq 0..l /\ 0 \in S
  BY <1>2
<1>4. PICK m \in S : \A k \in S : k <= m
  <2> HIDE DEF S
  <2> QED
    BY <1>2, <1>3, GreatestNat
<1>5. m \in 0..l /\ \A i \in 1..m : a[i] = b[i]
  OBVIOUS
<1>6. m < l => a[m + 1] # b[m + 1]
  <2> SUFFICES ASSUME m < l, a[m + 1] = b[m + 1]
               PROVE  FALSE
    OBVIOUS
  <2>1. m + 1 \in 0..l /\ ~(m + 1 <= m)
    BY <1>2, <1>5
  <2>2. \A i \in 1..m + 1 : i \in 1..m \/ i = m + 1
    BY <1>2, <1>5
  <2>3. m + 1 \in S
    BY <1>5, <2>1, <2>2
  <2> HIDE DEF S
  <2> QED
    BY <1>4, <2>1, <2>3
<1>7. \E n \in 0..l : /\ \A i \in 1..n : a[i] = b[i]
                      /\ n < l => a[n + 1] # b[n + 1]
  BY <1>5, <1>6
<1>8. CommonPrefix(a, b) \in 0..l /\ \A i \in 1..CommonPrefix(a, b) : a[i] = b[i]
  BY <1>7, Zenon DEF CommonPrefix, l
<1> QED
  BY <1>1, <1>2, <1>8

\* decode_graph_bucket returns one of the context sizes.
LEMMA BucketFacts ==
  ASSUME NEW prompt, NEW limit, Fits(prompt, limit)
  PROVE  Bucket(prompt, limit) \in Nat
<1> DEFINE fit == {b \in Buckets : b >= Len(prompt) + limit - 1}
<1>1. fit # {} /\ fit \subseteq Nat
  BY SessionsAssumption DEF Fits
<1>2. Bucket(prompt, limit) = CHOOSE b \in fit : \A c \in fit : b <= c
  BY DEF Bucket
<1> HIDE DEF fit
<1>3. \E b \in fit : \A c \in fit : b <= c
  BY <1>1, LeastNat
<1> QED
  BY <1>1, <1>2, <1>3, Zenon

\* A cache that nothing was appended to is in order.
LEMMA NewKvOK ==
  ASSUME NEW X, NEW ctx \in Nat
  PROVE  KvOK(NewKv(ctx), X)
<1> DEFINE k == NewKv(ctx)
<1>1. /\ k.segs = <<>> /\ k.pos = 0 /\ k.ctx = ctx /\ k.rev = 0 /\ k.pending = NoRange
      /\ Len(<<>>) = 0 /\ <<>> \in Seq(Seg)
  BY DEF NewKv
<1>2. NoGraph \in TokenType
  BY DEF NoGraph, TokenType
<1>3. k \in KvType
  BY <1>1, <1>2, KvRecord, NoRangeType DEF NewKv
<1> HIDE DEF k
<1>4. WellFormed(k)
  BY <1>1, WellFormedParts DEF EndOf, StartsAt
<1>5. KvOK(k, X)
  BY <1>1, <1>3, <1>4, RevisionAssumption DEF KvOK, Within
<1> QED
  BY <1>5 DEF k

\* generation_reuse: what is evaluated again, and in which chunks.
LEMMA ReuseFacts ==
  ASSUME GenerationInv, NEW s \in Session, NEW prompt \in Prompts, NEW ctx
  PROVE  /\ Reused(s, prompt, ctx) \in 0..Len(prompt) /\ Len(prompt) \in Nat \ {0}
         /\ ~Compatible(s, prompt, ctx) => Reused(s, prompt, ctx) = 0
         /\ \A k \in Nat \ {0} : ChunkTokens(k) \in Nat \ {0}
         /\ ChunkTokens(0) = 0
         /\ \A k \in Nat : ChunkTokens(k) <= k
         /\ \A k \in Nat : ChunkGrowth(k) \in Nat
<1>1. prompt \in Seq(Token) /\ prompt # <<>>
  BY SessionsAssumption
<1>2. Len(prompt) \in Nat \ {0}
  BY <1>1, EmptySeq
<1>3. sess[s].evaluated \in Seq(Token) /\ profile \in Profiles
  BY SessionFacts DEF GenerationInv
<1> DEFINE common == CommonPrefix(prompt, sess[s].evaluated)
<1>4. common \in 0..Len(prompt)
  BY <1>1, <1>3, CommonPrefixFacts
<1>5. Reused(s, prompt, ctx) = IF ~Compatible(s, prompt, ctx) THEN 0
        ELSE IF common = Len(prompt) /\ common < Len(sess[s].evaluated)
             THEN common - 1 ELSE common
  BY DEF Reused
<1> HIDE DEF common
<1>6. /\ Reused(s, prompt, ctx) \in 0..Len(prompt)
      /\ ~Compatible(s, prompt, ctx) => Reused(s, prompt, ctx) = 0
  BY <1>2, <1>4, <1>5
<1>7. profile.chunk \in Nat /\ Growth \in Nat \ {0}
  BY <1>3, StorageFacts, SessionsAssumption
<1>8. /\ \A k \in Nat \ {0} : ChunkTokens(k) \in Nat \ {0}
      /\ ChunkTokens(0) = 0
      /\ \A k \in Nat : ChunkTokens(k) <= k
  BY <1>7 DEF ChunkTokens, Least, Most
<1>9. \A k \in Nat : ChunkGrowth(k) \in Nat
  BY <1>7 DEF ChunkGrowth
<1> QED
  BY <1>2, <1>6, <1>8, <1>9

\* take_generation_state: a preparation that fails leaves the session's
\* cache as it was, and one that succeeds leaves a cache in order.
LEMMA TakeSound ==
  ASSUME GenerationInv, NEW s \in Session, NEW prompt \in Prompts, NEW ctx \in Nat,
         NEW fails \in BOOLEAN, NEW r, r = TakeGenerationState(s, prompt, ctx, fails)
  PROVE  /\ r.ok \in BOOLEAN /\ (r.ok => KvOK(r.kv, Storages))
         /\ ~r.ok /\ Compatible(s, prompt, ctx) => r.kv = sess[s].kv
<1> DEFINE kv == sess[s].kv
           reused == Reused(s, prompt, ctx)
           n == ChunkTokens(Len(prompt) - reused)
           growth == ChunkGrowth(n)
           fresh == IF fails THEN NoStorage ELSE Allocate(sess)
           uniq == Unique(sess, s)
<1>1. r = IF ~Compatible(s, prompt, ctx)
          THEN PrepareAppend(NewKv(ctx), n, growth, {}, fresh)
          ELSE IF ShapeGrowth(s, prompt, ctx)
          THEN PrepareShapeTransition(kv, ctx, reused, n, growth, uniq, fresh)
          ELSE IF n = 0 THEN Truncate(kv, reused)
          ELSE PrepareAppendAt(kv, reused, n, growth, uniq, fresh)
  BY Zenon DEF TakeGenerationState
<1>2. profile \in Profiles /\ (kv # NoKv => KvOK(kv, Storages))
  BY SessionFacts DEF GenerationInv
<1>3. fresh \in Storages \cup {NoStorage}
  BY <1>2, AllocateFacts
<1>4. /\ reused \in 0..Len(prompt) /\ Len(prompt) \in Nat \ {0}
      /\ ~Compatible(s, prompt, ctx) => reused = 0
  BY ReuseFacts
<1>5. Compatible(s, prompt, ctx) => kv # NoKv
  BY DEF Compatible
<1> HIDE DEF kv, reused, fresh, uniq
<1>6. /\ reused \in Nat /\ Len(prompt) - reused \in Nat
      /\ ~Compatible(s, prompt, ctx) => Len(prompt) - reused \in Nat \ {0}
  BY <1>4
<1>7. /\ n \in Nat /\ growth \in Nat
      /\ ~Compatible(s, prompt, ctx) => n \in Nat \ {0}
  <2>1. PICK k \in Nat : k = Len(prompt) - reused
    BY <1>6
  <2>2. k = 0 \/ k \in Nat \ {0}
    OBVIOUS
  <2>3. ChunkTokens(k) \in Nat
    BY <2>2, ReuseFacts
  <2>4. ~Compatible(s, prompt, ctx) => ChunkTokens(k) \in Nat \ {0}
    BY <1>6, <2>1, ReuseFacts
  <2>5. n = ChunkTokens(k)
    BY <2>1
  <2> HIDE DEF n
  <2> QED
    BY <2>3, <2>4, <2>5, ReuseFacts
<1> HIDE DEF n, growth
<1>8. n # 0 => Operands(Storages, n, growth, fresh)
  BY <1>2, <1>3, <1>7, StorageFacts DEF Operands
<1>9. CASE ~Compatible(s, prompt, ctx)
  <2>1. r = PrepareAppend(NewKv(ctx), n, growth, {}, fresh)
    BY <1>1, <1>9, Zenon
  <2>2. PICK k : k = NewKv(ctx)
    OBVIOUS
  <2>3. KvOK(k, Storages)
    BY <2>2, NewKvOK, Zenon
  <2>4. n # 0
    BY <1>7, <1>9
  <2>5. Sound(r, k, Storages)
    BY <1>8, <2>1, <2>2, <2>3, <2>4, PrepareAppendSound
  <2> QED
    BY <1>9, <2>5 DEF Sound
<1>10. CASE Compatible(s, prompt, ctx)
  <2>1. KvOK(kv, Storages)
    BY <1>2, <1>5, <1>10
  <2>2. CASE ShapeGrowth(s, prompt, ctx)
    <3>1. r = PrepareShapeTransition(kv, ctx, reused, n, growth, uniq, fresh)
      BY <1>1, <1>10, <2>2, Zenon
    <3>2. Sound(r, kv, Storages)
      BY <1>6, <1>8, <2>1, <3>1, ShapeTransitionSound
    <3> QED
      BY <3>2 DEF Sound, kv
  <2>3. CASE ~ShapeGrowth(s, prompt, ctx) /\ n = 0
    <3>1. r = Truncate(kv, reused)
      BY <1>1, <1>10, <2>3, Zenon
    <3>2. Sound(r, kv, Storages)
      BY <1>6, <2>1, <3>1, TruncateSound
    <3> QED
      BY <3>2 DEF Sound, kv
  <2>4. CASE ~ShapeGrowth(s, prompt, ctx) /\ n # 0
    <3>1. r = PrepareAppendAt(kv, reused, n, growth, uniq, fresh)
      BY <1>1, <1>10, <2>4, Zenon
    <3>2. Sound(r, kv, Storages)
      BY <1>6, <1>8, <2>1, <2>4, <3>1, PrepareAppendAtSound
    <3> QED
      BY <3>2 DEF Sound, kv
  <2> QED
    BY <2>2, <2>3, <2>4
<1> QED
  BY <1>9, <1>10

\* One append of the forward pass: what it leaves when it succeeds.
LEMMA ForwardSound ==
  ASSUME profile \in Profiles, NEW s \in Session, KvOK(sess[s].kv, Storages),
         NEW tokens, Len(tokens) \in Nat \ {0}, NEW growth \in Nat,
         NEW f, f = Forward(s, tokens, growth)
  PROVE  f.ok => /\ KvOK(f.kv, Storages) /\ f.kv.ctx = sess[s].kv.ctx
                 /\ f.kv.pos = sess[s].kv.pos + Len(tokens)
                 /\ f.kv.pending = NoRange
<1> DEFINE Writable(k) == \A t \in Session \ {s} :
                             k.segs[k.pending.index].storage \notin Held(sess, t)
           Written(k, c) == [ok |-> c.ok, kv |-> c.kv, mem |-> WriteSpan(mem, k, tokens)]
           n == Len(tokens)
<1>1. PICK p : p = Prepared(sess, s, Len(tokens), growth, FALSE)
  OBVIOUS
<1>2. f = IF p.ok /\ Writable(p.kv)
          THEN Written(p.kv, CommitAppend(p.kv, p.kv.pending))
          ELSE [ok |-> FALSE, kv |-> p.kv, mem |-> mem]
  BY <1>1, Zenon DEF Forward
<1> HIDE DEF n, Writable
<1>3. Sound(p, sess[s].kv, Storages) /\ Appends(p, sess[s].kv, Len(tokens))
  <2>1. n \in Nat \ {0} /\ p = Prepared(sess, s, n, growth, FALSE)
    BY <1>1 DEF n
  <2>2. Sound(p, sess[s].kv, Storages) /\ Appends(p, sess[s].kv, n)
    BY <2>1, PreparedSound
  <2> QED
    BY <2>2 DEF n
<1> SUFFICES ASSUME f.ok
             PROVE  /\ KvOK(f.kv, Storages) /\ f.kv.ctx = sess[s].kv.ctx
                    /\ f.kv.pos = sess[s].kv.pos + Len(tokens)
                    /\ f.kv.pending = NoRange
  OBVIOUS
<1>4. p.ok /\ f = Written(p.kv, CommitAppend(p.kv, p.kv.pending))
  BY <1>2
<1>5. PICK k, c : k = p.kv /\ c = CommitAppend(k, k.pending)
  OBVIOUS
<1>6. KvOK(k, Storages)
  BY <1>3, <1>4, <1>5 DEF Sound
<1>7. /\ Sound(c, k, Storages)
      /\ c.ok => /\ c.kv.pos = k.pos + k.pending.tokens /\ c.kv.ctx = k.ctx
                 /\ c.kv.pending = NoRange
  BY <1>5, <1>6, CommitSound
<1>8. f.ok = c.ok /\ f.kv = c.kv
  <2>1. f = [ok |-> c.ok, kv |-> c.kv, mem |-> WriteSpan(mem, k, tokens)]
    BY <1>4, <1>5, Zenon
  <2>2. PICK b \in BOOLEAN : b = c.ok
    BY <1>7 DEF Sound
  <2>3. PICK m : m = WriteSpan(mem, k, tokens)
    OBVIOUS
  <2>4. f = [ok |-> b, kv |-> c.kv, mem |-> m]
    BY <2>1, <2>2, <2>3, Zenon
  <2>5. f.ok = b /\ f.kv = c.kv
    BY <2>4
  <2> QED
    BY <2>2, <2>5, Zenon
<1>9. k.pos = sess[s].kv.pos /\ k.ctx = sess[s].kv.ctx /\ k.pending.tokens = Len(tokens)
  BY <1>3, <1>4, <1>5 DEF Appends
<1> QED
  BY <1>7, <1>8, <1>9 DEF Sound

-------------------------------------------------------------------------------
(* The steps of the runtime. *)

\* A step that assigns all the sessions.
LEMMA SessionsStep ==
  ASSUME GenerationInv, NEW ss, sess' = ss, profile' = profile,
         signature' \in Seq(SignatureType), SessionsOK(ss, Storages),
         CallOK(ss, call')
  PROVE  GenerationInv'
<1>1. Storages' = Storages
  BY DEF Storages
<1>2. SessionsOK(sess', Storages')
  BY <1>1, Zenon
<1>3. CallOK(sess', call')
  BY Zenon
<1>4. profile' \in Profiles
  BY DEF GenerationInv
<1> QED
  BY <1>2, <1>3, <1>4 DEF GenerationInv, SessionsOK, CallOK, Storages

\* A step that assigns one session.
LEMMA SessionStep ==
  ASSUME GenerationInv, NEW s \in Session, NEW H, \A h \in H : HostOK(h),
         NEW r \in SessionType(H), r.kv = NoKv \/ KvOK(r.kv, Storages),
         r.phase \in Calling \cup {"prefill"} => r.kv # NoKv,
         sess' = [sess EXCEPT ![s] = r], profile' = profile,
         signature' \in Seq(SignatureType),
         r.phase \in Calling <=> call' = s,
         \A t \in Session \ {s} : call' = t <=> call = t
  PROVE  GenerationInv'
<1>1. SessionsOK(sess, Storages) /\ CallOK(sess, call)
  BY DEF GenerationInv
<1> DEFINE ss == [sess EXCEPT ![s] = r]
<1>2. /\ SessionsOK(ss, Storages) /\ ss[s] = r
      /\ \A t \in Session \ {s} : ss[t] = sess[t]
  <2>1. PICK X, old : X = Storages /\ old = sess
    OBVIOUS
  <2>2. SessionsOK(old, X) /\ (r.kv = NoKv \/ KvOK(r.kv, X))
    BY <1>1, <2>1, Zenon
  <2>3. /\ SessionsOK([old EXCEPT ![s] = r], X) /\ [old EXCEPT ![s] = r][s] = r
        /\ \A t \in Session \ {s} : [old EXCEPT ![s] = r][t] = old[t]
    BY <2>2, SessionReplaced
  <2> QED
    BY <2>1, <2>3, Zenon
<1> HIDE DEF ss
<1>3. CallOK(ss, call')
  BY <1>1, <1>2 DEF CallOK
<1> QED
  BY <1>2, <1>3, SessionsStep DEF ss

\* The session becomes one that holds nothing.
LEMMA EmptyStep ==
  ASSUME GenerationInv, NEW s \in Session,
         sess' = [sess EXCEPT ![s] = Empty], profile' = profile,
         signature' \in Seq(SignatureType),
         call' \notin Session \/ (call' = call /\ sess[s].phase \notin Calling),
         call' \notin Session => call = s \/ call' = call
  PROVE  GenerationInv'
<1>1. CallOK(sess, call)
  BY DEF GenerationInv
<1>2. /\ Empty.phase \in Calling <=> call' = s
      /\ \A t \in Session \ {s} : call' = t <=> call = t
  BY <1>1, EmptyFacts DEF CallOK, Calling
<1>3. Empty.phase \notin Calling \cup {"prefill"}
  BY EmptyFacts DEF Calling
<1> QED
  BY <1>2, <1>3, EmptyFacts, SessionStep

\* What a retired, a kept and a cleared graph leave of the signature.
LEMMA SignatureFacts ==
  ASSUME GenerationInv
  PROVE  /\ <<>> \in Seq(SignatureType)
         /\ RetireDecodeGraph => signature' \in Seq(SignatureType)
         /\ KeepGraph => signature' \in Seq(SignatureType)
         /\ NoCall \notin Session
<1>1. NoCall \notin Session
  BY SessionsAssumption, Zenon DEF NoCall
<1>2. signature \in Seq(SignatureType)
  BY DEF GenerationInv
<1>3. <<>> \in Seq(SignatureType)
  OBVIOUS
<1> QED
  BY <1>1, <1>2, <1>3 DEF RetireDecodeGraph, KeepGraph

\* commit_generation_session.
LEMMA SettledFacts ==
  ASSUME GenerationInv, NEW s \in Session, KvOK(sess[s].kv, Storages)
  PROVE  /\ Settled(s) \in SessionType({NoHost}) /\ Settled(s).kv = sess[s].kv
         /\ Settled(s).phase = "idle"
<1> DEFINE kv == sess[s].kv
           text == sess[s].text
           e == SubSeq(text, 1, Least(kv.pos, Len(text)))
<1>1. kv \in KvType /\ text \in Seq(Token)
  BY SessionFacts DEF GenerationInv, KvOK
<1>2. Least(kv.pos, Len(text)) \in 0..Len(text)
  BY <1>1, KvFields, LenProperties DEF Least
<1>3. e \in Seq(Token)
  BY <1>1, <1>2, SubSeqProperties
<1>4. Settled(s) = [Empty EXCEPT !.kv = kv, !.evaluated = e]
  BY DEF Settled
<1> HIDE DEF kv, e
<1>5. [Empty EXCEPT !.kv = kv, !.evaluated = e] \in SessionType({NoHost})
  BY <1>1, <1>3, EmptyFacts DEF SessionType
<1>6. /\ [Empty EXCEPT !.kv = kv, !.evaluated = e].kv = kv
      /\ [Empty EXCEPT !.kv = kv, !.evaluated = e].phase = "idle"
  BY DEF Empty
<1> QED
  BY <1>4, <1>5, <1>6 DEF kv

\* A request that fails in its preparation leaves every session as it was.
LEMMA PrepareFailsStep ==
  ASSUME GenerationInv, NEW s \in Session, NEW prompt \in Prompts, NEW limit,
         NEW fails \in BOOLEAN, PrepareFails(s, prompt, limit, fails)
  PROVE  GenerationInv' /\ sess' = sess
<1> DEFINE ctx == Bucket(prompt, limit)
           taken == TakeGenerationState(s, prompt, ctx, fails)
           kept == IF Compatible(s, prompt, ctx) THEN taken.kv ELSE sess[s].kv
<1>1. /\ Fits(prompt, limit) /\ ~taken.ok /\ profile' = profile /\ call' = call
      /\ sess' = [sess EXCEPT ![s].kv = kept]
  BY Zenon DEF PrepareFails, Begins, Become
<1>2. KeepGraph \/ RetireDecodeGraph
  BY Zenon DEF PrepareFails
<1>3. ctx \in Nat
  BY <1>1, BucketFacts
<1> HIDE DEF ctx
<1>4. Compatible(s, prompt, ctx) => taken.kv = sess[s].kv
  BY <1>1, <1>3, TakeSound
<1>5. kept = sess[s].kv
  BY <1>4, Zenon
<1> HIDE DEF kept
<1>6. PICK H : sess \in [Session -> SessionType(H)]
  BY SessionsElim DEF GenerationInv
<1>7. sess' = sess
  BY <1>1, <1>5, <1>6 DEF SessionType
<1>8. signature' \in Seq(SignatureType)
  BY <1>2, SignatureFacts
<1> QED
  BY <1>1, <1>7, <1>8, SessionsStep DEF GenerationInv

\* begin_prefill.
LEMMA BeginPrefillStep ==
  ASSUME GenerationInv, NEW s \in Session, NEW prompt \in Prompts, NEW limit,
         BeginPrefill(s, prompt, limit)
  PROVE  GenerationInv'
<1> DEFINE ctx == Bucket(prompt, limit)
           taken == TakeGenerationState(s, prompt, ctx, FALSE)
<1>1. /\ Fits(prompt, limit) /\ taken.ok /\ profile' = profile /\ call' = call
      /\ call = NoCall /\ RetireDecodeGraph
      /\ sess' = [sess EXCEPT ![s] = [Empty EXCEPT
                 !.phase = "prefill", !.kv = taken.kv, !.text = prompt,
                 !.prompt = Len(prompt)]]
  BY Zenon DEF BeginPrefill, Begins, Become
<1>2. ctx \in Nat
  BY <1>1, BucketFacts
<1> HIDE DEF ctx
<1>3. PICK k : k = taken.kv
  OBVIOUS
<1>4. KvOK(k, Storages)
  BY <1>1, <1>2, <1>3, TakeSound
<1>5. k \in KvType /\ prompt \in Seq(Token) /\ Len(prompt) \in Nat
  BY <1>4, SessionsAssumption, LenProperties DEF KvOK
<1> DEFINE r == [Empty EXCEPT !.phase = "prefill", !.kv = k, !.text = prompt,
                              !.prompt = Len(prompt)]
<1>6. r \in SessionType({NoHost}) /\ r.kv = k /\ r.phase = "prefill"
  BY <1>5, EmptyFacts DEF SessionType, Phases
<1>7. sess' = [sess EXCEPT ![s] = r]
  BY <1>1, <1>3, Zenon
<1> HIDE DEF r
<1>8. signature' \in Seq(SignatureType)
  BY <1>1, SignatureFacts
<1>9. /\ r.phase \in Calling <=> call' = s
      /\ \A t \in Session \ {s} : call' = t <=> call = t
  BY <1>1, <1>6, SignatureFacts DEF Calling
<1>10. r.kv # NoKv /\ KvOK(r.kv, Storages)
  BY <1>4, <1>6, NoCacheFacts
<1> QED
  BY <1>1, <1>6, <1>7, <1>8, <1>9, <1>10, EmptyFacts, SessionStep

\* generate_session_tokens_with_stop up to the prefill.
LEMMA BeginGenerateStep ==
  ASSUME GenerationInv, NEW s \in Session, NEW prompt \in Prompts,
         NEW limit \in Int, NEW captured \in BOOLEAN,
         BeginGenerate(s, prompt, limit, captured)
  PROVE  GenerationInv'
<1> DEFINE ctx == Bucket(prompt, limit)
           taken == TakeGenerationState(s, prompt, ctx, FALSE)
<1>1. /\ Fits(prompt, limit) /\ taken.ok /\ profile' = profile /\ call' = s
      /\ call = NoCall
      /\ sess' = [sess EXCEPT ![s] = [@ EXCEPT
                 !.phase = "prompt", !.kv = taken.kv, !.text = prompt,
                 !.prompt = Len(prompt), !.limit = limit,
                 !.captured = captured, !.identity = 0,
                 !.evaluated = <<>>]]
  BY Zenon DEF BeginGenerate, Begins, Become
<1>2. signature' = <<>>
  BY Zenon DEF BeginGenerate, RetireDecodeGraph
<1>3. ctx \in Nat
  BY <1>1, BucketFacts
<1> HIDE DEF ctx
<1>4. PICK k : k = taken.kv
  OBVIOUS
<1>5. KvOK(k, Storages)
  BY <1>1, <1>3, <1>4, TakeSound
<1>6. k \in KvType /\ prompt \in Seq(Token) /\ Len(prompt) \in Nat /\ <<>> \in Seq(Token)
  BY <1>5, SessionsAssumption, LenProperties DEF KvOK
<1>7. PICK H : (\A h \in H : HostOK(h)) /\ sess \in [Session -> SessionType(H)]
  BY SessionsElim DEF GenerationInv
<1> DEFINE r == [sess[s] EXCEPT !.phase = "prompt", !.kv = k, !.text = prompt,
                   !.prompt = Len(prompt), !.limit = limit,
                   !.captured = captured, !.identity = 0, !.evaluated = <<>>]
<1>8. r \in SessionType(H) /\ r.kv = k /\ r.phase = "prompt"
  BY <1>6, <1>7 DEF SessionType, Phases
<1>9. sess' = [sess EXCEPT ![s] = r]
  BY <1>1, <1>4
<1> HIDE DEF r
<1>10. signature' \in Seq(SignatureType)
  BY <1>2, SignatureFacts
<1>11. /\ r.phase \in Calling <=> call' = s
       /\ \A t \in Session \ {s} : call' = t <=> call = t
  BY <1>1, <1>8, SignatureFacts DEF Calling
<1>12. r.kv # NoKv /\ KvOK(r.kv, Storages)
  BY <1>5, <1>8, NoCacheFacts
<1> QED
  BY <1>1, <1>7, <1>8, <1>9, <1>10, <1>11, <1>12, SessionStep

\* A step that leaves the session in or out of a call.
LEMMA CallStep ==
  ASSUME GenerationInv, NEW s \in Session, NEW H, \A h \in H : HostOK(h),
         NEW r \in SessionType(H), KvOK(r.kv, Storages),
         r.phase \in Calling <=> sess[s].phase \in Calling,
         sess' = [sess EXCEPT ![s] = r], profile' = profile, call' = call,
         signature' \in Seq(SignatureType)
  PROVE  GenerationInv'
<1>1. sess[s].phase \in Calling <=> call = s
  BY DEF GenerationInv, CallOK
<1>2. r.kv # NoKv
  BY NoCacheFacts
<1>3. r.phase \in Calling <=> call' = s
  BY <1>1
<1>4. \A t \in Session \ {s} : call' = t <=> call = t
  OBVIOUS
<1> QED
  BY <1>2, <1>3, <1>4, SessionStep

\* The next chunk of a prompt goes through one append.
LEMMA PromptForwardUnfolded ==
  ASSUME GenerationInv, NEW s \in Session, KvOK(sess[s].kv, Storages),
         sess[s].kv.pos < Len(sess[s].text),
         NEW f, f = PromptForward(s)
  PROVE  /\ profile \in Profiles
         /\ \E u : \E g \in Nat : Len(u) \in Nat \ {0} /\ f = Forward(s, u, g)
<1> DEFINE text == sess[s].text
           pos == sess[s].kv.pos
           n == ChunkTokens(Len(text) - pos)
           tokens == SubSeq(text, pos + 1, pos + n)
<1>1. f = Forward(s, tokens, ChunkGrowth(n))
  BY DEF PromptForward
<1>2. text \in Seq(Token) /\ pos \in Nat /\ pos < Len(text) /\ profile \in Profiles
  <2>1. sess[s].kv \in KvType
    BY DEF KvOK
  <2> QED
    BY <2>1, KvFields, SessionFacts DEF GenerationInv
<1> HIDE DEF text, pos
<1>3. profile.chunk \in Nat /\ Growth \in Nat
  BY <1>2, StorageFacts, SessionsAssumption
<1>4. n \in Nat \ {0} /\ pos + n <= Len(text) /\ ChunkGrowth(n) \in Nat
  <2>1. PICK l \in Nat : l = Len(text)
    BY <1>2, LenProperties
  <2> QED
    BY <1>2, <1>3, <2>1 DEF ChunkTokens, ChunkGrowth, Least, Most
<1> HIDE DEF n
<1>5. Len(tokens) = n
  <2>1. pos + 1 \in 1..Len(text) + 1 /\ pos + n \in pos + 1 - 1..Len(text)
    BY <1>2, <1>4, LenProperties
  <2>2. Len(tokens) = (pos + n) - (pos + 1) + 1
    BY <1>2, <1>4, <2>1, SubSeqProperties
  <2> QED
    BY <1>2, <1>4, <2>2
<1> HIDE DEF tokens
<1>6. PICK g \in Nat : g = ChunkGrowth(n)
  BY <1>4
<1>7. PICK u : u = tokens
  OBVIOUS
<1>8. Len(u) \in Nat \ {0} /\ f = Forward(s, u, g)
  BY <1>1, <1>4, <1>5, <1>6, <1>7, Zenon
<1> QED
  BY <1>2, <1>8

\* The next chunk of a prompt leaves a cache in order.
LEMMA PromptForwardSound ==
  ASSUME GenerationInv, NEW s \in Session, KvOK(sess[s].kv, Storages),
         sess[s].kv.pos < Len(sess[s].text),
         NEW f, f = PromptForward(s)
  PROVE  f.ok => KvOK(f.kv, Storages)
<1>1. profile \in Profiles
  BY PromptForwardUnfolded
<1>2. PICK u, g : g \in Nat /\ Len(u) \in Nat \ {0} /\ f = Forward(s, u, g)
  BY PromptForwardUnfolded
<1> QED
  BY <1>1, <1>2, ForwardSound

\* A chunk of a prompt is evaluated, in a prefill or in a call.
LEMMA AdvancePromptStep ==
  ASSUME GenerationInv, NEW s \in Session, KvOK(sess[s].kv, Storages),
         AdvancePrompt(s), call' = call, signature' \in Seq(SignatureType)
  PROVE  GenerationInv'
<1>1. PICK f : f = PromptForward(s)
  OBVIOUS
<1>2. /\ sess[s].kv.pos < Len(sess[s].text) /\ f.ok /\ profile' = profile
      /\ sess' = [sess EXCEPT ![s].kv = f.kv]
  BY <1>1, Zenon DEF AdvancePrompt, Become
<1>3. PICK k : k = f.kv
  OBVIOUS
<1>4. KvOK(k, Storages)
  BY <1>1, <1>2, <1>3, PromptForwardSound
<1>5. k \in KvType
  BY <1>4 DEF KvOK
<1>6. PICK H : (\A h \in H : HostOK(h)) /\ sess \in [Session -> SessionType(H)]
  BY SessionsElim DEF GenerationInv
<1> DEFINE r == [sess[s] EXCEPT !.kv = k]
<1>7. r \in SessionType(H) /\ r.kv = k /\ r.phase = sess[s].phase
  BY <1>5, <1>6 DEF SessionType
<1>8. sess' = [sess EXCEPT ![s] = r]
  BY <1>2, <1>3, <1>6
<1> HIDE DEF r
<1>9. KvOK(r.kv, Storages)
  BY <1>4, <1>7
<1> QED
  BY <1>2, <1>6, <1>7, <1>8, <1>9, CallStep

\* advance_prefill and the prompt of a call.
LEMMA AdvanceSteps ==
  ASSUME GenerationInv, NEW s \in Session, AdvancePrefill(s) \/ PromptStep(s)
  PROVE  GenerationInv'
<1>1. /\ AdvancePrompt(s) /\ call' = call /\ sess[s].phase \in {"prefill", "prompt"}
      /\ signature' = <<>> \/ KeepGraph
  BY Zenon DEF AdvancePrefill, PromptStep
<1>2. KvOK(sess[s].kv, Storages)
  BY <1>1, SessionFacts DEF GenerationInv, Calling
<1>3. signature' \in Seq(SignatureType)
  BY <1>1, SignatureFacts
<1> QED
  BY <1>1, <1>2, <1>3, AdvancePromptStep

\* The session is dropped: a prefill, a call, a copy on the host, a session at rest.
LEMMA DropSteps ==
  ASSUME GenerationInv, NEW s \in Session,
         DropPrefill(s) \/ EndGenerate(s) \/ DropHibernated(s) \/ Discard(s)
  PROVE  GenerationInv'
<1>1. sess' = [sess EXCEPT ![s] = Empty] /\ profile' = profile
  BY Zenon DEF DropPrefill, EndGenerate, DropHibernated, Discard, Become
<1>2. signature' = <<>> \/ KeepGraph
  BY Zenon DEF DropPrefill, EndGenerate, DropHibernated, Discard, RetireDecodeGraph
<1>3. \/ call = NoCall /\ call' = call
      \/ call = s /\ call' = NoCall
  BY Zenon DEF DropPrefill, EndGenerate, DropHibernated, Discard
<1>4. signature' \in Seq(SignatureType)
  BY <1>2, SignatureFacts
<1>5. call' \notin Session /\ (call = s \/ call' = call)
  BY <1>3, SignatureFacts
<1> QED
  BY <1>1, <1>4, <1>5, EmptyStep

\* A prefill and a call that end leave the session they ran for at rest.
LEMMA SettleSteps ==
  ASSUME GenerationInv, NEW s \in Session, FinishPrefill(s) \/ FinishGenerate(s)
  PROVE  GenerationInv'
<1>1. /\ sess' = [sess EXCEPT ![s] = Settled(s)] /\ profile' = profile /\ KeepGraph
      /\ sess[s].phase \in {"prefill", "decode"}
  BY Zenon DEF FinishPrefill, FinishGenerate, Become
<1>2. \/ call = NoCall /\ call' = call
      \/ call = s /\ call' = NoCall
  BY Zenon DEF FinishPrefill, FinishGenerate
<1>3. KvOK(sess[s].kv, Storages)
  BY <1>1, SessionFacts DEF GenerationInv, Calling
<1>4. PICK r : r = Settled(s)
  OBVIOUS
<1>5. r \in SessionType({NoHost}) /\ KvOK(r.kv, Storages) /\ r.phase = "idle"
  BY <1>3, <1>4, SettledFacts
<1>6. /\ r.phase \in Calling <=> call' = s
      /\ \A t \in Session \ {s} : call' = t <=> call = t
  BY <1>2, <1>5, SignatureFacts DEF Calling
<1>7. r.phase \notin Calling \cup {"prefill"}
  BY <1>5 DEF Calling
<1>8. signature' \in Seq(SignatureType) /\ sess' = [sess EXCEPT ![s] = r]
  BY <1>1, <1>4, SignatureFacts
<1> QED
  BY <1>1, <1>5, <1>6, <1>7, <1>8, EmptyFacts, SessionStep

\* quarantine_generation_failure keeps the cache of the call.
LEMMA QuarantineStep ==
  ASSUME GenerationInv, NEW s \in Session, QuarantineGenerate(s)
  PROVE  GenerationInv'
<1> DEFINE r == [Empty EXCEPT !.phase = "quarantined", !.kv = sess[s].kv]
<1>1. /\ sess' = [sess EXCEPT ![s] = r] /\ profile' = profile /\ signature' = <<>>
      /\ call = s /\ call' = NoCall
  BY Zenon DEF QuarantineGenerate, Become
<1>2. sess[s].phase \in Calling
  BY <1>1 DEF GenerationInv, CallOK
<1>3. PICK k : k = sess[s].kv
  OBVIOUS
<1>4. KvOK(k, Storages)
  BY <1>2, <1>3, SessionFacts DEF GenerationInv
<1>5. k \in KvType
  BY <1>4 DEF KvOK
<1>6. r \in SessionType({NoHost}) /\ r.kv = k /\ r.phase = "quarantined"
  BY <1>3, <1>5, EmptyFacts DEF SessionType, Phases
<1> HIDE DEF r
<1>7. /\ r.phase \in Calling <=> call' = s
      /\ \A t \in Session \ {s} : call' = t <=> call = t
  BY <1>1, <1>6, SignatureFacts DEF Calling
<1>8. r.phase \notin Calling \cup {"prefill"} /\ KvOK(r.kv, Storages)
  BY <1>4, <1>6 DEF Calling
<1>9. signature' \in Seq(SignatureType)
  BY <1>1, SignatureFacts
<1> QED
  BY <1>1, <1>6, <1>7, <1>8, <1>9, EmptyFacts, SessionStep

\* capture_decode_graph leaves a cache in order, with the append of the
\* graph pending.
LEMMA CapturedSound ==
  ASSUME GenerationInv, NEW s \in Session, NEW kv, KvOK(kv, Storages),
         NEW c, c = CapturedState(s, kv)
  PROVE  KvOK(c.kv, Storages) /\ c.kv.pos = kv.pos /\ c.kv.ctx = kv.ctx
<1> DEFINE ss == [sess EXCEPT ![s].kv = kv]
<1>1. PICK p : p = Prepared(ss, s, 1, Growth, FALSE)
  OBVIOUS
<1>2. c = [ok |-> p.ok, kv |-> [p.kv EXCEPT !.graph = GraphToken(p.kv, NextGeneration)]]
  BY <1>1, Zenon DEF CapturedState
<1>3. PICK H : sess \in [Session -> SessionType(H)]
  BY SessionsElim DEF GenerationInv
<1>4. ss[s].kv = kv
  BY <1>3 DEF SessionType
<1> HIDE DEF ss
<1>5. profile \in Profiles /\ Growth \in Nat
  BY SessionsAssumption DEF GenerationInv
<1>6. Sound(p, kv, Storages) /\ Appends(p, kv, 1)
  <2>1. PICK t : t = ss
    OBVIOUS
  <2>2. KvOK(t[s].kv, Storages) /\ p = Prepared(t, s, 1, Growth, FALSE) /\ t[s].kv = kv
    BY <1>1, <1>4, <2>1, Zenon
  <2>3. Sound(p, t[s].kv, Storages) /\ Appends(p, t[s].kv, 1)
    <3>1. PICK n \in Nat \ {0} : n = 1
      OBVIOUS
    <3>2. p = Prepared(t, s, n, Growth, FALSE)
      BY <2>2, <3>1, Zenon
    <3>3. Sound(p, t[s].kv, Storages) /\ Appends(p, t[s].kv, n)
      BY <1>5, <2>2, <3>2, PreparedSound
    <3> QED
      BY <3>1, <3>3, Zenon
  <2> QED
    BY <2>2, <2>3, Zenon
<1>7. PICK k : k = p.kv
  OBVIOUS
<1>8. KvOK(k, Storages) /\ k.pos = kv.pos /\ k.ctx = kv.ctx
  BY <1>6, <1>7 DEF Sound, Appends
<1>9. k \in KvType /\ k.rev \in Nat /\ k.rev <= MaxRevision /\ k.ctx \in Nat
  BY <1>8, KvFields DEF KvOK
<1>10. PICK g : g = GraphToken(k, NextGeneration)
  OBVIOUS
<1>11. g \in TokenType
  BY <1>9, <1>10, GenerationFacts DEF GraphToken, TokenType
<1> DEFINE new == [k EXCEPT !.graph = g]
<1>12. /\ new \in KvType /\ new.segs = k.segs /\ new.pos = k.pos /\ new.ctx = k.ctx
       /\ new.rev = k.rev /\ new.pending = k.pending
  BY <1>9, <1>11 DEF KvType
<1>13. c.kv = new
  BY <1>2, <1>7, <1>10
<1> HIDE DEF new
<1>14. new.ctx >= k.ctx
  BY <1>9, <1>12
<1>15. KvOK(new, Storages)
  BY <1>8, <1>9, <1>12, <1>14, Reshaped
<1> QED
  BY <1>8, <1>12, <1>13, <1>15

\* initialize_generation_decode.
LEMMA FirstTokenStep ==
  ASSUME GenerationInv, NEW s \in Session, NEW token \in Token, FirstToken(s, token)
  PROVE  GenerationInv'
<1> DEFINE more == sess[s].captured /\ sess[s].limit > 1 /\ sess[s].kv.pos < sess[s].kv.ctx
<1>1. PICK c : c = CapturedState(s, sess[s].kv)
  OBVIOUS
<1>2. /\ sess[s].phase = "prompt" /\ profile' = profile /\ call' = call
      /\ sess' = [sess EXCEPT ![s].text = Append(@, token), ![s].phase = "decode",
                              ![s].kv = IF more THEN c.kv ELSE @]
      /\ signature' = <<>> \/ KeepGraph
  BY <1>1, Zenon DEF FirstToken, Become, Capture1
<1>3. KvOK(sess[s].kv, Storages) /\ sess[s].text \in Seq(Token)
  BY <1>2, SessionFacts DEF GenerationInv, Calling
<1>4. KvOK(c.kv, Storages)
  BY <1>1, <1>3, CapturedSound
<1>5. PICK k : k = IF more THEN c.kv ELSE sess[s].kv
  OBVIOUS
<1>6. KvOK(k, Storages)
  BY <1>3, <1>4, <1>5, Zenon
<1>7. PICK x : x = Append(sess[s].text, token)
  OBVIOUS
<1>8. x \in Seq(Token) /\ k \in KvType
  BY <1>3, <1>6, <1>7, AppendProperties DEF KvOK
<1>9. PICK H : (\A h \in H : HostOK(h)) /\ sess \in [Session -> SessionType(H)]
  BY SessionsElim DEF GenerationInv
<1> HIDE DEF more
<1> DEFINE r == [sess[s] EXCEPT !.text = x, !.phase = "decode", !.kv = k]
<1>10. r \in SessionType(H) /\ r.kv = k /\ r.phase = "decode"
  BY <1>8, <1>9 DEF SessionType, Phases
<1>11. sess' = [sess EXCEPT ![s] = r]
  BY <1>2, <1>5, <1>7, <1>9 DEF SessionType
<1> HIDE DEF r
<1>12. KvOK(r.kv, Storages) /\ (r.phase \in Calling <=> sess[s].phase \in Calling)
  BY <1>2, <1>6, <1>10 DEF Calling
<1>13. signature' \in Seq(SignatureType)
  BY <1>2, SignatureFacts
<1> QED
  BY <1>2, <1>9, <1>10, <1>11, <1>12, <1>13, CallStep

\* What a session that decodes has.
LEMMA SamplingFacts ==
  ASSUME GenerationInv, NEW s \in Session, Sampling(s), NEW token \in Token
  PROVE  /\ KvOK(sess[s].kv, Storages) /\ sess[s].text \in Seq(Token)
         /\ Append(sess[s].text, token) \in Seq(Token) /\ sess[s].limit \in Int
         /\ sess[s].prompt \in Nat /\ profile \in Profiles
         /\ Len(NextInput(s)) = 1
         /\ sess[s].kv.pos \in Nat /\ Growth \in Nat \ {0}
         /\ \E H : (\A h \in H : HostOK(h)) /\ sess \in [Session -> SessionType(H)]
<1>1. sess[s].phase = "decode"
  BY DEF Sampling
<1>2. /\ KvOK(sess[s].kv, Storages) /\ sess[s].text \in Seq(Token)
      /\ sess[s].limit \in Int /\ sess[s].prompt \in Nat /\ profile \in Profiles
  BY <1>1, SessionFacts DEF GenerationInv, Calling
<1>3. PICK H : (\A h \in H : HostOK(h)) /\ sess \in [Session -> SessionType(H)]
  BY SessionsElim DEF GenerationInv
<1>4. Append(sess[s].text, token) \in Seq(Token)
  BY <1>2, AppendProperties
<1>5. Len(NextInput(s)) = 1
  BY DEF NextInput
<1>6. sess[s].kv.pos \in Nat
  BY <1>2, KvFields DEF KvOK
<1> QED
  BY <1>2, <1>3, <1>4, <1>5, <1>6, SessionsAssumption

\* run_plain_forward.
LEMMA EagerStepStep ==
  ASSUME GenerationInv, NEW s \in Session, NEW token \in Token, EagerStep(s, token)
  PROVE  GenerationInv'
<1>1. PICK f, u : f = Forward(s, u, Growth) /\ u = NextInput(s)
  OBVIOUS
<1>2. /\ Sampling(s) /\ f.ok /\ profile' = profile /\ call' = call /\ KeepGraph
      /\ sess' = [sess EXCEPT ![s].kv = f.kv, ![s].text = Append(@, token)]
  BY <1>1, Zenon DEF EagerStep, Become
<1>3. /\ KvOK(sess[s].kv, Storages) /\ profile \in Profiles /\ Len(u) \in Nat \ {0}
      /\ Append(sess[s].text, token) \in Seq(Token) /\ sess[s].limit \in Int
      /\ Growth \in Nat
  <2>1. Len(u) = 1
    BY <1>1, <1>2, SamplingFacts, Zenon
  <2> QED
    BY <1>2, <2>1, SamplingFacts, SessionsAssumption
<1>4. PICK k : k = f.kv
  OBVIOUS
<1>5. KvOK(k, Storages)
  BY <1>1, <1>2, <1>3, <1>4, ForwardSound
<1>6. PICK x \in Seq(Token) : x = Append(sess[s].text, token)
  BY <1>3
<1>7. PICK H : (\A h \in H : HostOK(h)) /\ sess \in [Session -> SessionType(H)]
  BY <1>2, SamplingFacts
<1> DEFINE r == [sess[s] EXCEPT !.kv = k, !.text = x]
<1>8. r \in SessionType(H) /\ r.kv = k /\ r.phase = sess[s].phase
  BY <1>5, <1>6, <1>7, NoCacheFacts DEF SessionType
<1>9. sess' = [sess EXCEPT ![s] = r]
  BY <1>2, <1>4, <1>6, <1>7 DEF SessionType
<1> HIDE DEF r
<1>10. KvOK(r.kv, Storages) /\ signature' \in Seq(SignatureType)
  BY <1>2, <1>5, <1>8, SignatureFacts
<1> QED
  BY <1>2, <1>7, <1>8, <1>9, <1>10, CallStep

\* run_graph_forward.
LEMMA GraphStepStep ==
  ASSUME GenerationInv, NEW s \in Session, NEW token \in Token, GraphStep(s, token)
  PROVE  GenerationInv'
<1>1. PICK p : p = Prepared(sess, s, 1, Growth, FALSE)
  OBVIOUS
<1>2. PICK c : c = CapturedState(s, p.kv)
  OBVIOUS
<1>3. PICK kv : kv = IF p.kv.graph = GraphToken(p.kv, generation) THEN p.kv ELSE c.kv
  OBVIOUS
<1>4. PICK done : done = CommitAppend(kv, kv.pending)
  OBVIOUS
<1>5. /\ Sampling(s) /\ p.ok /\ done.ok /\ profile' = profile /\ call' = call
      /\ sess' = [sess EXCEPT ![s].kv = done.kv, ![s].text = Append(@, token)]
      /\ signature' = <<>> \/ KeepGraph
  BY <1>1, <1>2, <1>3, <1>4, Zenon DEF GraphStep, Become, Capture1
<1>6. /\ KvOK(sess[s].kv, Storages) /\ profile \in Profiles
      /\ Append(sess[s].text, token) \in Seq(Token) /\ sess[s].limit \in Int
      /\ Growth \in Nat
  BY <1>5, SamplingFacts
<1>7. KvOK(p.kv, Storages)
  <2>1. PICK n \in Nat \ {0} : n = 1
    OBVIOUS
  <2>2. p = Prepared(sess, s, n, Growth, FALSE)
    BY <1>1, <2>1, Zenon
  <2> QED
    BY <1>5, <1>6, <2>2, PreparedSound DEF Sound
<1>8. KvOK(c.kv, Storages)
  BY <1>2, <1>7, CapturedSound
<1>9. KvOK(kv, Storages)
  BY <1>3, <1>7, <1>8, Zenon
<1>10. PICK k : k = done.kv
  OBVIOUS
<1>11. KvOK(k, Storages)
  BY <1>4, <1>5, <1>9, <1>10, CommitSound DEF Sound
<1>12. PICK x \in Seq(Token) : x = Append(sess[s].text, token)
  BY <1>6
<1>13. PICK H : (\A h \in H : HostOK(h)) /\ sess \in [Session -> SessionType(H)]
  BY <1>5, SamplingFacts
<1> DEFINE r == [sess[s] EXCEPT !.kv = k, !.text = x]
<1>14. r \in SessionType(H) /\ r.kv = k /\ r.phase = sess[s].phase
  BY <1>11, <1>12, <1>13, NoCacheFacts DEF SessionType
<1>15. sess' = [sess EXCEPT ![s] = r]
  BY <1>5, <1>10, <1>12, <1>13 DEF SessionType
<1> HIDE DEF r
<1>16. KvOK(r.kv, Storages) /\ signature' \in Seq(SignatureType)
  BY <1>5, <1>11, <1>14, SignatureFacts
<1> QED
  BY <1>5, <1>13, <1>14, <1>15, <1>16, CallStep

\* What a verification round adds to a text: some of the drafts and a token.
LEMMA EmittedFacts ==
  ASSUME NEW drafts \in Seq(Token), NEW accepted \in 0..Len(drafts), NEW token \in Token,
         NEW emitted \in 1..(accepted + 1)
  PROVE  SubSeq(Append(SubSeq(drafts, 1, accepted), token), 1, emitted) \in Seq(Token)
<1> DEFINE a == SubSeq(drafts, 1, accepted)
           b == Append(a, token)
<1>1. Len(drafts) \in Nat /\ accepted \in Nat
  BY LenProperties
<1>2. a \in Seq(Token) /\ Len(a) = accepted
  BY <1>1, SubSeqProperties
<1> HIDE DEF a
<1>3. b \in Seq(Token) /\ Len(b) = accepted + 1
  BY <1>2, AppendProperties
<1> HIDE DEF b
<1>4. emitted \in 1 - 1..Len(b) /\ 1 \in 1..Len(b) + 1
  BY <1>1, <1>3
<1>5. SubSeq(b, 1, emitted) \in Seq(Token)
  BY <1>3, <1>4, SubSeqProperties
<1> QED
  BY <1>5 DEF a, b

\* A cache that is cut back or left alone.
LEMMA CutOrKept ==
  ASSUME NEW kv, KvOK(kv, Storages), NEW position \in Nat, NEW r,
         r = Truncate(kv, position) \/ r = Kept(kv), r.ok
  PROVE  KvOK(r.kv, Storages)
<1>1. CASE r = Kept(kv)
  BY <1>1, KeptSound
<1>2. CASE r = Truncate(kv, position)
  BY <1>2, TruncateSound DEF Sound
<1> QED
  BY <1>1, <1>2

\* speculative_verify_round and finish_generation_round.
LEMMA VerifyStepStep ==
  ASSUME GenerationInv, NEW s \in Session, NEW drafts \in Drafts,
         NEW accepted \in 0..Len(drafts), NEW token \in Token,
         NEW emitted \in 1..(accepted + 1),
         VerifyStep(s, drafts, accepted, token, emitted)
  PROVE  GenerationInv'
<1> DEFINE start == sess[s].kv.pos
           n == Len(drafts) + 1
           out == SubSeq(Append(SubSeq(drafts, 1, accepted), token), 1, emitted)
           text == sess[s].text \o out
           limit == IF emitted <= accepted THEN Len(text) - sess[s].prompt
                    ELSE sess[s].limit
<1>1. PICK u, g : u = NextInput(s) \o drafts /\ g = Most(n, Growth)
  OBVIOUS
<1>2. PICK f : f = Forward(s, u, g)
  OBVIOUS
<1>3. PICK cut : cut = IF accepted < Len(drafts) THEN Truncate(f.kv, start + accepted + 1)
                       ELSE Kept(f.kv)
  OBVIOUS
<1>4. PICK ended : ended = IF cut.kv.pos > start + emitted
                           THEN Truncate(cut.kv, start + emitted) ELSE Kept(cut.kv)
  OBVIOUS
<1>5. /\ Sampling(s) /\ f.ok /\ cut.ok /\ ended.ok
      /\ profile' = profile /\ call' = call /\ KeepGraph
      /\ sess' = [sess EXCEPT ![s].kv = ended.kv, ![s].text = text, ![s].limit = limit]
  BY <1>1, <1>2, <1>3, <1>4, Zenon DEF VerifyStep, Become
<1>6. /\ drafts \in Seq(Token) /\ drafts # <<>>
  BY SessionsAssumption
<1>7. Len(drafts) \in Nat /\ accepted \in Nat /\ emitted \in Nat
  BY <1>6, LenProperties
<1>8. /\ KvOK(sess[s].kv, Storages) /\ sess[s].text \in Seq(Token)
      /\ sess[s].limit \in Int /\ sess[s].prompt \in Nat /\ profile \in Profiles
      /\ Len(NextInput(s)) = 1 /\ start \in Nat /\ Growth \in Nat
  BY <1>5, SamplingFacts, SessionsAssumption
<1>9. Len(u) \in Nat \ {0} /\ g \in Nat
  <2>1. NextInput(s) = <<sess[s].text[start + 1]>>
    BY DEF NextInput
  <2>2. PICK v : v = sess[s].text[start + 1]
    OBVIOUS
  <2>3. u = <<v>> \o drafts
    BY <1>1, <2>1, <2>2, Zenon
  <2>4. Len(u) = 1 + Len(drafts)
    <3>1. <<v>> \in Seq({v} \cup Token) /\ drafts \in Seq({v} \cup Token) /\ Len(<<v>>) = 1
      BY <1>6
    <3> QED
      BY <2>3, <3>1, ConcatProperties
  <2>5. g \in Nat
    BY <1>1, <1>7, <1>8 DEF Most
  <2> QED
    BY <1>7, <2>4, <2>5
<1>10. KvOK(f.kv, Storages)
  BY <1>2, <1>5, <1>8, <1>9, ForwardSound
<1> HIDE DEF start
<1>11. KvOK(cut.kv, Storages)
  <2>1. PICK p \in Nat : p = start + accepted + 1
    BY <1>7, <1>8
  <2>2. PICK k : k = f.kv
    OBVIOUS
  <2>3. cut = Truncate(k, p) \/ cut = Kept(k)
    BY <1>3, <2>1, <2>2, Zenon
  <2> QED
    BY <1>5, <1>10, <2>2, <2>3, CutOrKept
<1>12. PICK k : k = ended.kv
  OBVIOUS
<1>13. KvOK(k, Storages)
  <2>1. PICK p \in Nat : p = start + emitted
    BY <1>7, <1>8
  <2>2. PICK j : j = cut.kv
    OBVIOUS
  <2>3. ended = Truncate(j, p) \/ ended = Kept(j)
    BY <1>4, <2>1, <2>2, Zenon
  <2> QED
    BY <1>5, <1>11, <1>12, <2>2, <2>3, CutOrKept
<1>14. out \in Seq(Token)
  BY <1>6, EmittedFacts
<1> HIDE DEF out
<1>15. text \in Seq(Token) /\ Len(text) \in Nat
  BY <1>8, <1>14, ConcatProperties, LenProperties
<1> HIDE DEF text
<1>16. limit \in Int
  BY <1>8, <1>15
<1> HIDE DEF limit
<1>17. PICK x \in Seq(Token), y \in Int : x = text /\ y = limit
  BY <1>15, <1>16
<1>18. PICK H : (\A h \in H : HostOK(h)) /\ sess \in [Session -> SessionType(H)]
  BY <1>5, SamplingFacts
<1> DEFINE r == [sess[s] EXCEPT !.kv = k, !.text = x, !.limit = y]
<1>19. r \in SessionType(H) /\ r.kv = k /\ r.phase = sess[s].phase
  BY <1>13, <1>17, <1>18, NoCacheFacts DEF SessionType
<1>20. sess' = [sess EXCEPT ![s] = r]
  BY <1>5, <1>12, <1>17, <1>18 DEF SessionType
<1> HIDE DEF r
<1>21. KvOK(r.kv, Storages) /\ signature' \in Seq(SignatureType)
  BY <1>5, <1>13, <1>19, SignatureFacts
<1> QED
  BY <1>5, <1>18, <1>19, <1>20, <1>21, CallStep

\* A session that can be forked or moved to the host has a cache.
LEMMA ForkableFacts ==
  ASSUME GenerationInv, NEW s \in Session, Forkable(s)
  PROVE  /\ KvOK(sess[s].kv, Storages) /\ sess[s].evaluated \in Seq(Token)
         /\ call = NoCall /\ sess[s].phase = "idle"
BY SessionFacts DEF GenerationInv, Forkable

\* fork_session and fork_session_prefix: the child takes a cache in order.
LEMMA ForkedStep ==
  ASSUME GenerationInv, NEW s \in Session, NEW t \in Session, NEW kv, NEW tokens,
         Forked(s, t, kv, tokens), KvOK(kv, Storages), tokens \in 0..Len(sess[s].evaluated)
  PROVE  GenerationInv'
<1> DEFINE e == SubSeq(sess[s].evaluated, 1, tokens)
<1>1. /\ Forkable(s) /\ sess[t] = Empty /\ profile' = profile /\ call' = call /\ KeepGraph
      /\ sess' = [sess EXCEPT ![t].kv = kv, ![t].evaluated = e]
  BY Zenon DEF Forked, Become
<1>2. sess[s].evaluated \in Seq(Token)
  BY <1>1, ForkableFacts
<1>3. e \in Seq(Token)
  BY <1>2, SubSeqProperties, LenProperties
<1> HIDE DEF e
<1>4. PICK H : (\A h \in H : HostOK(h)) /\ sess \in [Session -> SessionType(H)]
  BY SessionsElim DEF GenerationInv
<1> DEFINE r == [sess[t] EXCEPT !.kv = kv, !.evaluated = e]
<1>5. r \in SessionType(H) /\ r.kv = kv /\ r.phase = sess[t].phase
  BY <1>3, <1>4, NoCacheFacts DEF SessionType
<1>6. sess' = [sess EXCEPT ![t] = r]
  BY <1>1, <1>4 DEF SessionType
<1> HIDE DEF r
<1>7. KvOK(r.kv, Storages) /\ signature' \in Seq(SignatureType)
  BY <1>1, <1>5, SignatureFacts
<1> QED
  BY <1>1, <1>4, <1>5, <1>6, <1>7, CallStep

\* The two forks.
LEMMA ForkSteps ==
  ASSUME GenerationInv, NEW s \in Session, NEW t \in Session,
         \/ ForkSession(s, t)
         \/ \E prefix \in 1..Len(sess[s].evaluated) : ForkSessionPrefix(s, t, prefix)
  PROVE  GenerationInv'
<1>1. Forkable(s)
  BY Zenon DEF ForkSession, ForkSessionPrefix, Forked
<1>2. KvOK(sess[s].kv, Storages) /\ sess[s].evaluated \in Seq(Token)
  BY <1>1, ForkableFacts
<1>3. PICK k : k = Fork(sess[s].kv)
  OBVIOUS
<1>4. KvOK(k, Storages)
  BY <1>2, <1>3, ForkOK
<1>5. Len(sess[s].evaluated) \in Nat
  BY <1>2, LenProperties
<1>6. CASE ForkSession(s, t)
  <2>1. PICK n \in 0..Len(sess[s].evaluated) : n = Len(sess[s].evaluated)
    BY <1>5
  <2>2. Forked(s, t, k, n)
    BY <1>3, <1>6, <2>1, Zenon DEF ForkSession
  <2> QED
    BY <1>4, <2>2, ForkedStep
<1>7. ASSUME NEW prefix \in 1..Len(sess[s].evaluated), ForkSessionPrefix(s, t, prefix)
      PROVE  GenerationInv'
  <2>1. PICK cut : cut = Truncate(k, prefix)
    OBVIOUS
  <2>2. cut.ok /\ Forked(s, t, cut.kv, prefix)
    BY <1>3, <1>7, <2>1, Zenon DEF ForkSessionPrefix
  <2>3. prefix \in Nat /\ prefix \in 0..Len(sess[s].evaluated)
    BY <1>5
  <2>4. KvOK(cut.kv, Storages)
    BY <1>4, <2>1, <2>2, <2>3, CutOrKept
  <2> QED
    BY <2>2, <2>3, <2>4, ForkedStep
<1> QED
  BY <1>6, <1>7

\* The length of a sequence that is given by its elements.
LEMMA TableFacts ==
  ASSUME NEW n \in Nat, NEW f, f = [i \in 1..n |-> f[i]]
  PROVE  Len(f) = n
<1> DEFINE T == {f[i] : i \in 1..n}
<1>1. \A i \in 1..n : f[i] \in T
  OBVIOUS
<1> HIDE DEF T
<1>2. f \in [1..n -> T]
  BY <1>1
<1> QED
  BY <1>2

\* The copy of a cache on the host is one.
LEMMA HostCopyOK ==
  ASSUME NEW X, NEW kv, KvOK(kv, X)
  PROVE  HostOK(HostCopy(kv))
<1>1. PICK segs : segs = Committed(kv.segs)
  OBVIOUS
<1> DEFINE copy == [i \in 1..Len(segs) |->
                      [seg |-> segs[i],
                       data |-> [j \in 1..segs[i].committed |-> mem[segs[i].storage][j]]]]
<1>2. PICK c : c = copy
  OBVIOUS
<1>3. HostCopy(kv) = [segs |-> c, pos |-> kv.pos, ctx |-> kv.ctx]
  BY <1>1, <1>2, Zenon DEF HostCopy
<1>4. kv \in KvType /\ WellFormed(kv)
  BY DEF KvOK
<1>5. segs \in Seq(Seg) /\ Len(segs) \in Nat
  BY <1>1, <1>4, CommittedFacts, LenProperties
<1>6. Len(c) = Len(segs) /\ \A i \in 1..Len(segs) : c[i].seg = segs[i]
  <2>1. Len(c) = Len(segs)
    <3>1. c = [i \in 1..Len(segs) |-> c[i]]
      BY <1>2
    <3>2. PICK n \in Nat : n = Len(segs)
      BY <1>5
    <3> HIDE DEF copy
    <3> QED
      BY <3>1, <3>2, TableFacts
  <2>2. \A i \in 1..Len(segs) : copy[i].seg = segs[i]
    OBVIOUS
  <2> HIDE DEF copy
  <2> QED
    BY <1>2, <2>1, <2>2
<1> HIDE DEF copy
<1>7. [i \in 1..Len(c) |-> c[i].seg] = segs
  <2>1. segs = [i \in 1..Len(segs) |-> segs[i]]
    BY <1>5
  <2> QED
    BY <1>6, <2>1
<1> DEFINE new == [segs |-> segs, pos |-> kv.pos, ctx |-> kv.ctx, rev |-> 0,
                   graph |-> NoGraph, pending |-> NoRange]
<1>8. HostKv(HostCopy(kv)) = new
  <2>1. PICK h : h = HostCopy(kv)
    OBVIOUS
  <2>2. h.segs = c /\ h.pos = kv.pos /\ h.ctx = kv.ctx
    BY <1>3, <2>1
  <2>3. HostKv(h) = new
    BY <1>7, <2>2, Zenon DEF HostKv
  <2> QED
    BY <2>1, <2>3, Zenon
<1>9. NoGraph \in TokenType /\ kv.pos \in Nat /\ kv.ctx \in Nat
  BY <1>4, KvFields DEF NoGraph, TokenType
<1>10. /\ new \in KvType /\ new.segs = segs /\ new.pos = kv.pos /\ new.ctx = kv.ctx
       /\ new.rev = 0 /\ new.pending = NoRange
  <2>1. PICK p \in Nat, x \in Nat : p = kv.pos /\ x = kv.ctx
    BY <1>9
  <2>2. new = [segs |-> segs, pos |-> p, ctx |-> x, rev |-> 0,
               graph |-> NoGraph, pending |-> NoRange]
    BY <2>1, Zenon
  <2>3. new \in KvType
    BY <1>5, <1>9, <2>2, KvRecord, NoRangeType, SMTT(40)
  <2> QED
    BY <2>1, <2>2, <2>3
<1> HIDE DEF new
<1>11. new.rev <= MaxRevision
  BY <1>10, RevisionAssumption
<1>12. KvOK(new, X)
  BY <1>1, <1>10, <1>11, Compacted
<1> QED
  BY <1>8, <1>12 DEF HostOK, KvOK

\* hibernate_session.
LEMMA HibernateStep ==
  ASSUME GenerationInv, NEW s \in Session, Hibernate(s)
  PROVE  GenerationInv'
<1>1. PICK h, e : h = HostCopy(sess[s].kv) /\ e = sess[s].evaluated
  OBVIOUS
<1> DEFINE r == [Empty EXCEPT !.phase = "asleep", !.host = h, !.evaluated = e]
<1>2. /\ Forkable(s) /\ profile' = profile /\ call' = call /\ RetireDecodeGraph
      /\ sess' = [sess EXCEPT ![s] = r]
  BY <1>1, Zenon DEF Hibernate, Become
<1>3. /\ KvOK(sess[s].kv, Storages) /\ e \in Seq(Token)
      /\ call = NoCall /\ sess[s].phase = "idle"
  BY <1>1, <1>2, ForkableFacts
<1>4. HostOK(h)
  BY <1>1, <1>3, HostCopyOK
<1>5. r \in SessionType({h}) /\ r.kv = NoKv /\ r.phase = "asleep"
  BY <1>3, EmptyFacts DEF SessionType, Phases
<1> HIDE DEF r
<1>6. r.phase \notin Calling \cup {"prefill"} /\ \A g \in {h} : HostOK(g)
  BY <1>4, <1>5 DEF Calling
<1>7. /\ r.phase \in Calling <=> call' = s
      /\ \A t \in Session \ {s} : call' = t <=> call = t
      /\ signature' \in Seq(SignatureType)
  BY <1>2, <1>3, <1>6, SignatureFacts
<1> QED
  BY <1>2, <1>5, <1>6, <1>7, SessionStep

\* The segments of a cache in other storages.
LEMMA Relocated ==
  ASSUME NEW kv \in KvType, WellFormed(kv), NEW new \in KvType,
         Len(new.segs) = Len(kv.segs),
         \A i \in 1..Len(kv.segs) : /\ new.segs[i].start = kv.segs[i].start
                                    /\ new.segs[i].committed = kv.segs[i].committed
                                    /\ new.segs[i].cap = kv.segs[i].cap,
         new.pos = kv.pos, new.ctx = kv.ctx, kv.pending = NoRange, new.pending = NoRange
  PROVE  WellFormed(new)
<1>1. /\ \A i \in 1..Len(kv.segs) :
           /\ kv.segs[i].start = StartsAt(kv.segs, i)
           /\ kv.segs[i].committed <= kv.segs[i].cap
           /\ kv.segs[i].committed = 0 => kv.pending.index = i
      /\ kv.pos = EndOf(kv.segs) /\ kv.pos <= kv.ctx
  BY WellFormedParts
<1>2. PICK n \in Nat : n = Len(kv.segs)
  BY KvFields
<1>3. \A i \in 1..n + 1 : StartsAt(new.segs, i) = StartsAt(kv.segs, i)
  <2> SUFFICES ASSUME NEW i \in 1..n + 1
               PROVE  StartsAt(new.segs, i) = StartsAt(kv.segs, i)
    OBVIOUS
  <2>1. CASE i = 1
    BY <2>1 DEF StartsAt
  <2>2. CASE i # 1
    <3>1. i - 1 \in 1..Len(kv.segs)
      BY <1>2, <2>2
    <3> QED
      BY <2>2, <3>1 DEF StartsAt
  <2> QED
    BY <2>1, <2>2
<1>4. EndOf(new.segs) = EndOf(kv.segs)
  BY <1>2, <1>3 DEF EndOf
<1>5. \A i \in 1..Len(new.segs) :
        /\ new.segs[i].start = StartsAt(new.segs, i)
        /\ new.segs[i].committed <= new.segs[i].cap
        /\ new.segs[i].committed = 0 => new.pending.index = i
  <2> SUFFICES ASSUME NEW i \in 1..n
               PROVE  /\ new.segs[i].start = StartsAt(new.segs, i)
                      /\ new.segs[i].committed <= new.segs[i].cap
                      /\ new.segs[i].committed = 0 => new.pending.index = i
    BY <1>2
  <2>1. i \in 1..n + 1 /\ i \in 1..Len(kv.segs)
    BY <1>2
  <2> QED
    BY <1>1, <1>3, <2>1
<1> QED
  BY <1>1, <1>4, <1>5, WellFormedParts

\* A bounded set of numbers is finite.
LEMMA BoundedFinite ==
  ASSUME NEW b \in Nat, NEW S, S \subseteq 0..b
  PROVE  IsFiniteSet(S) /\ Cardinality(S) \in Nat
<1>1. IsFiniteSet(0..b)
  BY FS_Interval
<1>2. IsFiniteSet(S)
  BY <1>1, FS_Subset
<1> QED
  BY <1>2, FS_CardinalityType

\* KvState::restore: the cache of a host copy in free storages.
LEMMA WokenOK ==
  ASSUME NEW b \in Nat, NEW X, X \subseteq Nat, NEW free, free \subseteq X,
         free \subseteq 0..b,
         NEW h, HostOK(h), Len(h.segs) <= Cardinality(free), NEW kv,
         kv = [NewKv(h.ctx) EXCEPT !.pos = h.pos,
                 !.segs = [i \in 1..Len(h.segs) |->
                             [h.segs[i].seg EXCEPT !.storage = Nth(free, i)]]]
  PROVE  KvOK(kv, X)
<1> DEFINE n == Len(h.segs)
           old == [i \in 1..n |-> h.segs[i].seg]
           segs == [i \in 1..n |-> [h.segs[i].seg EXCEPT !.storage = Nth(free, i)]]
<1>1. PICK k : k = HostKv(h)
  OBVIOUS
<1>2. k \in KvType /\ WellFormed(k)
  BY <1>1 DEF HostOK
<1>3. /\ k.segs = old /\ k.pos = h.pos /\ k.ctx = h.ctx /\ k.pending = NoRange
  BY <1>1 DEF HostKv
<1>4. old \in Seq(Seg) /\ h.pos \in Nat /\ h.ctx \in Nat
  BY <1>2, <1>3, KvFields
<1>5. n \in Nat /\ Len(old) = n
  <2>1. DOMAIN old = 1..n /\ DOMAIN old = 1..Len(old) /\ Len(old) \in Nat
    BY <1>4, LenProperties
  <2> QED
    BY <2>1
<1>6. ASSUME NEW i \in 1..n
      PROVE  /\ segs[i] \in Seg /\ segs[i].start = old[i].start
             /\ segs[i].committed = old[i].committed /\ segs[i].cap = old[i].cap
             /\ segs[i].storage \in X
  <2>1. old[i] \in Seg
    BY <1>4, <1>5, ElementOfSeq
  <2>2. PICK y : y = Nth(free, i)
    OBVIOUS
  <2>3. y \in X
    <3>1. PICK c \in Nat : c = Cardinality(free)
      BY BoundedFinite
    <3>2. i \in Nat /\ i >= 1 /\ i <= c
      BY <1>5, <3>1
    <3> QED
      BY <2>2, <3>1, <3>2, NthFacts
  <2>4. PICK o : o = old[i]
    OBVIOUS
  <2>5. segs[i] = [o EXCEPT !.storage = y]
    BY <2>2, <2>4
  <2> QED
    BY <2>1, <2>3, <2>4, <2>5 DEF Seg
<1>7. segs \in Seq(Seg) /\ Len(segs) = n
  <2>1. segs = [i \in 1..n |-> segs[i]]
    OBVIOUS
  <2> HIDE DEF segs, n
  <2>2. segs \in [1..n -> Seg]
    BY <1>6, <2>1
  <2> QED
    BY <1>5, <2>2
<1>8. kv = [NewKv(h.ctx) EXCEPT !.pos = h.pos, !.segs = segs]
  BY Zenon
<1>9. NewKv(h.ctx) \in KvType /\ NewKv(h.ctx).ctx = h.ctx /\ NewKv(h.ctx).rev = 0
      /\ NewKv(h.ctx).pending = NoRange
  <2>1. KvOK(NewKv(h.ctx), X)
    BY <1>4, NewKvOK
  <2> QED
    BY <2>1 DEF KvOK, NewKv
<1> HIDE DEF segs, old
<1>10. /\ kv \in KvType /\ kv.segs = segs /\ kv.pos = h.pos /\ kv.ctx = h.ctx
       /\ kv.rev = 0 /\ kv.pending = NoRange
  BY <1>4, <1>7, <1>8, <1>9 DEF KvType
<1>11. WellFormed(kv)
  <2>1. /\ Len(kv.segs) = Len(k.segs)
        /\ \A i \in 1..Len(k.segs) : /\ kv.segs[i].start = k.segs[i].start
                                     /\ kv.segs[i].committed = k.segs[i].committed
                                     /\ kv.segs[i].cap = k.segs[i].cap
    BY <1>3, <1>5, <1>6, <1>7, <1>10, Zenon
  <2> QED
    BY <1>2, <1>3, <1>10, <2>1, Relocated
<1>12. Within(kv, X)
  BY <1>6, <1>7, <1>10 DEF Within
<1> QED
  BY <1>10, <1>11, <1>12, RevisionAssumption DEF KvOK

\* wake_session.
LEMMA WakeStep ==
  ASSUME GenerationInv, NEW s \in Session, Wake(s)
  PROVE  GenerationInv'
<1>1. PICK h, e : h = sess[s].host /\ e = sess[s].evaluated
  OBVIOUS
<1>2. PICK free : free = Storages \ InUse(sess)
  OBVIOUS
<1> DEFINE place == [i \in 1..Len(h.segs) |-> Nth(free, i)]
<1>3. PICK kv : kv = [NewKv(h.ctx) EXCEPT !.pos = h.pos,
                        !.segs = [i \in 1..Len(h.segs) |->
                                    [h.segs[i].seg EXCEPT !.storage = place[i]]]]
  OBVIOUS
<1> DEFINE r == [Empty EXCEPT !.kv = kv, !.evaluated = e]
<1>4. /\ call = NoCall /\ call' = call /\ sess[s].phase = "asleep" /\ KeepGraph
      /\ Cardinality(free) >= Len(h.segs) /\ profile' = profile
      /\ sess' = [sess EXCEPT ![s] = r]
  BY <1>1, <1>2, <1>3, Zenon DEF Wake, Become
<1>5. e \in Seq(Token) /\ HostOK(h) /\ profile \in Profiles
  BY <1>1, SessionFacts DEF GenerationInv
<1>6. KvOK(kv, Storages)
  <2>1. /\ Storages \subseteq Nat /\ free \subseteq Storages
        /\ free \subseteq 0..profile.storages /\ profile.storages \in Nat
    BY <1>2, <1>5, StorageFacts
  <2>2. [i \in 1..Len(h.segs) |-> [h.segs[i].seg EXCEPT !.storage = place[i]]]
        = [i \in 1..Len(h.segs) |-> [h.segs[i].seg EXCEPT !.storage = Nth(free, i)]]
    OBVIOUS
  <2> HIDE DEF place
  <2>3. kv = [NewKv(h.ctx) EXCEPT !.pos = h.pos,
                !.segs = [i \in 1..Len(h.segs) |->
                            [h.segs[i].seg EXCEPT !.storage = Nth(free, i)]]]
    BY <1>3, <2>2, Zenon
  <2>4. Cardinality(free) \in Nat
    BY <2>1, BoundedFinite
  <2>5. Len(h.segs) \in Nat
    <3>1. HostKv(h).segs \in Seq(Seg)
      BY <1>5, KvFields DEF HostOK
    <3>2. [i \in 1..Len(h.segs) |-> h.segs[i].seg] \in Seq(Seg)
      BY <3>1 DEF HostKv
    <3> QED
      BY <3>2, LenProperties
  <2>6. Len(h.segs) <= Cardinality(free)
    BY <1>4, <2>4, <2>5
  <2> QED
    BY <1>5, <2>1, <2>3, <2>6, WokenOK
<1>7. r \in SessionType({NoHost}) /\ r.kv = kv /\ r.phase = "idle"
  BY <1>5, <1>6, EmptyFacts, NoCacheFacts DEF SessionType
<1> HIDE DEF r
<1>8. KvOK(r.kv, Storages) /\ (r.phase \in Calling <=> sess[s].phase \in Calling)
  BY <1>4, <1>6, <1>7 DEF Calling
<1>9. signature' \in Seq(SignatureType)
  BY <1>4, SignatureFacts
<1> QED
  BY <1>4, <1>7, <1>8, <1>9, EmptyFacts, CallStep

-------------------------------------------------------------------------------
(* The shared decode step of a batch. *)

(* The sessions tt are in order, in the phases of ss and with its caches. *)
Carries(ss, tt) ==
    /\ SessionsOK(tt, Storages)
    /\ \A t \in Session : /\ tt[t].phase = ss[t].phase
                          /\ ss[t].kv # NoKv => tt[t].kv # NoKv

\* Steps that carry the sessions on compose.
LEMMA CarriesOn ==
  ASSUME NEW a, NEW b, NEW c, Carries(a, b), Carries(b, c)
  PROVE  Carries(a, c)
BY DEF Carries

\* A session that is in order is carried on by itself.
LEMMA CarriesSame ==
  ASSUME NEW a, SessionsOK(a, Storages)
  PROVE  Carries(a, a)
BY DEF Carries

\* One session of the batch is replaced by one in order.
LEMMA CarriesOne ==
  ASSUME NEW ss, SessionsOK(ss, Storages), NEW s \in Session, NEW H,
         \A h \in H : HostOK(h), NEW r \in SessionType(H),
         r.kv = NoKv \/ KvOK(r.kv, Storages),
         r.phase = ss[s].phase, ss[s].kv # NoKv => r.kv # NoKv
  PROVE  Carries(ss, [ss EXCEPT ![s] = r])
<1>1. ss[s].phase \in Calling \cup {"prefill"} => ss[s].kv # NoKv
  BY SessionFacts
<1>2. r.phase \in Calling \cup {"prefill"} => r.kv # NoKv
  BY <1>1
<1> DEFINE tt == [ss EXCEPT ![s] = r]
<1>3. PICK X : X = Storages
  OBVIOUS
<1>4. /\ SessionsOK(tt, X) /\ tt[s] = r
      /\ \A t \in Session \ {s} : tt[t] = ss[t]
  BY <1>2, <1>3, SessionReplaced
<1> HIDE DEF tt
<1>5. Carries(ss, tt)
  BY <1>3, <1>4 DEF Carries
<1> QED
  BY <1>5 DEF tt

\* prepare_batch_appends, one session: its append is prepared, or its cache
\* is left as it was.
LEMMA PrepareMemberCarries ==
  ASSUME profile \in Profiles, NEW done, SessionsOK(done.ss, Storages),
         NEW s \in Session, done.ss[s].kv # NoKv, NEW d, d = PrepareMember(done, s)
  PROVE  Carries(done.ss, d.ss)
<1>1. PICK ss : ss = done.ss
  OBVIOUS
<1>2. PICK r : r = Prepared(ss, s, 1, Growth, FALSE)
  OBVIOUS
<1>3. d = IF done.ok THEN [ok |-> r.ok, ss |-> [ss EXCEPT ![s].kv = r.kv]] ELSE done
  BY <1>1, <1>2, Zenon DEF PrepareMember
<1>4. SessionsOK(ss, Storages) /\ KvOK(ss[s].kv, Storages)
  BY <1>1, SessionFacts
<1>5. KvOK(r.kv, Storages)
  <2>1. PICK n \in Nat \ {0} : n = 1
    OBVIOUS
  <2>2. r = Prepared(ss, s, n, Growth, FALSE) /\ Growth \in Nat
    BY <1>2, <2>1, SessionsAssumption
  <2>3. Sound(r, ss[s].kv, Storages)
    BY <1>4, <2>2, PreparedSound
  <2> QED
    BY <1>4, <2>3 DEF Sound
<1>6. CASE ~done.ok
  <2>1. d.ss = ss
    BY <1>1, <1>3, <1>6
  <2> QED
    BY <1>1, <1>4, <2>1, CarriesSame
<1>7. CASE done.ok
  <2>1. PICK k : k = r.kv
    OBVIOUS
  <2>2. PICK tt : tt = [ss EXCEPT ![s].kv = k]
    OBVIOUS
  <2>3. d = [ok |-> r.ok, ss |-> tt]
    BY <1>3, <1>7, <2>1, <2>2, Zenon
  <2>4. PICK o : d = [ok |-> o, ss |-> tt]
    BY <2>3, Zenon
  <2>5. d.ss = tt
    BY <2>4
  <2>6. PICK H : (\A h \in H : HostOK(h)) /\ ss \in [Session -> SessionType(H)]
    BY <1>4, SessionsElim
  <2> DEFINE n == [ss[s] EXCEPT !.kv = k]
  <2>7. k \in KvType /\ KvOK(k, Storages) /\ k # NoKv
    BY <1>5, <2>1, NoCacheFacts
  <2>8. n \in SessionType(H) /\ n.kv = k /\ n.phase = ss[s].phase
    BY <2>6, <2>7 DEF SessionType
  <2>9. tt = [ss EXCEPT ![s] = n]
    BY <2>2, <2>6
  <2> HIDE DEF n
  <2>10. (n.kv = NoKv \/ KvOK(n.kv, Storages)) /\ (ss[s].kv # NoKv => n.kv # NoKv)
    BY <2>7, <2>8
  <2>11. Carries(ss, tt)
    BY <1>4, <2>6, <2>8, <2>9, <2>10, CarriesOne
  <2> QED
    BY <1>1, <2>5, <2>11
<1> QED
  BY <1>6, <1>7

\* assign_batch_signature, one session: it keeps its identity or gets one.
LEMMA IdentifyMemberCarries ==
  ASSUME signature \in Seq(SignatureType), NEW ss, SessionsOK(ss, Storages),
         NEW s \in Session
  PROVE  Carries(ss, IdentifyMember(ss, s))
<1>1. CASE ss[s].identity # 0
  BY <1>1, CarriesSame DEF IdentifyMember
<1>2. CASE ss[s].identity = 0
  <2>1. PICK n : n = NextIdentity(ss)
    OBVIOUS
  <2>2. n \in Nat
    BY <2>1, IdentityFacts
  <2>3. IdentifyMember(ss, s) = [ss EXCEPT ![s].identity = n]
    BY <1>2, <2>1, Zenon DEF IdentifyMember
  <2>4. PICK H : (\A h \in H : HostOK(h)) /\ ss \in [Session -> SessionType(H)]
    BY SessionsElim
  <2> DEFINE r == [ss[s] EXCEPT !.identity = n]
  <2>5. r \in SessionType(H) /\ r.kv = ss[s].kv /\ r.phase = ss[s].phase
    BY <2>2, <2>4 DEF SessionType
  <2>6. [ss EXCEPT ![s].identity = n] = [ss EXCEPT ![s] = r]
    BY <2>4
  <2> HIDE DEF r
  <2>7. r.kv = NoKv \/ KvOK(r.kv, Storages)
    BY <2>5, SessionFacts
  <2>8. Carries(ss, [ss EXCEPT ![s] = r])
    BY <2>4, <2>5, <2>7, CarriesOne
  <2> QED
    BY <2>3, <2>6, <2>8
<1> QED
  BY <1>1, <1>2

\* prepare_batch_appends by its steps, for the batches there are.
LEMMA PrepareBatchUnfolded ==
  ASSUME NEW ss, NEW s, NEW t, NEW start, start = [ok |-> TRUE, ss |-> ss],
         NEW one, one = PrepareMember(start, s),
         NEW two, two = PrepareMember(one, t),
         NEW batch, Len(batch) = 1 \/ Len(batch) = 2, batch[1] = s,
         Len(batch) = 2 => batch[2] = t
  PROVE  PrepareBatch(ss, batch) = IF Len(batch) = 1 THEN one ELSE two
<1> DEFINE Step(P) == [i \in 0..Len(batch) |->
                         IF i = 0 THEN [ok |-> TRUE, ss |-> ss]
                         ELSE PrepareMember(P[i - 1], batch[i])]
           Q == [i \in 0..Len(batch) |-> IF i = 0 THEN start ELSE IF i = 1 THEN one ELSE two]
           R == CHOOSE P : P = Step(P)
<1>1. PrepareBatch(ss, batch) = R[Len(batch)]
  BY DEF PrepareBatch
<1>2. Q[0] = start /\ Q[1] = one /\ (Len(batch) = 2 => Q[2] = two)
  OBVIOUS
<1>3. \A i \in 0..Len(batch) : Q[i] = Step(Q)[i]
  <2> SUFFICES ASSUME NEW i \in 0..Len(batch)
               PROVE  Q[i] = IF i = 0 THEN [ok |-> TRUE, ss |-> ss]
                             ELSE PrepareMember(Q[i - 1], batch[i])
    OBVIOUS
  <2> HIDE DEF Q
  <2>1. i = 0 \/ i = 1 \/ (i = 2 /\ Len(batch) = 2)
    <3>1. PICK n \in Nat : n = Len(batch) /\ (n = 1 \/ n = 2)
      OBVIOUS
    <3>2. i \in 0..n
      BY <3>1
    <3>3. i = 0 \/ i = 1 \/ (i = 2 /\ n = 2)
      BY <3>1, <3>2
    <3> QED
      BY <3>1, <3>3
  <2>2. CASE i = 0
    BY <1>2, <2>2
  <2>3. CASE i = 1
    BY <1>2, <2>3
  <2>4. CASE i = 2 /\ Len(batch) = 2
    BY <1>2, <2>4
  <2> QED
    BY <2>1, <2>2, <2>3, <2>4
<1>4. Q = Step(Q)
  BY <1>3
<1>5. R = Step(R)
  <2> HIDE DEF Q, Step
  <2> QED
    BY <1>4, Zenon
<1> HIDE DEF R
<1>6. \A i \in 0..Len(batch) : R[i] = IF i = 0 THEN [ok |-> TRUE, ss |-> ss]
                                      ELSE PrepareMember(R[i - 1], batch[i])
  BY <1>5
<1>7. R[0] = start
  <2>1. 0 \in 0..Len(batch)
    OBVIOUS
  <2> QED
    BY <1>6, <2>1
<1>8. R[1] = one
  BY <1>6, <1>7
<1>9. Len(batch) = 2 => R[2] = two
  BY <1>6, <1>8
<1> QED
  BY <1>1, <1>8, <1>9

\* assign_batch_signature by its steps, for the batches there are.
LEMMA IdentifiedUnfolded ==
  ASSUME NEW ss, NEW batch, Len(batch) = 1 \/ Len(batch) = 2
  PROVE  Identified(ss, batch)
           = IF Len(batch) = 1 THEN IdentifyMember(ss, batch[1])
             ELSE IdentifyMember(IdentifyMember(ss, batch[1]), batch[2])
<1>1. PICK one : one = IdentifyMember(ss, batch[1])
  OBVIOUS
<1>2. PICK two : two = IdentifyMember(one, batch[2])
  OBVIOUS
<1> DEFINE Step(P) == [i \in 0..Len(batch) |->
                         IF i = 0 THEN ss
                         ELSE IdentifyMember(P[i - 1], batch[i])]
           Q == [i \in 0..Len(batch) |-> IF i = 0 THEN ss ELSE IF i = 1 THEN one ELSE two]
           R == CHOOSE P : P = Step(P)
<1>3. Identified(ss, batch) = R[Len(batch)]
  BY DEF Identified
<1>4. Q[0] = ss /\ Q[1] = one /\ (Len(batch) = 2 => Q[2] = two)
  OBVIOUS
<1>5. \A i \in 0..Len(batch) : Q[i] = Step(Q)[i]
  <2> SUFFICES ASSUME NEW i \in 0..Len(batch)
               PROVE  Q[i] = IF i = 0 THEN ss
                             ELSE IdentifyMember(Q[i - 1], batch[i])
    OBVIOUS
  <2> HIDE DEF Q
  <2>1. i = 0 \/ i = 1 \/ (i = 2 /\ Len(batch) = 2)
    <3>1. PICK n \in Nat : n = Len(batch) /\ (n = 1 \/ n = 2)
      OBVIOUS
    <3>2. i \in 0..n
      BY <3>1
    <3>3. i = 0 \/ i = 1 \/ (i = 2 /\ n = 2)
      BY <3>1, <3>2
    <3> QED
      BY <3>1, <3>3
  <2>2. CASE i = 0
    BY <1>4, <2>2
  <2>3. CASE i = 1
    BY <1>1, <1>4, <2>3
  <2>4. CASE i = 2 /\ Len(batch) = 2
    BY <1>2, <1>4, <2>4
  <2> QED
    BY <2>1, <2>2, <2>3, <2>4
<1>6. Q = Step(Q)
  BY <1>5
<1>7. R = Step(R)
  <2> HIDE DEF Q, Step
  <2> QED
    BY <1>6, Zenon
<1> HIDE DEF R
<1>8. \A i \in 0..Len(batch) : R[i] = IF i = 0 THEN ss
                                      ELSE IdentifyMember(R[i - 1], batch[i])
  BY <1>7
<1>9. R[0] = ss
  <2>1. 0 \in 0..Len(batch)
    OBVIOUS
  <2> QED
    BY <1>8, <2>1
<1>10. R[1] = one
  BY <1>1, <1>8, <1>9
<1>11. Len(batch) = 2 => R[2] = two
  BY <1>2, <1>8, <1>10
<1> QED
  BY <1>1, <1>2, <1>3, <1>10, <1>11

\* The sessions of a batch.
LEMMA BatchFacts ==
  ASSUME NEW batch \in Batches
  PROVE  \E s \in Session, t \in Session :
           /\ Len(batch) = 1 \/ Len(batch) = 2
           /\ batch[1] = s /\ (Len(batch) = 2 => batch[2] = t)
           /\ s \in Members(batch) /\ (Len(batch) = 2 => t \in Members(batch))
           /\ Members(batch) \subseteq Session
           /\ \A i \in 1..Len(batch) : batch[i] \in Session
<1>1. PICK s \in Session, t \in Session : batch = <<s>> \/ batch = <<s, t>>
  BY DEF Batches
<1>2. CASE batch = <<s>>
  <2>1. Len(batch) = 1 /\ batch[1] = s
    BY <1>2
  <2>2. \A i \in 1..Len(batch) : i = 1
    BY <2>1
  <2>3. \A i \in 1..Len(batch) : batch[i] \in Session
    BY <2>1, <2>2
  <2>4. s \in Members(batch) /\ Members(batch) \subseteq Session
    BY <2>1, <2>3 DEF Members
  <2> QED
    BY <2>1, <2>3, <2>4
<1>3. CASE batch = <<s, t>>
  <2>1. Len(batch) = 2 /\ batch[1] = s /\ batch[2] = t
    BY <1>3
  <2>2. \A i \in 1..Len(batch) : i = 1 \/ i = 2
    BY <2>1
  <2>3. \A i \in 1..Len(batch) : batch[i] \in Session
    BY <2>1, <2>2
  <2>4. s \in Members(batch) /\ t \in Members(batch) /\ Members(batch) \subseteq Session
    BY <2>1, <2>3 DEF Members
  <2> QED
    BY <2>1, <2>3, <2>4
<1> QED
  BY <1>1, <1>2, <1>3

\* prepare_batch_appends carries the sessions on, wherever it stops.
LEMMA PrepareBatchCarries ==
  ASSUME profile \in Profiles, NEW ss, SessionsOK(ss, Storages), NEW batch \in Batches,
         \A s \in Members(batch) : ss[s].kv # NoKv
  PROVE  Carries(ss, PrepareBatch(ss, batch).ss)
<1>1. PICK s \in Session, t \in Session :
           /\ Len(batch) = 1 \/ Len(batch) = 2
           /\ batch[1] = s /\ (Len(batch) = 2 => batch[2] = t)
           /\ s \in Members(batch) /\ (Len(batch) = 2 => t \in Members(batch))
  BY BatchFacts
<1>2. PICK start : start = [ok |-> TRUE, ss |-> ss]
  OBVIOUS
<1>3. PICK one : one = PrepareMember(start, s)
  OBVIOUS
<1>4. PICK two : two = PrepareMember(one, t)
  OBVIOUS
<1>5. start.ss = ss
  BY <1>2
<1>6. PrepareBatch(ss, batch) = IF Len(batch) = 1 THEN one ELSE two
  BY <1>1, <1>2, <1>3, <1>4, PrepareBatchUnfolded
<1>7. Carries(ss, one.ss)
  BY <1>1, <1>3, <1>5, PrepareMemberCarries
<1>8. CASE Len(batch) = 1
  BY <1>6, <1>7, <1>8
<1>9. CASE Len(batch) = 2
  <2>1. SessionsOK(one.ss, Storages) /\ one.ss[t].kv # NoKv
    BY <1>1, <1>7, <1>9 DEF Carries
  <2>2. Carries(one.ss, two.ss)
    BY <1>4, <2>1, PrepareMemberCarries
  <2>3. Carries(ss, two.ss)
    BY <1>7, <2>2, CarriesOn
  <2> QED
    BY <1>6, <1>9, <2>3
<1> QED
  BY <1>1, <1>8, <1>9

\* assign_batch_signature carries the sessions on.
LEMMA IdentifiedCarries ==
  ASSUME signature \in Seq(SignatureType), NEW ss, SessionsOK(ss, Storages),
         NEW batch \in Batches
  PROVE  Carries(ss, Identified(ss, batch))
<1>1. PICK s \in Session, t \in Session :
           /\ Len(batch) = 1 \/ Len(batch) = 2
           /\ batch[1] = s /\ (Len(batch) = 2 => batch[2] = t)
  BY BatchFacts
<1>2. PICK one : one = IdentifyMember(ss, s)
  OBVIOUS
<1>3. PICK two : two = IdentifyMember(one, t)
  OBVIOUS
<1>4. Identified(ss, batch) = IF Len(batch) = 1 THEN one ELSE two
  <2>1. Identified(ss, batch)
          = IF Len(batch) = 1 THEN IdentifyMember(ss, batch[1])
            ELSE IdentifyMember(IdentifyMember(ss, batch[1]), batch[2])
    BY <1>1, IdentifiedUnfolded
  <2>2. CASE Len(batch) = 1
    BY <1>1, <1>2, <2>1, <2>2
  <2>3. CASE Len(batch) = 2
    BY <1>1, <1>2, <1>3, <2>1, <2>3
  <2> QED
    BY <1>1, <2>2, <2>3
<1>5. Carries(ss, one)
  BY <1>2, IdentifyMemberCarries
<1>6. Carries(one, two)
  BY <1>3, <1>5, IdentifyMemberCarries DEF Carries
<1>7. Carries(ss, two)
  BY <1>5, <1>6, CarriesOn
<1> QED
  BY <1>4, <1>5, <1>7

\* The appends of a batch are committed.
LEMMA CommitBatchCarries ==
  ASSUME NEW ss, SessionsOK(ss, Storages), NEW batch \in Batches,
         NEW tokens \in [1..Len(batch) -> Token],
         \A s \in Members(batch) : ss[s].kv # NoKv
  PROVE  Carries(ss, CommitBatch(ss, batch, tokens))
<1> DEFINE Index(s) == CHOOSE i \in 1..Len(batch) : batch[i] = s
           New(s) == [ss[s] EXCEPT !.kv = CommitAppend(@, @.pending).kv,
                                   !.evaluated = Append(@, tokens[Index(s)])]
           tt == [s \in Session |-> IF s \notin Members(batch) THEN ss[s] ELSE New(s)]
<1>1. CommitBatch(ss, batch, tokens) = tt
  BY DEF CommitBatch
<1>2. PICK H : (\A h \in H : HostOK(h)) /\ ss \in [Session -> SessionType(H)]
  BY SessionsElim
<1>3. ASSUME NEW s \in Session
      PROVE  /\ tt[s] \in SessionType(H) /\ tt[s].phase = ss[s].phase
             /\ tt[s].kv = NoKv \/ KvOK(tt[s].kv, Storages)
             /\ ss[s].kv # NoKv => tt[s].kv # NoKv
  <2>1. CASE s \notin Members(batch)
    <3>1. tt[s] = ss[s]
      BY <2>1
    <3> HIDE DEF tt
    <3> QED
      BY <1>2, <3>1, SessionFacts
  <2>2. CASE s \in Members(batch)
    <3>1. tt[s] = New(s)
      BY <2>2
    <3>2. Index(s) \in 1..Len(batch)
      <4>1. \E i \in 1..Len(batch) : batch[i] = s
        BY <2>2 DEF Members
      <4> QED
        BY <4>1, Zenon
    <3>3. PICK token \in Token : token = tokens[Index(s)]
      BY <3>2
    <3> HIDE DEF Index
    <3>4. PICK kv : kv = ss[s].kv
      OBVIOUS
    <3>5. KvOK(kv, Storages) /\ ss[s].evaluated \in Seq(Token)
      BY <2>2, <3>4, SessionFacts
    <3>6. PICK c : c = CommitAppend(kv, kv.pending)
      OBVIOUS
    <3>7. KvOK(c.kv, Storages)
      BY <3>5, <3>6, CommitSound DEF Sound
    <3>8. PICK k, e : k = c.kv /\ e = Append(ss[s].evaluated, token)
      OBVIOUS
    <3>9. k \in KvType /\ k # NoKv /\ KvOK(k, Storages) /\ e \in Seq(Token)
      BY <3>5, <3>7, <3>8, NoCacheFacts, AppendProperties
    <3>10. New(s) = [ss[s] EXCEPT !.kv = k, !.evaluated = e]
      BY <1>2, <3>3, <3>4, <3>6, <3>8 DEF SessionType
    <3> HIDE DEF New, tt
    <3>11. /\ [ss[s] EXCEPT !.kv = k, !.evaluated = e] \in SessionType(H)
           /\ [ss[s] EXCEPT !.kv = k, !.evaluated = e].kv = k
           /\ [ss[s] EXCEPT !.kv = k, !.evaluated = e].phase = ss[s].phase
      BY <1>2, <3>9 DEF SessionType
    <3> QED
      BY <3>1, <3>9, <3>10, <3>11
  <2> QED
    BY <2>1, <2>2
<1>4. tt \in [Session -> SessionType(H)]
  <2>1. tt = [s \in Session |-> tt[s]]
    OBVIOUS
  <2> HIDE DEF tt
  <2> QED
    BY <1>3, <2>1
<1> HIDE DEF tt
<1>5. \A s \in Session :
        /\ tt[s].kv = NoKv \/ KvOK(tt[s].kv, Storages)
        /\ tt[s].phase \in Calling \cup {"prefill"} => tt[s].kv # NoKv
  BY <1>3, SessionFacts
<1>6. PICK X : X = Storages
  OBVIOUS
<1>7. SessionsOK(tt, X)
  <2>1. \A s \in Session :
          /\ tt[s].kv = NoKv \/ KvOK(tt[s].kv, X)
          /\ tt[s].phase \in Calling \cup {"prefill"} => tt[s].kv # NoKv
    BY <1>5, <1>6, Zenon
  <2> QED
    BY <1>2, <1>4, <2>1, SessionsIntro
<1>8. Carries(ss, tt)
  BY <1>3, <1>6, <1>7 DEF Carries
<1> QED
  BY <1>1, <1>8

\* The sessions of a batch at rest, and what its step leaves before it captures.
LEMMA BatchCarries ==
  ASSUME GenerationInv, NEW batch \in Batches, \A s \in Members(batch) : BatchReady(s),
         NEW tokens \in [1..Len(batch) -> Token],
         NEW p, p = PrepareBatch(sess, batch),
         NEW ss, ss = p.ss \/ ss = Identified(p.ss, batch),
         NEW done, done = CommitBatch(ss, batch, tokens),
         NEW next, next = PrepareBatch(done, batch)
  PROVE  /\ Carries(sess, p.ss) /\ Carries(sess, done) /\ Carries(sess, next.ss)
         /\ \A s \in Members(batch) : /\ s \in Session /\ sess[s].phase = "idle"
                                      /\ sess[s].kv # NoKv
<1>1. \A s \in Members(batch) : /\ s \in Session /\ sess[s].phase = "idle"
                                /\ sess[s].kv # NoKv
  BY BatchFacts DEF BatchReady
<1>2. /\ SessionsOK(sess, Storages) /\ profile \in Profiles
      /\ signature \in Seq(SignatureType)
  BY DEF GenerationInv
<1>3. Carries(sess, p.ss)
  BY <1>1, <1>2, PrepareBatchCarries
<1>4. Carries(p.ss, ss)
  <2>1. SessionsOK(p.ss, Storages)
    BY <1>3 DEF Carries
  <2> QED
    BY <1>2, <2>1, CarriesSame, IdentifiedCarries
<1>5. Carries(sess, ss)
  BY <1>3, <1>4, CarriesOn
<1>6. SessionsOK(ss, Storages) /\ \A s \in Members(batch) : ss[s].kv # NoKv
  BY <1>1, <1>5 DEF Carries
<1>7. Carries(ss, done)
  BY <1>6, CommitBatchCarries
<1>8. Carries(sess, done)
  BY <1>5, <1>7, CarriesOn
<1>9. SessionsOK(done, Storages) /\ \A s \in Members(batch) : done[s].kv # NoKv
  BY <1>1, <1>8 DEF Carries
<1>10. Carries(done, next.ss)
  BY <1>2, <1>9, PrepareBatchCarries
<1>11. Carries(sess, next.ss)
  BY <1>8, <1>10, CarriesOn
<1> QED
  BY <1>1, <1>3, <1>8, <1>11

\* capture_batch_graph: the signature of the batch.
LEMMA SignatureTyped ==
  ASSUME NEW ss, SessionsOK(ss, Storages), NEW batch \in Batches,
         \A s \in Members(batch) : ss[s].kv # NoKv
  PROVE  Signature(ss, batch) \in Seq(SignatureType)
<1>1. Len(batch) \in Nat /\ \A i \in 1..Len(batch) : batch[i] \in Session
  BY BatchFacts
<1>2. ASSUME NEW i \in 1..Len(batch)
      PROVE  [identity |-> ss[batch[i]].identity, revision |-> ss[batch[i]].kv.rev,
              context |-> ss[batch[i]].kv.ctx] \in SignatureType
  <2>1. PICK s \in Session : s = batch[i]
    BY <1>1
  <2>2. s \in Members(batch)
    BY <2>1 DEF Members
  <2>3. ss[s].identity \in Nat /\ KvOK(ss[s].kv, Storages)
    BY <2>2, SessionFacts
  <2>4. ss[s].kv \in KvType
    BY <2>3 DEF KvOK
  <2>5. ss[s].kv.rev \in Nat /\ ss[s].kv.ctx \in Nat
    BY <2>4, KvFields
  <2> QED
    BY <2>1, <2>3, <2>5 DEF SignatureType
<1> DEFINE Entry(i) == [identity |-> ss[batch[i]].identity, revision |-> ss[batch[i]].kv.rev,
                        context |-> ss[batch[i]].kv.ctx]
<1>3. Signature(ss, batch) = [i \in 1..Len(batch) |-> Entry(i)]
  BY DEF Signature
<1>4. \A i \in 1..Len(batch) : Entry(i) \in SignatureType
  BY <1>2
<1> HIDE DEF Entry
<1> QED
  BY <1>1, <1>3, <1>4

\* The sessions are carried on: no call begins or ends.
LEMMA CarriedStep ==
  ASSUME GenerationInv, NEW ss, Carries(sess, ss), sess' = ss, profile' = profile,
         call' = call, signature' \in Seq(SignatureType)
  PROVE  GenerationInv'
<1>1. SessionsOK(ss, Storages)
  BY DEF Carries
<1>2. CallOK(ss, call')
  BY DEF GenerationInv, CallOK, Carries
<1> QED
  BY <1>1, <1>2, SessionsStep

\* generate_session_batch_token.
LEMMA BatchStepStep ==
  ASSUME GenerationInv, NEW batch \in Batches, NEW tokens \in [1..Len(batch) -> Token],
         NEW captures, BatchStep(batch, tokens, captures)
  PROVE  GenerationInv'
<1>1. PICK p : p = PrepareBatch(sess, batch)
  OBVIOUS
<1>2. PICK ss : ss = Identified(p.ss, batch)
  OBVIOUS
<1>3. PICK done : done = CommitBatch(ss, batch, tokens)
  OBVIOUS
<1>4. PICK next : next = PrepareBatch(done, batch)
  OBVIOUS
<1>5. /\ \A s \in Members(batch) : BatchReady(s)
      /\ profile' = profile /\ call' = call
      /\ \/ sess' = done /\ (KeepGraph \/ signature' = <<>>)
         \/ sess' = next.ss /\ signature' = Signature(next.ss, batch)
  BY <1>1, <1>2, <1>3, <1>4, Zenon DEF BatchStep, Become, CaptureBatch
<1>6. /\ Carries(sess, done) /\ Carries(sess, next.ss)
      /\ \A s \in Members(batch) : s \in Session /\ sess[s].kv # NoKv
  BY <1>1, <1>2, <1>3, <1>4, <1>5, BatchCarries
<1>7. CASE sess' = done /\ (KeepGraph \/ signature' = <<>>)
  <2>1. signature' \in Seq(SignatureType)
    BY <1>7, SignatureFacts
  <2> QED
    BY <1>5, <1>6, <1>7, <2>1, CarriedStep
<1>8. CASE sess' = next.ss /\ signature' = Signature(next.ss, batch)
  <2>1. PICK n : n = next.ss
    OBVIOUS
  <2>2. SessionsOK(n, Storages) /\ \A s \in Members(batch) : n[s].kv # NoKv
    BY <1>6, <2>1 DEF Carries
  <2>3. Signature(n, batch) \in Seq(SignatureType)
    BY <2>2, SignatureTyped
  <2> QED
    BY <1>5, <1>6, <1>8, <2>1, <2>3, CarriedStep
<1> QED
  BY <1>5, <1>7, <1>8

\* quarantine_batch_failure: a cache whose pending append is dropped.
LEMMA CleanOK ==
  ASSUME NEW kv, KvOK(kv, Storages)
  PROVE  KvOK(DiscardPending([kv EXCEPT !.graph = NoGraph]).kv, Storages)
<1>1. kv \in KvType /\ NoGraph \in TokenType /\ kv.rev <= MaxRevision
  BY DEF KvOK, NoGraph, TokenType
<1>2. PICK k : k = [kv EXCEPT !.graph = NoGraph]
  OBVIOUS
<1>3. /\ k \in KvType /\ k.segs = kv.segs /\ k.pos = kv.pos /\ k.ctx = kv.ctx
      /\ k.rev = kv.rev /\ k.pending = kv.pending
  BY <1>1, <1>2 DEF KvType
<1>4. k.ctx >= kv.ctx /\ k.rev <= MaxRevision
  BY <1>1, <1>3, KvFields
<1>5. KvOK(k, Storages)
  BY <1>1, <1>3, <1>4, Reshaped
<1>6. KvOK(DiscardPending(k).kv, Storages)
  BY <1>5, DiscardSound
<1> QED
  BY <1>2, <1>6

\* A batch that fails leaves its sessions quarantined, with caches in order.
LEMMA BatchFailsStep ==
  ASSUME GenerationInv, NEW batch \in Batches, NEW tokens \in [1..Len(batch) -> Token],
         NEW stage \in {"prepare", "sample", "capture"}, NEW retired \in BOOLEAN,
         BatchFails(batch, tokens, stage, retired)
  PROVE  GenerationInv'
<1>1. PICK p : p = PrepareBatch(sess, batch)
  OBVIOUS
<1>2. PICK done : done = CommitBatch(p.ss, batch, tokens)
  OBVIOUS
<1>3. PICK next : next = PrepareBatch(done, batch)
  OBVIOUS
<1>4. PICK reached : reached = CASE stage = "prepare" -> p.ss
                     [] stage = "sample" -> IF p.ok THEN done ELSE p.ss
                     [] stage = "capture" -> IF p.ok THEN next.ss ELSE p.ss
  OBVIOUS
<1> DEFINE Clean(kv) == IF retired THEN DiscardPending([kv EXCEPT !.graph = NoGraph]).kv
                        ELSE kv
           New(s) == [Empty EXCEPT !.phase = "quarantined", !.kv = Clean(reached[s].kv)]
           ss == [s \in Session |-> IF s \in Members(batch) THEN New(s) ELSE sess[s]]
<1>5. /\ \A s \in Members(batch) : BatchReady(s)
      /\ profile' = profile /\ call' = call /\ signature' = <<>>
      /\ sess' = ss
  BY <1>1, <1>2, <1>3, <1>4, Zenon DEF BatchFails, Become
<1>6. reached = p.ss \/ reached = done \/ reached = next.ss
  BY <1>4
<1>7. /\ Carries(sess, p.ss) /\ Carries(sess, done) /\ Carries(sess, next.ss)
      /\ \A s \in Members(batch) : /\ s \in Session /\ sess[s].phase = "idle"
                                   /\ sess[s].kv # NoKv
  BY <1>1, <1>2, <1>3, <1>5, BatchCarries
<1>8. Carries(sess, reached)
  BY <1>6, <1>7
<1>9. PICK G : (\A h \in G : HostOK(h)) /\ sess \in [Session -> SessionType(G)]
  BY SessionsElim DEF GenerationInv
<1> DEFINE H == G \cup {NoHost}
<1>10. (\A h \in H : HostOK(h)) /\ \A s \in Session : sess[s] \in SessionType(H)
  BY <1>9, NoHostOK DEF SessionType
<1>11. Empty \in SessionType(H)
  BY EmptyFacts DEF SessionType
<1> HIDE DEF H
<1>12. ASSUME NEW s \in Session
       PROVE  /\ ss[s] \in SessionType(H)
              /\ ss[s].kv = NoKv \/ KvOK(ss[s].kv, Storages)
              /\ ss[s].phase \in Calling \cup {"prefill"} => ss[s].kv # NoKv
              /\ ss[s].phase \in Calling <=> sess[s].phase \in Calling
  <2>1. CASE s \notin Members(batch)
    <3>1. ss[s] = sess[s]
      BY <2>1
    <3> HIDE DEF ss
    <3> QED
      BY <1>10, <3>1, SessionFacts DEF GenerationInv
  <2>2. CASE s \in Members(batch)
    <3>1. ss[s] = New(s)
      BY <2>2
    <3>2. PICK kv : kv = reached[s].kv
      OBVIOUS
    <3>3. KvOK(kv, Storages)
      BY <1>7, <1>8, <2>2, <3>2, SessionFacts DEF Carries
    <3>4. PICK k : k = Clean(kv)
      OBVIOUS
    <3>5. KvOK(k, Storages)
      BY <3>3, <3>4, CleanOK
    <3>6. k \in KvType
      BY <3>5, NoCacheFacts
    <3>7. New(s) = [Empty EXCEPT !.phase = "quarantined", !.kv = k]
      BY <3>2, <3>4, Zenon
    <3> HIDE DEF New, Clean, ss
    <3>8. /\ [Empty EXCEPT !.phase = "quarantined", !.kv = k] \in SessionType(H)
          /\ [Empty EXCEPT !.phase = "quarantined", !.kv = k].kv = k
          /\ [Empty EXCEPT !.phase = "quarantined", !.kv = k].phase = "quarantined"
      BY <1>11, <3>6 DEF SessionType, Phases
    <3>9. "quarantined" \notin Calling \cup {"prefill"} /\ sess[s].phase \notin Calling
      BY <1>7, <2>2 DEF Calling
    <3> QED
      BY <3>1, <3>5, <3>7, <3>8, <3>9
  <2> QED
    BY <2>1, <2>2
<1>13. ss \in [Session -> SessionType(H)]
  <2>1. ss = [s \in Session |-> ss[s]]
    OBVIOUS
  <2> HIDE DEF ss
  <2> QED
    BY <1>12, <2>1
<1> HIDE DEF ss
<1>14. SessionsOK(ss, Storages)
  <2>1. PICK X : X = Storages
    OBVIOUS
  <2>2. \A s \in Session :
          /\ ss[s].kv = NoKv \/ KvOK(ss[s].kv, X)
          /\ ss[s].phase \in Calling \cup {"prefill"} => ss[s].kv # NoKv
    BY <1>12, <2>1, Zenon
  <2>3. SessionsOK(ss, X)
    BY <1>10, <1>13, <2>2, SessionsIntro
  <2> QED
    BY <2>1, <2>3
<1>15. CallOK(ss, call')
  BY <1>5, <1>12 DEF GenerationInv, CallOK
<1>16. signature' \in Seq(SignatureType)
  BY <1>5, SignatureFacts
<1> QED
  BY <1>5, <1>14, <1>15, <1>16, SessionsStep

-------------------------------------------------------------------------------
(* The invariant. *)

\* A runtime begins with no session in use.
LEMMA InitGeneration == Init => GenerationInv
<1> SUFFICES ASSUME Init
             PROVE  GenerationInv
  OBVIOUS
<1>1. /\ profile \in Profiles /\ sess = [s \in Session |-> Empty]
      /\ signature = <<>> /\ call = NoCall
  BY DEF Init
<1>2. SessionsOK(sess, Storages)
  <2>1. sess \in [Session -> SessionType({NoHost})]
    BY <1>1, EmptyFacts
  <2>2. \A s \in Session :
          /\ sess[s].kv = NoKv
          /\ sess[s].phase \notin Calling \cup {"prefill"}
    BY <1>1, EmptyFacts DEF Calling
  <2>3. PICK ss, X, H : ss = sess /\ X = Storages /\ H = {NoHost}
    OBVIOUS
  <2>4. SessionsOK(ss, X)
    BY <2>1, <2>2, <2>3, EmptyFacts, SessionsIntro
  <2> QED
    BY <2>3, <2>4, Zenon
<1>3. CallOK(sess, call)
  <2>1. NoCall \notin Session
    BY SessionsAssumption, Zenon DEF NoCall
  <2> QED
    BY <1>1, <2>1, EmptyFacts DEF CallOK, Calling
<1>4. signature \in Seq(SignatureType)
  BY <1>1
<1> QED
  BY <1>1, <1>2, <1>3, <1>4 DEF GenerationInv

\* Every step of the runtime keeps the invariant.
LEMMA NextGenerationInv == GenerationInv /\ [Next]_vars => GenerationInv'
<1> SUFFICES ASSUME GenerationInv, [Next]_vars
             PROVE  GenerationInv'
  OBVIOUS
<1>1. Sampled \subseteq Token /\ profile \in Profiles
  BY SessionsAssumption DEF GenerationInv
<1>2. profile.graphs \in BOOLEAN /\ profile.longest \in Nat
  BY <1>1, StorageFacts
<1>3. ASSUME NEW s \in Session, Requests(s)
      PROVE  GenerationInv'
  <2>1. PICK prompt \in Prompts, limit \in 1..profile.longest :
          \/ \E fails \in BOOLEAN : PrepareFails(s, prompt, limit, fails)
          \/ BeginPrefill(s, prompt, limit)
          \/ \E captured \in {FALSE, profile.graphs} :
               BeginGenerate(s, prompt, limit, captured)
    BY <1>3, Zenon DEF Requests
  <2>2. limit \in Int
    BY <1>2
  <2>3. CASE \E fails \in BOOLEAN : PrepareFails(s, prompt, limit, fails)
    BY <2>3, PrepareFailsStep
  <2>4. CASE BeginPrefill(s, prompt, limit)
    BY <2>4, BeginPrefillStep
  <2>5. CASE \E captured \in {FALSE, profile.graphs} :
               BeginGenerate(s, prompt, limit, captured)
    <3>1. PICK captured \in BOOLEAN : BeginGenerate(s, prompt, limit, captured)
      BY <1>2, <2>5
    <3> QED
      BY <2>2, <3>1, BeginGenerateStep
  <2> QED
    BY <2>1, <2>3, <2>4, <2>5
<1>4. ASSUME NEW s \in Session, Speculates(s)
      PROVE  GenerationInv'
  <2>1. PICK drafts \in Drafts : \E accepted \in 0..Len(drafts), token \in Sampled :
          \E emitted \in 1..(accepted + 1) :
            VerifyStep(s, drafts, accepted, token, emitted)
    BY <1>4, Zenon DEF Speculates
  <2>2. PICK accepted \in 0..Len(drafts), token \in Sampled :
          \E emitted \in 1..(accepted + 1) :
            VerifyStep(s, drafts, accepted, token, emitted)
    BY <2>1, Zenon
  <2>3. PICK emitted \in 1..(accepted + 1) : VerifyStep(s, drafts, accepted, token, emitted)
    BY <2>2, Zenon
  <2>4. token \in Token
    BY <1>1
  <2> QED
    BY <2>3, <2>4, VerifyStepStep
<1>5. ASSUME NEW s \in Session, NEW token \in Sampled,
             FirstToken(s, token) \/ EagerStep(s, token) \/ GraphStep(s, token)
      PROVE  GenerationInv'
  <2>1. token \in Token
    BY <1>1
  <2> QED
    BY <1>5, <2>1, FirstTokenStep, EagerStepStep, GraphStepStep
<1>6. ASSUME NEW s \in Session,
             \/ AdvancePrefill(s) \/ DropPrefill(s) \/ FinishPrefill(s)
             \/ PromptStep(s)
             \/ FinishGenerate(s) \/ EndGenerate(s) \/ QuarantineGenerate(s)
             \/ Hibernate(s) \/ Wake(s) \/ DropHibernated(s) \/ Discard(s)
      PROVE  GenerationInv'
  BY <1>6, AdvanceSteps, DropSteps, SettleSteps, QuarantineStep, HibernateStep, WakeStep
<1>7. ASSUME NEW s \in Session, NEW t \in Session,
             \/ ForkSession(s, t)
             \/ \E prefix \in 1..Len(sess[s].evaluated) : ForkSessionPrefix(s, t, prefix)
      PROVE  GenerationInv'
  BY <1>7, ForkSteps
<1>8. CASE BatchSteps
  <2>1. PICK batch \in Batches : \E tokens \in [1..Len(batch) -> Sampled] :
          \/ \E captures \in {FALSE, profile.graphs} : BatchStep(batch, tokens, captures)
          \/ \E stage \in {"prepare", "sample", "capture"}, retired \in BOOLEAN :
               BatchFails(batch, tokens, stage, retired)
    BY <1>8, Zenon DEF BatchSteps
  <2>2. PICK tokens \in [1..Len(batch) -> Sampled] :
          \/ \E captures \in {FALSE, profile.graphs} : BatchStep(batch, tokens, captures)
          \/ \E stage \in {"prepare", "sample", "capture"}, retired \in BOOLEAN :
               BatchFails(batch, tokens, stage, retired)
    BY <2>1, Zenon
  <2>3. tokens \in [1..Len(batch) -> Token]
    BY <1>1
  <2>4. CASE \E captures \in {FALSE, profile.graphs} : BatchStep(batch, tokens, captures)
    BY <2>3, <2>4, BatchStepStep
  <2>5. CASE \E stage \in {"prepare", "sample", "capture"}, retired \in BOOLEAN :
               BatchFails(batch, tokens, stage, retired)
    BY <2>3, <2>5, BatchFailsStep
  <2> QED
    BY <2>2, <2>4, <2>5
<1>9. CASE UNCHANGED vars
  BY <1>9 DEF vars, GenerationInv, SessionsOK, CallOK, Storages
<1> QED
  BY <1>3, <1>4, <1>5, <1>6, <1>7, <1>8, <1>9 DEF Next

\* The caches, the sessions and the call agree in every reachable state.
THEOREM GenerationInvariant == Spec => []GenerationInv
BY InitGeneration, NextGenerationInv, PTL DEF Spec

\* The caches of all the sessions are in order in every reachable state: their
\* segments hold exactly the committed positions, an append is pending only at
\* their end, and the runtime is held by the one session that generates
\* (KvState in kv.rs, the sessions of Runtime in runtime.rs).
THEOREM CachesAlwaysWellFormed == Spec => []CachesWellFormed
<1>1. GenerationInv => CachesWellFormed
  <2> SUFFICES ASSUME GenerationInv, NEW s \in Session
               PROVE  /\ sess[s].kv # NoKv => WellFormed(sess[s].kv)
                      /\ sess[s].kv.rev <= MaxRevision
                      /\ Held(sess, s) \subseteq Storages
                      /\ sess[s].phase \in {"prompt", "decode"} <=> call = s
    BY DEF CachesWellFormed
  <2>1. sess[s].kv # NoKv => KvOK(sess[s].kv, Storages)
    BY SessionFacts DEF GenerationInv
  <2>2. sess[s].phase \in {"prompt", "decode"} <=> call = s
    BY DEF GenerationInv, CallOK, Calling
  <2>3. CASE sess[s].kv = NoKv
    <3>1. sess[s].kv.rev = -1 /\ Len(sess[s].kv.segs) = 0
      BY <2>3, NoCacheFacts
    <3>2. sess[s].kv.rev <= MaxRevision /\ Held(sess, s) = {}
      BY <3>1, RevisionAssumption DEF Held
    <3> QED
      BY <2>2, <2>3, <3>2
  <2>4. CASE sess[s].kv # NoKv
    <3>1. WellFormed(sess[s].kv) /\ sess[s].kv.rev <= MaxRevision /\ Within(sess[s].kv, Storages)
      BY <2>1, <2>4 DEF KvOK
    <3>2. Held(sess, s) \subseteq Storages
      BY <3>1 DEF Held, Within
    <3> QED
      BY <2>2, <3>1, <3>2
  <2> QED
    BY <2>3, <2>4
<1> QED
  BY <1>1, GenerationInvariant, PTL

\* A request whose preparation fails, for whichever prompt, at whatever point and
\* whether or not a storage could be allocated, leaves the cache of its session
\* exactly as it was: SessionFailureEffect::Unchanged is true
\* (prepare_shape_transition, prepare_append_at, truncate and their rollback).
THEOREM FailedPrepareAlwaysUndone == Spec => []FailedPrepareChangesNothing
<1>1. GenerationInv => FailedPrepareChangesNothing
  <2> SUFFICES ASSUME GenerationInv, NEW s \in Session, NEW prompt \in Prompts,
                      NEW limit \in 1..profile.longest, NEW fails \in BOOLEAN,
                      NEW ctx, ctx = Bucket(prompt, limit),
                      NEW taken, taken = TakeGenerationState(s, prompt, ctx, fails),
                      Fits(prompt, limit), Compatible(s, prompt, ctx), ~taken.ok
               PROVE  taken.kv = sess[s].kv
    BY ZenonT(60) DEF FailedPrepareChangesNothing
  <2>1. ctx \in Nat
    BY BucketFacts
  <2> QED
    BY <2>1, TakeSound, ZenonT(60)
<1> QED
  BY <1>1, GenerationInvariant, PTL

-------------------------------------------------------------------------------
(* What an operation changes of a cache: the layout revision, the decode   *)
(* graph and the segments.                                                 *)

(* The revision never falls, and counts every change of the segments; the  *)
(* token of a graph is kept or dropped.                                    *)
Revises(old, new) ==
    /\ old.rev <= new.rev
    /\ new.graph = old.graph \/ new.graph = NoGraph
    /\ old.rev = new.rev => new.segs = old.segs

(* The segment i is the one it was, and may hold fewer positions. *)
KeepsSeg(old, new, i) ==
    /\ i \in 1..Len(old.segs)
    /\ new.segs[i].start = old.segs[i].start
    /\ new.segs[i].storage = old.segs[i].storage
    /\ new.segs[i].committed <= old.segs[i].committed

NewSeg(new, i, fresh) ==
    /\ i = Len(new.segs) /\ fresh # NoStorage
    /\ new.segs[i].storage = fresh /\ new.segs[i].committed = 0

Trims(old, new) ==
    /\ Revises(old, new)
    /\ \A i \in 1..Len(new.segs) : KeepsSeg(old, new, i)
Grows(old, new, fresh) ==
    /\ Revises(old, new)
    /\ \A i \in 1..Len(new.segs) : KeepsSeg(old, new, i) \/ NewSeg(new, i, fresh)

(* The last segment lies in a storage of one owner, or in a new one. *)
Placed(kv, uniq, fresh) ==
    /\ Len(kv.segs) >= 1
    /\ LET x == kv.segs[Len(kv.segs)].storage
       IN x \in uniq \/ (x = fresh /\ fresh # NoStorage)

\* A cache is trimmed by leaving it alone.
LEMMA TrimsSame ==
  ASSUME NEW kv \in KvType, NEW new \in KvType, new.segs = kv.segs, kv.rev <= new.rev,
         new.graph = kv.graph \/ new.graph = NoGraph
  PROVE  Trims(kv, new) /\ \A fresh : Grows(kv, new, fresh)
<1>1. \A i \in 1..Len(new.segs) : KeepsSeg(kv, new, i)
  BY KvFields DEF KeepsSeg
<1> QED
  BY <1>1 DEF Trims, Grows, Revises

\* A trimmed cache that grows, or is trimmed again.
LEMMA TrimsThen ==
  ASSUME NEW a \in KvType, NEW b \in KvType, NEW c \in KvType, Trims(a, b)
  PROVE  /\ \A fresh : Grows(b, c, fresh) => Grows(a, c, fresh)
         /\ Trims(b, c) => Trims(a, c)
<1>1. a.rev \in Nat /\ b.rev \in Nat /\ c.rev \in Nat
  BY KvFields
<1>2. Revises(b, c) => Revises(a, c)
  BY <1>1 DEF Revises, Trims
<1>3. ASSUME NEW i \in 1..Len(c.segs), KeepsSeg(b, c, i)
      PROVE  KeepsSeg(a, c, i)
  <2>1. i \in 1..Len(b.segs) /\ KeepsSeg(a, b, i)
    BY <1>3 DEF KeepsSeg, Trims
  <2>2. i \in 1..Len(a.segs)
    BY <2>1 DEF KeepsSeg
  <2>3. a.segs[i].committed \in Nat /\ b.segs[i].committed \in Nat /\ c.segs[i].committed \in Nat
    BY <2>1, <2>2, KvFields
  <2> QED
    BY <1>3, <2>1, <2>2, <2>3 DEF KeepsSeg
<1> QED
  BY <1>2, <1>3 DEF Grows, Trims

\* A cut trims the cache.
LEMMA CutTrims ==
  ASSUME NEW X, NEW kv, KvOK(kv, X), NEW position \in Nat, position <= kv.pos,
         NEW c, c = CutTo(kv, position)
  PROVE  Trims(kv, c.st.kv)
<1>1. kv \in KvType /\ WellFormed(kv)
  BY DEF KvOK
<1>2. PICK u \in Seq(Seg), r \in Seq(Seg), keep \in 0..Len(kv.segs), inc \in 0..2 :
        /\ c = [ok |-> kv.rev + inc <= MaxRevision,
                st |-> [kv |-> CacheOf(kv, u, position, kv.rev + inc),
                        rb |-> RollbackOf(kv, r)]]
        /\ CutBack(kv.segs, u, keep, position)
        /\ inc = 0 => u = kv.segs
  BY <1>1, CutShape
<1> DEFINE new == CacheOf(kv, u, position, kv.rev + inc)
<1>3. c.st.kv = new
  BY <1>2
<1>4. new.segs = u /\ new.rev = kv.rev + inc /\ new.graph = kv.graph
  BY DEF CacheOf
<1> HIDE DEF new
<1>5. kv.rev \in Nat /\ Len(kv.segs) \in Nat
  BY <1>1, KvFields
<1>6. Revises(kv, new)
  BY <1>2, <1>4, <1>5 DEF Revises
<1>7. ASSUME NEW i \in 1..Len(u)
      PROVE  KeepsSeg(kv, new, i)
  <2>1. keep \in Nat /\ Len(u) = keep /\ i \in 1..keep /\ i \in 1..Len(kv.segs)
    BY <1>2, <1>5 DEF CutBack
  <2>2. kv.segs[i].committed \in Nat
    BY <1>1, <2>1, KvFields
  <2>3. u[i].committed <= kv.segs[i].committed
    <3>1. CASE i < keep
      BY <1>2, <2>1, <2>2, <3>1 DEF CutBack
    <3>2. CASE i = keep
      BY <1>2, <2>1, <2>2, <3>2 DEF CutBack
    <3> QED
      BY <2>1, <3>1, <3>2
  <2> QED
    BY <1>2, <1>4, <2>1, <2>3 DEF CutBack, KeepsSeg
<1> QED
  BY <1>3, <1>4, <1>6, <1>7 DEF Trims

\* KvState::truncate trims the cache.
LEMMA TruncateTrims ==
  ASSUME NEW X, NEW kv, KvOK(kv, X), NEW position \in Nat,
         NEW r, r = Truncate(kv, position)
  PROVE  Trims(kv, r.kv)
<1>1. kv \in KvType /\ kv.pos \in Nat /\ kv.rev \in Nat
  BY KvFields DEF KvOK
<1>2. CASE ~r.ok
  <2>1. r.kv = kv
    BY <1>2, TruncateSound DEF Sound
  <2> QED
    BY <1>1, <2>1, TrimsSame
<1>3. CASE r.ok
  <2>1. ~(position > kv.pos)
    BY <1>3 DEF Truncate, Refused
  <2>2. PICK c : c = CutTo(kv, position)
    OBVIOUS
  <2>3. r = IF c.ok THEN Kept(c.st.kv) ELSE Rolled(c.st)
    BY <2>1, <2>2, Zenon DEF Truncate
  <2>4. r.kv = c.st.kv
    BY <1>3, <2>3 DEF Kept, Rolled
  <2>5. position <= kv.pos
    BY <1>1, <2>1
  <2> QED
    BY <2>2, <2>4, <2>5, CutTrims
<1> QED
  BY <1>2, <1>3

\* allocate_append grows the cache by one segment in the new storage.
LEMMA AllocateGrows ==
  ASSUME NEW st, st.kv \in KvType, NEW tokens, NEW growth, NEW fresh, NEW uniq,
         NEW r, r = AllocateAppend(st, tokens, growth, fresh), r.ok
  PROVE  Grows(st.kv, r.kv, fresh) /\ Placed(r.kv, uniq, fresh)
<1>1. PICK old : old = st.kv
  OBVIOUS
<1> DEFINE cap == Least(Most(growth, tokens), old.ctx - old.pos)
           seg == [start |-> old.pos, committed |-> 0, storage |-> fresh, cap |-> cap]
           target == Target(old, tokens, Len(old.segs) + 1)
<1>2. r = IF old.rev < MaxRevision /\ fresh # NoStorage
          THEN Kept([old EXCEPT !.segs = Append(@, seg), !.rev = @ + 1,
                                !.pending = target])
          ELSE Rolled(st)
  BY <1>1, Zenon DEF AllocateAppend
<1>3. PICK e : e = seg
  OBVIOUS
<1>4. e.storage = fresh /\ e.committed = 0
  BY <1>3
<1> HIDE DEF seg, target
<1>5. old \in KvType /\ old.segs \in Seq(Seg) /\ Len(old.segs) \in Nat /\ old.rev \in Nat
  BY <1>1, KvFields
<1>6. ~Rolled(st).ok
  BY DEF Rolled
<1>7. /\ fresh # NoStorage
      /\ r = Kept([old EXCEPT !.segs = Append(@, e), !.rev = @ + 1, !.pending = target])
  BY <1>2, <1>3, <1>6, Zenon
<1>9. PICK segs : segs = Append(old.segs, e)
  OBVIOUS
<1>8. /\ r.kv.segs = segs /\ r.kv.rev = old.rev + 1
      /\ r.kv.graph = old.graph
  <2>1. PICK v : v = old.rev + 1
    OBVIOUS
  <2>2. [old EXCEPT !.segs = Append(@, e), !.rev = @ + 1, !.pending = target]
          = [old EXCEPT !.segs = segs, !.rev = v, !.pending = target]
    BY <1>5, <1>9, <2>1 DEF KvType
  <2>3. r.kv = [old EXCEPT !.segs = segs, !.rev = v, !.pending = target]
    BY <1>7, <2>2 DEF Kept
  <2> QED
    BY <1>5, <2>1, <2>3 DEF KvType
<1>10. /\ Len(segs) = Len(old.segs) + 1 /\ segs[Len(segs)] = e
       /\ \A i \in 1..Len(old.segs) : segs[i] = old.segs[i]
  <2>1. old.segs \in Seq(Seg \cup {e})
    BY <1>5
  <2> QED
    BY <1>5, <1>9, <2>1, AppendProperties
<1>11. Revises(old, r.kv)
  BY <1>5, <1>8 DEF Revises
<1>12. ASSUME NEW i \in 1..Len(r.kv.segs)
       PROVE  KeepsSeg(old, r.kv, i) \/ NewSeg(r.kv, i, fresh)
  <2>1. CASE i = Len(segs)
    BY <1>4, <1>7, <1>8, <1>9, <1>10, <2>1 DEF NewSeg
  <2>2. CASE i # Len(segs)
    <3>1. i \in 1..Len(old.segs)
      BY <1>5, <1>8, <1>9, <1>10, <2>2
    <3>2. old.segs[i].committed \in Nat
      BY <1>5, <3>1, KvFields
    <3> QED
      BY <1>8, <1>9, <1>10, <3>1, <3>2 DEF KeepsSeg
  <2> QED
    BY <2>1, <2>2
<1>13. Placed(r.kv, uniq, fresh)
  <2>1. Len(segs) >= 1
    BY <1>5, <1>10
  <2> QED
    BY <1>4, <1>7, <1>8, <1>10, <2>1, Zenon DEF Placed
<1> QED
  BY <1>1, <1>11, <1>12, <1>13 DEF Grows

\* The placing of an append.
LEMMA PlaceGrows ==
  ASSUME NEW st, st.kv \in KvType, NEW tokens, NEW growth, NEW fresh, NEW uniq,
         NEW r, r = PlaceAppend(st, tokens, growth, uniq, fresh), r.ok
  PROVE  Grows(st.kv, r.kv, fresh) /\ Placed(r.kv, uniq, fresh)
<1>1. CASE ~TailHasRoom(st.kv, tokens, uniq)
  <2>1. r = AllocateAppend(st, tokens, growth, fresh)
    BY <1>1 DEF PlaceAppend
  <2> QED
    BY <2>1, AllocateGrows
<1>2. CASE TailHasRoom(st.kv, tokens, uniq)
  <2>1. PICK old, t : old = st.kv /\ t = Target(st.kv, tokens, Len(st.kv.segs))
    OBVIOUS
  <2>2. r = Kept([old EXCEPT !.pending = t])
    BY <1>2, <2>1, Zenon DEF PlaceAppend
  <2>3. old \in KvType /\ Len(old.segs) \in Nat /\ old.rev \in Nat
    BY <2>1, KvFields
  <2>4. r.kv.segs = old.segs /\ r.kv.rev = old.rev /\ r.kv.graph = old.graph
    BY <2>2, <2>3 DEF Kept, KvType
  <2>5. Len(old.segs) > 0 /\ old.segs[Len(old.segs)].storage \in uniq
    BY <1>2, <2>1 DEF TailHasRoom, Final
  <2>6. Placed(r.kv, uniq, fresh)
    BY <2>3, <2>4, <2>5 DEF Placed
  <2>7. \A i \in 1..Len(r.kv.segs) : KeepsSeg(old, r.kv, i)
    BY <2>3, <2>4, KvFields DEF KeepsSeg
  <2> QED
    BY <2>1, <2>3, <2>4, <2>6, <2>7 DEF Grows, Revises
<1> QED
  BY <1>1, <1>2

\* The stage that has discarded the pending append trims the cache.
LEMMA DiscardedTrims ==
  ASSUME NEW kv \in KvType, WellFormed(kv),
         NEW st, st = [DetachPending(Begun(kv)) EXCEPT !.kv.rev = @ + 1]
  PROVE  Trims(kv, st.kv)
<1>1. PICK m \in 0..Len(kv.segs), s \in Seq(Seg), r \in Seq(Seg) :
        /\ DetachPending(Begun(kv)) = StageOf(kv, s, r)
        /\ Peeled(kv.segs, s, r, m)
  BY DetachStage
<1>2. /\ st.kv.segs = s /\ st.kv.rev = kv.rev + 1 /\ st.kv.graph = kv.graph
  BY <1>1 DEF StageOf, CacheOf
<1>3. kv.rev \in Nat /\ Len(kv.segs) \in Nat
  BY KvFields
<1>4. Len(s) = m /\ \A i \in 1..m : s[i] = kv.segs[i]
  BY <1>1 DEF Peeled
<1>5. ASSUME NEW i \in 1..Len(s)
      PROVE  KeepsSeg(kv, st.kv, i)
  <2>1. i \in 1..Len(kv.segs) /\ i \in 1..m
    BY <1>3, <1>4
  <2>2. kv.segs[i].committed \in Nat
    BY <2>1, KvFields
  <2> QED
    BY <1>2, <1>4, <2>1, <2>2 DEF KeepsSeg
<1>6. Revises(kv, st.kv)
  <2>1. kv.rev <= kv.rev + 1 /\ kv.rev # kv.rev + 1
    BY <1>3
  <2> QED
    BY <1>2, <2>1, Zenon DEF Revises
<1> QED
  BY <1>2, <1>5, <1>6, Zenon DEF Trims

\* KvState::prepare_append.
LEMMA PrepareAppendGrows ==
  ASSUME NEW X, NEW kv, KvOK(kv, X), NEW tokens, NEW growth, NEW fresh, NEW uniq,
         Operands(X, tokens, growth, fresh),
         NEW r, r = PrepareAppend(kv, tokens, growth, uniq, fresh), r.ok
  PROVE  Grows(kv, r.kv, fresh) /\ Placed(r.kv, uniq, fresh)
<1> DEFINE st == Begun(kv)
           resized == [kv.pending EXCEPT !.tokens = tokens]
           discarded == [DetachPending(st) EXCEPT !.kv.rev = @ + 1]
<1>1. kv \in KvType /\ WellFormed(kv) /\ tokens \in Nat \ {0} /\ kv.rev <= MaxRevision
  BY DEF KvOK, Operands
<1>2. kv.rev \in Nat /\ Len(kv.segs) \in Nat /\ kv.pending \in TargetType
  BY <1>1, KvFields
<1>3. ~(kv.pos + tokens > kv.ctx)
  BY DEF PrepareAppend, Refused
<1>4. r = PrepareAppendStaged(kv, tokens, growth, uniq, fresh)
  BY <1>3, Zenon DEF PrepareAppend
<1>5. CASE kv.pending = NoRange
  <2>1. r = PlaceAppend(st, tokens, growth, uniq, fresh)
    BY <1>4, <1>5 DEF PrepareAppendStaged
  <2>2. st.kv = kv
    BY DEF Begun
  <2> HIDE DEF st
  <2> QED
    BY <1>1, <2>1, <2>2, PlaceGrows
<1>6. CASE kv.pending # NoRange
  <2>1. kv.pending.start = kv.pos /\ kv.pending.index = Len(kv.segs)
    BY <1>1, <1>6, WellFormedParts
  <2>2. r = IF PendingTargetWritable(kv, resized, uniq)
            THEN IF resized = kv.pending THEN Kept(kv)
                 ELSE IF kv.rev = MaxRevision THEN Rolled(st)
                 ELSE Kept([kv EXCEPT !.pending = resized, !.rev = @ + 1])
            ELSE IF kv.rev = MaxRevision THEN Rolled(st)
            ELSE PlaceAppend(discarded, tokens, growth, uniq, fresh)
    BY <1>4, <1>6, <2>1 DEF PrepareAppendStaged
  <2>3. ~Rolled(st).ok
    BY DEF Rolled
  <2>4. CASE ~PendingTargetWritable(kv, resized, uniq)
    <3>1. kv.rev # MaxRevision /\ r = PlaceAppend(discarded, tokens, growth, uniq, fresh)
      BY <2>2, <2>3, <2>4, Zenon
    <3>2. KvOK(discarded.kv, X)
      BY <3>1, DiscardedStage, Zenon
    <3>3. Trims(kv, discarded.kv)
      BY <1>1, DiscardedTrims, Zenon
    <3> HIDE DEF discarded
    <3>4. Grows(discarded.kv, r.kv, fresh) /\ Placed(r.kv, uniq, fresh)
      BY <3>1, <3>2, PlaceGrows DEF KvOK
    <3>5. r.kv \in KvType
      BY PrepareAppendSound DEF Sound, KvOK
    <3> QED
      BY <1>1, <3>2, <3>3, <3>4, <3>5, TrimsThen DEF KvOK
  <2>5. CASE PendingTargetWritable(kv, resized, uniq)
    <3>1. resized.index = kv.pending.index
      BY <1>1, <1>2 DEF TargetType
    <3>2. kv.pending.index \in 1..Len(kv.segs) /\ kv.segs[kv.pending.index].storage \in uniq
      BY <2>5, <3>1 DEF PendingTargetWritable
    <3>3. Placed(kv, uniq, fresh)
      BY <1>2, <2>1, <3>2 DEF Placed
    <3> HIDE DEF resized
    <3>4. \/ r = Kept(kv)
          \/ r = Kept([kv EXCEPT !.pending = resized, !.rev = @ + 1])
      BY <2>2, <2>3, <2>5, Zenon
    <3>5. /\ r.kv.segs = kv.segs /\ kv.rev <= r.kv.rev /\ r.kv.graph = kv.graph
      <4>1. CASE r = Kept(kv)
        BY <1>2, <4>1 DEF Kept
      <4>2. CASE r = Kept([kv EXCEPT !.pending = resized, !.rev = @ + 1])
        <5>1. PICK v : v = kv.rev + 1
          OBVIOUS
        <5>2. [kv EXCEPT !.pending = resized, !.rev = @ + 1]
                = [kv EXCEPT !.pending = resized, !.rev = v]
          BY <1>1, <5>1 DEF KvType
        <5>3. r.kv = [kv EXCEPT !.pending = resized, !.rev = v]
          BY <4>2, <5>2 DEF Kept
        <5>4. r.kv.segs = kv.segs /\ r.kv.rev = v /\ r.kv.graph = kv.graph
          BY <1>1, <5>3 DEF KvType
        <5> QED
          BY <1>2, <5>1, <5>4
      <4> QED
        BY <3>4, <4>1, <4>2
    <3>6. Placed(r.kv, uniq, fresh)
      BY <3>3, <3>5 DEF Placed
    <3>7. r.kv \in KvType
      BY PrepareAppendSound DEF Sound, KvOK
    <3> QED
      BY <1>1, <3>5, <3>6, <3>7, TrimsSame
  <2> QED
    BY <2>4, <2>5
<1> QED
  BY <1>5, <1>6

\* KvState::prepare_append_at.
LEMMA PrepareAppendAtGrows ==
  ASSUME NEW X, NEW kv, KvOK(kv, X), NEW position \in Nat,
         NEW tokens, NEW growth, NEW fresh, NEW uniq,
         Operands(X, tokens, growth, fresh),
         NEW r, r = PrepareAppendAt(kv, position, tokens, growth, uniq, fresh), r.ok
  PROVE  Grows(kv, r.kv, fresh) /\ Placed(r.kv, uniq, fresh)
<1>1. kv \in KvType /\ kv.pos \in Nat /\ kv.rev \in Nat
  BY KvFields DEF KvOK
<1>2. ~(position > kv.pos)
  BY DEF PrepareAppendAt, Refused
<1>3. position <= kv.pos
  BY <1>1, <1>2
<1>4. PICK c : c = StageAppendPosition(kv, position, tokens, uniq)
  OBVIOUS
<1>5. r = IF ~c.ok THEN Rolled(c.st)
          ELSE Undone(PrepareAppend(c.st.kv, tokens, growth, uniq, fresh), c.st.rb)
  BY <1>2, <1>4, Zenon DEF PrepareAppendAt
<1>6. PICK p : p = PrepareAppend(c.st.kv, tokens, growth, uniq, fresh)
  OBVIOUS
<1>7. c.ok /\ p.ok /\ r = p
  <2>1. c.ok /\ r = Undone(p, c.st.rb)
    BY <1>5, <1>6 DEF Rolled
  <2> QED
    BY <2>1 DEF Undone, Rolled
<1>8. KvOK(c.st.kv, X)
  BY <1>3, <1>4, <1>7, StagedFacts
<1>9. Trims(kv, c.st.kv)
  <2>1. CASE ~PendingReusableAt(kv, position, tokens, uniq)
    <3>1. c = CutTo(kv, position)
      BY <1>4, <2>1, Zenon DEF StageAppendPosition
    <3> QED
      BY <1>3, <3>1, CutTrims
  <2>2. CASE PendingReusableAt(kv, position, tokens, uniq)
    <3>1. c.st = [Begun(kv) EXCEPT !.kv.rev = @ + 1]
      BY <1>4, <2>2 DEF StageAppendPosition
    <3>2. c.st.kv = [kv EXCEPT !.rev = @ + 1]
      BY <3>1 DEF Begun
    <3>3. c.st.kv.segs = kv.segs /\ c.st.kv.rev = kv.rev + 1 /\ c.st.kv.graph = kv.graph
      BY <1>1, <3>2 DEF KvType
    <3>4. kv.rev <= c.st.kv.rev
      BY <1>1, <3>3
    <3> QED
      BY <1>1, <1>8, <3>3, <3>4, TrimsSame DEF KvOK
  <2> QED
    BY <2>1, <2>2
<1>10. Grows(c.st.kv, r.kv, fresh) /\ Placed(r.kv, uniq, fresh)
  <2>1. PICK k : k = c.st.kv
    OBVIOUS
  <2>2. KvOK(k, X) /\ p = PrepareAppend(k, tokens, growth, uniq, fresh)
    BY <1>6, <1>8, <2>1
  <2> QED
    BY <1>7, <2>1, <2>2, PrepareAppendGrows
<1>11. r.kv \in KvType
  BY PrepareAppendAtSound DEF Sound, KvOK
<1> QED
  BY <1>1, <1>8, <1>9, <1>10, <1>11, TrimsThen DEF KvOK

\* KvState::prepare_shape_transition.
LEMMA ShapeTransitionGrows ==
  ASSUME NEW X, NEW kv, KvOK(kv, X), NEW ctx \in Nat, NEW position \in Nat,
         NEW tokens, NEW growth, NEW fresh, NEW uniq,
         tokens = 0 \/ Operands(X, tokens, growth, fresh),
         NEW r, r = PrepareShapeTransition(kv, ctx, position, tokens, growth, uniq, fresh),
         r.ok
  PROVE  /\ tokens = 0 => Trims(kv, r.kv)
         /\ tokens # 0 => Grows(kv, r.kv, fresh) /\ Placed(r.kv, uniq, fresh)
<1>1. kv \in KvType /\ kv.rev <= MaxRevision /\ kv.rev \in Nat /\ kv.ctx \in Nat
  BY KvFields DEF KvOK
<1> DEFINE same == ctx = kv.ctx
           shaped == IF same THEN kv
                     ELSE [kv EXCEPT !.rev = @ + 1, !.ctx = ctx, !.graph = NoGraph]
           p == IF tokens = 0 THEN Truncate(shaped, position)
                ELSE PrepareAppendAt(shaped, position, tokens, growth, uniq, fresh)
<1>2. r = IF ~same /\ (~CanGrowTo(kv, ctx) \/ kv.rev = MaxRevision)
          THEN Rolled(Begun(kv)) ELSE Undone(p, Capture(kv))
  BY Zenon DEF PrepareShapeTransition
<1>3. ~Rolled(Begun(kv)).ok
  BY DEF Rolled
<1>4. ~(~same /\ (~CanGrowTo(kv, ctx) \/ kv.rev = MaxRevision)) /\ r = Undone(p, Capture(kv))
  BY <1>2, <1>3, Zenon
<1>5. PICK k : k = shaped
  OBVIOUS
<1>6. /\ k \in KvType /\ k.segs = kv.segs /\ k.pos = kv.pos
      /\ k.pending = kv.pending /\ k.ctx >= kv.ctx
      /\ k.rev <= MaxRevision /\ kv.rev <= k.rev
      /\ k.graph = kv.graph \/ k.graph = NoGraph
  <2>1. CASE same
    BY <1>1, <1>5, <2>1
  <2>2. CASE ~same
    <3>1. ctx >= kv.ctx /\ kv.rev + 1 <= MaxRevision
      BY <1>1, <1>4, <2>2, RevisionAssumption DEF CanGrowTo
    <3>2. k = [kv EXCEPT !.rev = @ + 1, !.ctx = ctx, !.graph = NoGraph]
      BY <1>5, <2>2
    <3>3. NoGraph \in TokenType
      BY DEF NoGraph, TokenType
    <3>4. /\ k \in KvType /\ k.segs = kv.segs /\ k.pos = kv.pos /\ k.ctx = ctx
          /\ k.rev = kv.rev + 1 /\ k.pending = kv.pending /\ k.graph = NoGraph
      <4>1. PICK v : v = kv.rev + 1
        OBVIOUS
      <4>2. v \in Nat
        BY <1>1, <4>1
      <4>3. k = [kv EXCEPT !.rev = v, !.ctx = ctx, !.graph = NoGraph]
        BY <1>1, <3>2, <4>1 DEF KvType
      <4> QED
        BY <1>1, <3>3, <4>1, <4>2, <4>3 DEF KvType
    <3> QED
      BY <1>1, <3>1, <3>4
  <2> QED
    BY <2>1, <2>2
<1>7. KvOK(k, X) /\ Trims(kv, k)
  BY <1>1, <1>6, Reshaped, TrimsSame
<1>8. PICK q : q = p
  OBVIOUS
<1>9. q = IF tokens = 0 THEN Truncate(k, position)
          ELSE PrepareAppendAt(k, position, tokens, growth, uniq, fresh)
  BY <1>5, <1>8, Zenon
<1> HIDE DEF p, shaped
<1>10. q.ok /\ r = q
  <2>1. r = Undone(q, Capture(kv))
    BY <1>4, <1>8, Zenon
  <2> QED
    BY <2>1 DEF Undone, Rolled
<1>11. r.kv \in KvType
  BY ShapeTransitionSound DEF Sound, KvOK
<1>12. CASE tokens = 0
  <2>1. Trims(k, r.kv)
    BY <1>7, <1>9, <1>10, <1>12, TruncateTrims
  <2> QED
    BY <1>1, <1>6, <1>7, <1>11, <1>12, <2>1, TrimsThen
<1>13. CASE tokens # 0
  <2>1. q = PrepareAppendAt(k, position, tokens, growth, uniq, fresh)
    BY <1>9, <1>13
  <2>2. Operands(X, tokens, growth, fresh)
    BY <1>13
  <2>3. Grows(k, r.kv, fresh) /\ Placed(r.kv, uniq, fresh)
    BY <1>7, <1>10, <2>1, <2>2, PrepareAppendAtGrows
  <2> QED
    BY <1>1, <1>6, <1>7, <1>11, <1>13, <2>3, TrimsThen
<1> QED
  BY <1>12, <1>13

\* KvState::commit_append: only the last segment holds more; a graph reads
\* what it did.
LEMMA CommitFills ==
  ASSUME NEW X, NEW kv, KvOK(kv, X), NEW r, r = CommitAppend(kv, kv.pending), r.ok
  PROVE  /\ r.kv.rev = kv.rev /\ r.kv.graph = kv.graph /\ View(r.kv) = View(kv)
         /\ Len(r.kv.segs) = Len(kv.segs)
         /\ kv.pending # NoRange =>
              /\ Len(kv.segs) >= 1
              /\ \A i \in 1..Len(kv.segs) :
                   /\ r.kv.segs[i].start = kv.segs[i].start
                   /\ r.kv.segs[i].storage = kv.segs[i].storage
                   /\ r.kv.segs[i].committed =
                        IF i = Len(kv.segs) THEN kv.segs[i].committed + kv.pending.tokens
                        ELSE kv.segs[i].committed
              /\ kv.pos = kv.segs[Len(kv.segs)].start + kv.segs[Len(kv.segs)].committed
<1> DEFINE i == kv.pending.index
           local == kv.pending.start - kv.segs[i].start
           committed == local + kv.pending.tokens
<1>1. /\ kv \in KvType /\ WellFormed(kv) /\ Len(kv.segs) \in Nat /\ kv.segs \in Seq(Seg)
      /\ kv.pending.start \in Nat /\ kv.pending.tokens \in Nat /\ kv.pos \in Nat
  BY KvFields DEF KvOK
<1>2. /\ i \in 1..Len(kv.segs) /\ kv.segs[i].committed = local
      /\ r = Kept([kv EXCEPT !.segs[i].committed = committed,
                             !.pos = kv.pending.start + kv.pending.tokens,
                             !.pending = NoRange])
  <2>1. ~Refused(kv).ok
    BY DEF Refused
  <2> QED
    BY <2>1, Zenon DEF CommitAppend
<1>3. i = Len(kv.segs) /\ kv.pending.start = kv.pos
  <2>1. CASE kv.pending = NoRange
    BY <1>2, <2>1, NoRangeType
  <2>2. CASE kv.pending # NoRange
    BY <1>1, <2>2, WellFormedParts
  <2> QED
    BY <2>1, <2>2
<1>4. PICK n, c, q : n = Len(kv.segs) /\ c = committed /\ q = kv.pending.start + kv.pending.tokens
  OBVIOUS
<1>5. PICK s : s = [kv.segs EXCEPT ![n].committed = c]
  OBVIOUS
<1>6. r = Kept([kv EXCEPT !.segs[n].committed = c, !.pos = q, !.pending = NoRange])
  BY <1>2, <1>3, <1>4, Zenon
<1>7. [kv EXCEPT !.segs[n].committed = c, !.pos = q, !.pending = NoRange]
        = [kv EXCEPT !.segs = s, !.pos = q, !.pending = NoRange]
  BY <1>1, <1>5 DEF KvType
<1>8. r.kv.segs = s /\ r.kv.rev = kv.rev /\ r.kv.graph = kv.graph
  <2>1. r.kv = [kv EXCEPT !.segs = s, !.pos = q, !.pending = NoRange]
    BY <1>6, <1>7 DEF Kept
  <2> QED
    BY <1>1, <2>1 DEF KvType
<1>9. n \in 1..Len(kv.segs) /\ n \in Nat /\ kv.segs[n] \in Seg
  BY <1>1, <1>2, <1>3, <1>4, KvFields
<1>10. PICK a \in Nat, b \in Nat, t \in Nat :
         a = kv.segs[n].start /\ b = kv.segs[n].committed /\ t = kv.pending.tokens
  BY <1>1, <1>9, KvFields
<1>11. kv.pos = a + b /\ c = b + t /\ c \in Nat
  <2>1. b = kv.pos - a /\ c = kv.pos - a + t
    BY <1>2, <1>3, <1>4, <1>10, Zenon
  <2> QED
    BY <1>1, <1>10, <2>1
<1>12. PICK e : e = [kv.segs[n] EXCEPT !.committed = c]
  OBVIOUS
<1>13. /\ e \in Seg /\ e.start = kv.segs[n].start /\ e.storage = kv.segs[n].storage
       /\ e.cap = kv.segs[n].cap /\ e.committed = c
  BY <1>9, <1>11, <1>12 DEF Seg
<1>14. s = [kv.segs EXCEPT ![n] = e]
  BY <1>5, <1>12
<1>15. /\ Len(s) = n /\ \A j \in 1..n : s[j] = IF j = n THEN e ELSE kv.segs[j]
  BY <1>1, <1>4, <1>9, <1>13, <1>14, ExceptSeq
<1>16. ASSUME NEW j \in 1..n
       PROVE  /\ s[j].start = kv.segs[j].start /\ s[j].storage = kv.segs[j].storage
              /\ s[j].cap = kv.segs[j].cap
              /\ s[j].committed = IF j = n THEN kv.segs[j].committed + kv.pending.tokens
                                  ELSE kv.segs[j].committed
  <2>1. CASE j = n
    <3>1. s[j] = e
      BY <1>15, <2>1
    <3> QED
      BY <1>10, <1>11, <1>13, <2>1, <3>1, Zenon
  <2>2. CASE j # n
    BY <1>15, <2>2
  <2> QED
    BY <2>1, <2>2
<1>17. View(r.kv) = View(kv)
  BY <1>4, <1>8, <1>15, <1>16 DEF View
<1>18. Len(kv.segs) >= 1
  BY <1>1, <1>4, <1>9
<1> QED
  BY <1>4, <1>8, <1>10, <1>11, <1>15, <1>16, <1>17, <1>18

-------------------------------------------------------------------------------
(* The decode graph. *)

(* A cache that was old reads through the same spans as long as its        *)
(* revision stands still, and takes no graph.                              *)
Follows(old, new) ==
    /\ old.rev <= new.rev
    /\ new.graph = old.graph \/ new.graph = NoGraph
    /\ old.rev = new.rev => View(new) = View(old)

(* A session that was a goes on with its cache, or loses its identity and  *)
(* any graph.                                                              *)
Moves(a, b) ==
    /\ b.identity = a.identity \/ b.identity = 0
    /\ Follows(a.kv, b.kv) \/ (b.kv.graph = NoGraph /\ b.identity = 0)

(* A token is of the layout of its cache or of an earlier one, and one of  *)
(* this layout and generation is of the graph the backend keeps; so is the *)
(* batch signature, in which no two sessions have one identity.            *)
TokenCurrent(kv, g, gen) ==
    /\ kv.graph.layout <= kv.rev
    /\ kv.graph.layout = kv.rev /\ kv.graph.generation = gen => g = <<View(kv)>>
EntryCurrent(r, entry, view) ==
    r.identity = entry.identity =>
        /\ entry.revision <= r.kv.rev
        /\ entry.revision = r.kv.rev => view = View(r.kv)
Identities(ss) ==
    \A s, t \in Session : ss[s].identity = ss[t].identity /\ ss[s].identity # 0 => s = t
GraphOK(ss, sig, g, gen) ==
    /\ gen \in Nat
    /\ \A s \in Session : TokenCurrent(ss[s].kv, g, gen)
    /\ \A i \in 1..Len(sig) : sig[i].identity # 0
    /\ \A s \in Session : \A i \in 1..Len(sig) : EntryCurrent(ss[s], sig[i], g[i])
    /\ Identities(ss)

GraphInv == GraphOK(sess, signature, graph, generation)

(* A generation that no session holds a token of. *)
NewGeneration(ss, gen) ==
    gen \in Nat /\ \A s \in Session : ss[s].kv.graph.generation # gen

\* A cache that only had its segments trimmed, or that grew by one, follows
\* the one it was.
LEMMA RevisesFollows ==
  ASSUME NEW old, NEW new, Revises(old, new)
  PROVE  Follows(old, new)
<1>1. new.segs = old.segs => View(new) = View(old)
  BY DEF View
<1> QED
  BY <1>1 DEF Revises, Follows

\* A cache follows the ones before the one it follows.
LEMMA FollowsOn ==
  ASSUME NEW a, NEW b, NEW c, a.rev \in Int, b.rev \in Int, c.rev \in Int,
         Follows(a, b), Follows(b, c)
  PROVE  Follows(a, c)
<1>1. a.rev <= c.rev /\ (a.rev = c.rev => a.rev = b.rev /\ b.rev = c.rev)
  BY DEF Follows
<1> QED
  BY <1>1 DEF Follows

\* A session that is left alone.
LEMMA MovesSame ==
  ASSUME NEW a, a.kv.rev \in Int
  PROVE  Moves(a, a)
BY DEF Moves, Follows

\* The revision, the token and the identity of a session.
LEMMA RevisionFacts ==
  ASSUME NEW ss, NEW X, SessionsOK(ss, X), NEW s \in Session
  PROVE  /\ ss[s].kv.rev \in Int /\ -1 <= ss[s].kv.rev /\ ss[s].identity \in Nat
         /\ ss[s].kv.graph.layout \in Int /\ ss[s].kv.graph.generation \in Int
<1>1. ss[s].identity \in Nat /\ (ss[s].kv \in KvType \/ ss[s].kv = NoKv)
  BY SessionFacts
<1>2. CASE ss[s].kv = NoKv
  <2>1. NoKv.rev = -1 /\ NoKv.graph = NoGraph
    BY DEF NoKv, NewKv
  <2>2. NoGraph.layout = -1 /\ NoGraph.generation = -1
    BY DEF NoGraph
  <2> QED
    BY <1>1, <1>2, <2>1, <2>2
<1>3. CASE ss[s].kv \in KvType
  <2>1. ss[s].kv.rev \in Nat /\ ss[s].kv.graph \in TokenType
    BY <1>3 DEF KvType
  <2> QED
    BY <1>1, <2>1 DEF TokenType
<1> QED
  BY <1>1, <1>2, <1>3

\* No token is of no layout and of no generation.
LEMMA NoGraphFacts ==
  ASSUME NEW kv, kv.graph = NoGraph, kv.rev \in Int, -1 <= kv.rev, NEW g, NEW gen \in Nat
  PROVE  TokenCurrent(kv, g, gen) /\ kv.graph.generation # gen
<1>1. kv.graph.layout = -1 /\ kv.graph.generation = -1
  BY DEF NoGraph
<1> QED
  BY <1>1 DEF TokenCurrent

\* The sessions of ss that move keep their identities apart.
LEMMA MovedIdentities ==
  ASSUME NEW ss, NEW tt, Identities(ss), \A s \in Session : Moves(ss[s], tt[s])
  PROVE  Identities(tt)
<1> SUFFICES ASSUME NEW s \in Session, NEW t \in Session,
                    tt[s].identity = tt[t].identity, tt[s].identity # 0
             PROVE  s = t
  BY DEF Identities
<1>1. tt[s].identity = ss[s].identity /\ tt[t].identity = ss[t].identity
  BY DEF Moves
<1> QED
  BY <1>1 DEF Identities

\* The tokens and the signature stay good for the graph that is kept.
LEMMA MovedGraph ==
  ASSUME NEW ss, NEW tt, NEW X, NEW Y, SessionsOK(ss, X), SessionsOK(tt, Y),
         NEW sig \in Seq(SignatureType), NEW g, NEW gen, GraphOK(ss, sig, g, gen),
         \A s \in Session : Moves(ss[s], tt[s])
  PROVE  GraphOK(tt, sig, g, gen) /\ GraphOK(tt, <<>>, g, gen)
<1>1. gen \in Nat
  BY DEF GraphOK
<1>2. ASSUME NEW s \in Session
      PROVE  TokenCurrent(tt[s].kv, g, gen)
  <2>1. /\ ss[s].kv.rev \in Int /\ tt[s].kv.rev \in Int /\ -1 <= tt[s].kv.rev
        /\ ss[s].kv.graph.layout \in Int
    BY RevisionFacts
  <2>2. TokenCurrent(ss[s].kv, g, gen) /\ Moves(ss[s], tt[s])
    BY DEF GraphOK
  <2>3. CASE tt[s].kv.graph = NoGraph
    BY <1>1, <2>1, <2>3, NoGraphFacts
  <2>4. CASE tt[s].kv.graph # NoGraph
    <3>1. Follows(ss[s].kv, tt[s].kv) /\ tt[s].kv.graph = ss[s].kv.graph
      BY <2>2, <2>4 DEF Moves, Follows
    <3>2. tt[s].kv.graph.layout <= tt[s].kv.rev
      BY <2>1, <2>2, <3>1 DEF TokenCurrent, Follows
    <3>3. tt[s].kv.graph.layout = tt[s].kv.rev => ss[s].kv.rev = tt[s].kv.rev
      BY <2>1, <2>2, <3>1 DEF TokenCurrent, Follows
    <3> QED
      BY <2>2, <3>1, <3>2, <3>3 DEF TokenCurrent, Follows
  <2> QED
    BY <2>3, <2>4
<1>3. Identities(tt)
  BY MovedIdentities DEF GraphOK
<1>4. ASSUME NEW s \in Session, NEW i \in 1..Len(sig)
      PROVE  EntryCurrent(tt[s], sig[i], g[i])
  <2> SUFFICES ASSUME tt[s].identity = sig[i].identity
               PROVE  /\ sig[i].revision <= tt[s].kv.rev
                      /\ sig[i].revision = tt[s].kv.rev => g[i] = View(tt[s].kv)
    BY DEF EntryCurrent
  <2>1. sig[i].identity # 0 /\ EntryCurrent(ss[s], sig[i], g[i]) /\ Moves(ss[s], tt[s])
    BY DEF GraphOK
  <2>2. tt[s].identity = ss[s].identity /\ Follows(ss[s].kv, tt[s].kv)
    BY <2>1 DEF Moves
  <2>3. ss[s].kv.rev \in Int /\ tt[s].kv.rev \in Int
    BY RevisionFacts
  <2>4. sig[i].revision \in Nat
    <3>1. sig[i] \in SignatureType
      BY ElementOfSeq
    <3> QED
      BY <3>1 DEF SignatureType
  <2>5. /\ sig[i].revision <= ss[s].kv.rev
        /\ sig[i].revision = ss[s].kv.rev => g[i] = View(ss[s].kv)
    BY <2>1, <2>2 DEF EntryCurrent
  <2>6. /\ sig[i].revision <= tt[s].kv.rev
        /\ sig[i].revision = tt[s].kv.rev => ss[s].kv.rev = tt[s].kv.rev
    BY <2>2, <2>3, <2>4, <2>5 DEF Follows
  <2> QED
    BY <2>2, <2>5, <2>6 DEF Follows
<1>5. \A i \in 1..Len(sig) : sig[i].identity # 0
  BY DEF GraphOK
<1>6. Len(<<>>) = 0
  OBVIOUS
<1>7. \A i \in 1..Len(<<>>) : FALSE
  BY <1>6
<1> QED
  BY <1>1, <1>2, <1>3, <1>4, <1>5, <1>7 DEF GraphOK

\* A generation that is new stays new.
LEMMA MovedNew ==
  ASSUME NEW ss, NEW tt, NEW gen, NewGeneration(ss, gen),
         \A s \in Session : Moves(ss[s], tt[s])
  PROVE  NewGeneration(tt, gen)
<1> SUFFICES ASSUME NEW s \in Session
             PROVE  tt[s].kv.graph.generation # gen
  BY DEF NewGeneration
<1>1. tt[s].kv.graph = NoGraph \/ tt[s].kv.graph = ss[s].kv.graph
  BY DEF Moves, Follows
<1>2. gen \in Nat /\ NoGraph.generation = -1
  BY DEF NewGeneration, NoGraph
<1>3. gen # -1
  BY <1>2
<1> QED
  BY <1>1, <1>2, <1>3 DEF NewGeneration

\* A graph that is retired: no token is of the generation that follows.
LEMMA RetiredGraph ==
  ASSUME NEW ss, NEW tt, NEW X, NEW Y, SessionsOK(ss, X), SessionsOK(tt, Y),
         NEW sig \in Seq(SignatureType), NEW g, NEW gen, GraphOK(ss, sig, g, gen),
         \A s \in Session : Moves(ss[s], tt[s]),
         NEW new, NewGeneration(ss, new), NEW h
  PROVE  GraphOK(tt, <<>>, h, new)
<1>1. GraphOK(tt, <<>>, g, gen)
  BY MovedGraph
<1>2. NewGeneration(tt, new)
  BY MovedNew
<1>3. \A s \in Session : TokenCurrent(tt[s].kv, h, new)
  BY <1>1, <1>2 DEF GraphOK, TokenCurrent, NewGeneration
<1>4. \A i \in 1..Len(<<>>) : FALSE
  OBVIOUS
<1> QED
  BY <1>1, <1>2, <1>3, <1>4 DEF GraphOK, NewGeneration

\* capture_decode_graph: the token of the session is of the graph that was
\* captured over it, and no other session has a token of its generation.
LEMMA CapturedGraph ==
  ASSUME NEW ss, NEW tt, NEW X, NEW Y, SessionsOK(ss, X), SessionsOK(tt, Y),
         NEW sig \in Seq(SignatureType), NEW g, NEW gen, GraphOK(ss, sig, g, gen),
         NEW s \in Session, \A t \in Session \ {s} : tt[t] = ss[t],
         tt[s].identity = ss[s].identity, tt[s].kv.graph.layout = tt[s].kv.rev,
         NEW new, NewGeneration(ss, new), NEW h, h = <<View(tt[s].kv)>>
  PROVE  GraphOK(tt, <<>>, h, new)
<1>1. ASSUME NEW t \in Session
      PROVE  TokenCurrent(tt[t].kv, h, new)
  <2>1. CASE t = s
    <3>1. tt[s].kv.rev \in Int
      BY RevisionFacts
    <3> QED
      BY <2>1, <3>1 DEF TokenCurrent
  <2>2. CASE t # s
    BY <2>2 DEF TokenCurrent, GraphOK, NewGeneration
  <2> QED
    BY <2>1, <2>2
<1>2. Identities(tt)
  BY DEF Identities, GraphOK
<1>3. \A i \in 1..Len(<<>>) : FALSE
  OBVIOUS
<1> QED
  BY <1>1, <1>2, <1>3 DEF GraphOK, NewGeneration

\* prepare_append, whether or not it succeeds.
LEMMA PreparedFollows ==
  ASSUME profile \in Profiles, NEW ss, NEW s, KvOK(ss[s].kv, Storages),
         NEW tokens \in Nat \ {0}, NEW growth \in Nat, NEW fails,
         NEW r, r = Prepared(ss, s, tokens, growth, fails)
  PROVE  Follows(ss[s].kv, r.kv)
<1> DEFINE fresh == IF fails THEN NoStorage ELSE Allocate(ss)
<1>1. fresh \in Storages \cup {NoStorage}
  BY AllocateFacts
<1>2. r = PrepareAppend(ss[s].kv, tokens, growth, Unique(ss, s), fresh)
  BY Zenon DEF Prepared
<1> HIDE DEF fresh
<1>3. Operands(Storages, tokens, growth, fresh)
  BY <1>1, StorageFacts DEF Operands
<1>4. PICK kv, uniq : kv = ss[s].kv /\ uniq = Unique(ss, s)
  OBVIOUS
<1>5. KvOK(kv, Storages) /\ r = PrepareAppend(kv, tokens, growth, uniq, fresh)
  BY <1>2, <1>4, Zenon
<1>6. CASE r.ok
  <2>1. Grows(kv, r.kv, fresh)
    BY <1>3, <1>5, <1>6, PrepareAppendGrows
  <2> QED
    BY <1>4, <2>1, RevisesFollows DEF Grows
<1>7. CASE ~r.ok
  <2>1. r.kv = kv
    BY <1>3, <1>5, <1>7, PrepareAppendSound DEF Sound
  <2>2. kv.rev \in Nat
    BY <1>5, KvFields DEF KvOK
  <2> QED
    BY <1>4, <2>1, <2>2 DEF Follows
<1> QED
  BY <1>6, <1>7

\* commit_append.
LEMMA CommitFollows ==
  ASSUME NEW kv, KvOK(kv, Storages), NEW r, r = CommitAppend(kv, kv.pending)
  PROVE  Follows(kv, r.kv)
<1>1. kv.rev \in Nat
  BY KvFields DEF KvOK
<1>2. CASE r.ok
  BY <1>1, <1>2, CommitFills DEF Follows
<1>3. CASE ~r.ok
  <2>1. r.kv = kv
    BY <1>3, CommitSound DEF Sound
  <2> QED
    BY <1>1, <2>1 DEF Follows
<1> QED
  BY <1>2, <1>3

\* The forward pass of one append.
LEMMA ForwardFollows ==
  ASSUME profile \in Profiles, NEW s \in Session, KvOK(sess[s].kv, Storages),
         NEW tokens, Len(tokens) \in Nat \ {0}, NEW growth \in Nat,
         NEW f, f = Forward(s, tokens, growth), f.ok
  PROVE  Follows(sess[s].kv, f.kv)
<1> DEFINE Writable(k) == \A t \in Session \ {s} :
                             k.segs[k.pending.index].storage \notin Held(sess, t)
           Written(k, c) == [ok |-> c.ok, kv |-> c.kv, mem |-> WriteSpan(mem, k, tokens)]
<1>1. PICK n \in Nat \ {0} : n = Len(tokens)
  OBVIOUS
<1>2. PICK p : p = Prepared(sess, s, n, growth, FALSE)
  OBVIOUS
<1>3. f = IF p.ok /\ Writable(p.kv)
          THEN Written(p.kv, CommitAppend(p.kv, p.kv.pending))
          ELSE [ok |-> FALSE, kv |-> p.kv, mem |-> mem]
  BY <1>1, <1>2, Zenon DEF Forward
<1> HIDE DEF Writable
<1>4. p.ok /\ f = Written(p.kv, CommitAppend(p.kv, p.kv.pending))
  BY <1>3
<1>5. PICK k, c : k = p.kv /\ c = CommitAppend(k, k.pending)
  OBVIOUS
<1>6. f.kv = c.kv
  <2>1. f = [ok |-> c.ok, kv |-> c.kv, mem |-> WriteSpan(mem, k, tokens)]
    BY <1>4, <1>5, Zenon
  <2>2. PICK b, m : f = [ok |-> b, kv |-> c.kv, mem |-> m]
    BY <2>1, Zenon
  <2> QED
    BY <2>2
<1>7. KvOK(k, Storages)
  BY <1>2, <1>4, <1>5, PreparedSound DEF Sound
<1>8. KvOK(f.kv, Storages)
  BY ForwardSound
<1>9. Follows(sess[s].kv, k) /\ Follows(k, f.kv)
  BY <1>2, <1>5, <1>6, <1>7, PreparedFollows, CommitFollows
<1>10. sess[s].kv.rev \in Int /\ k.rev \in Int /\ f.kv.rev \in Int
  <2>1. \A x : KvOK(x, Storages) => x.rev \in Int
    BY KvFields DEF KvOK
  <2> QED
    BY <1>7, <1>8, <2>1
<1> QED
  BY <1>9, <1>10, FollowsOn

\* A cache that is cut back or left alone.
LEMMA CutFollows ==
  ASSUME NEW kv, KvOK(kv, Storages), NEW position \in Nat, NEW r,
         r = Truncate(kv, position) \/ r = Kept(kv)
  PROVE  Follows(kv, r.kv)
<1>1. CASE r = Kept(kv)
  <2>1. r.kv = kv /\ kv.rev \in Nat
    BY <1>1, KvFields DEF Kept, KvOK
  <2> QED
    BY <2>1 DEF Follows
<1>2. CASE r = Truncate(kv, position)
  BY <1>2, TruncateTrims, RevisesFollows DEF Trims
<1> QED
  BY <1>1, <1>2

\* take_generation_state: the session's cache goes on, or a cold one takes
\* its place.
LEMMA TakeFollows ==
  ASSUME GenerationInv, NEW s \in Session, NEW prompt \in Prompts, NEW ctx \in Nat,
         NEW r, r = TakeGenerationState(s, prompt, ctx, FALSE), r.ok
  PROVE  Follows(sess[s].kv, r.kv) \/ r.kv.graph = NoGraph
<1> DEFINE kv == sess[s].kv
           reused == Reused(s, prompt, ctx)
           n == ChunkTokens(Len(prompt) - reused)
           growth == ChunkGrowth(n)
           fresh == Allocate(sess)
           uniq == Unique(sess, s)
<1>1. r = IF ~Compatible(s, prompt, ctx)
          THEN PrepareAppend(NewKv(ctx), n, growth, {}, fresh)
          ELSE IF ShapeGrowth(s, prompt, ctx)
          THEN PrepareShapeTransition(kv, ctx, reused, n, growth, uniq, fresh)
          ELSE IF n = 0 THEN Truncate(kv, reused)
          ELSE PrepareAppendAt(kv, reused, n, growth, uniq, fresh)
  BY Zenon DEF TakeGenerationState
<1>2. profile \in Profiles /\ (kv # NoKv => KvOK(kv, Storages))
  BY SessionFacts DEF GenerationInv
<1>3. fresh \in Storages \cup {NoStorage}
  BY <1>2, AllocateFacts
<1>4. /\ reused \in 0..Len(prompt) /\ Len(prompt) \in Nat \ {0}
      /\ ~Compatible(s, prompt, ctx) => reused = 0
  BY ReuseFacts
<1>5. Compatible(s, prompt, ctx) => kv # NoKv
  BY DEF Compatible
<1> HIDE DEF kv, reused, fresh, uniq
<1>6. /\ reused \in Nat /\ Len(prompt) - reused \in Nat
      /\ ~Compatible(s, prompt, ctx) => Len(prompt) - reused \in Nat \ {0}
  BY <1>4
<1>7. /\ n \in Nat /\ growth \in Nat
      /\ ~Compatible(s, prompt, ctx) => n \in Nat \ {0}
  <2>1. PICK k \in Nat : k = Len(prompt) - reused
    BY <1>6
  <2>2. k = 0 \/ k \in Nat \ {0}
    OBVIOUS
  <2>3. ChunkTokens(k) \in Nat
    BY <2>2, ReuseFacts
  <2>4. ~Compatible(s, prompt, ctx) => ChunkTokens(k) \in Nat \ {0}
    BY <1>6, <2>1, ReuseFacts
  <2>5. n = ChunkTokens(k)
    BY <2>1
  <2> HIDE DEF n
  <2> QED
    BY <2>3, <2>4, <2>5, ReuseFacts
<1> HIDE DEF n, growth
<1>8. n # 0 => Operands(Storages, n, growth, fresh)
  BY <1>2, <1>3, <1>7, StorageFacts DEF Operands
<1>9. CASE ~Compatible(s, prompt, ctx)
  <2>1. r = PrepareAppend(NewKv(ctx), n, growth, {}, fresh)
    BY <1>1, <1>9, Zenon
  <2>2. PICK k : k = NewKv(ctx)
    OBVIOUS
  <2>3. KvOK(k, Storages) /\ k.graph = NoGraph
    <3>1. NewKv(ctx).graph = NoGraph
      BY DEF NewKv
    <3> QED
      BY <2>2, <3>1, NewKvOK, Zenon
  <2>4. n # 0
    BY <1>7, <1>9
  <2>5. Grows(k, r.kv, fresh)
    BY <1>8, <2>1, <2>2, <2>3, <2>4, PrepareAppendGrows
  <2> QED
    BY <2>3, <2>5 DEF Grows, Revises
<1>10. CASE Compatible(s, prompt, ctx)
  <2>1. KvOK(kv, Storages)
    BY <1>2, <1>5, <1>10
  <2>2. CASE ShapeGrowth(s, prompt, ctx)
    <3>1. r = PrepareShapeTransition(kv, ctx, reused, n, growth, uniq, fresh)
      BY <1>1, <1>10, <2>2, Zenon
    <3>2. Revises(kv, r.kv)
      BY <1>6, <1>8, <2>1, <3>1, ShapeTransitionGrows DEF Grows, Trims
    <3> QED
      BY <3>2, RevisesFollows DEF kv
  <2>3. CASE ~ShapeGrowth(s, prompt, ctx) /\ n = 0
    <3>1. r = Truncate(kv, reused)
      BY <1>1, <1>10, <2>3, Zenon
    <3>2. Follows(kv, r.kv)
      BY <1>6, <2>1, <3>1, CutFollows
    <3> QED
      BY <3>2 DEF kv
  <2>4. CASE ~ShapeGrowth(s, prompt, ctx) /\ n # 0
    <3>1. r = PrepareAppendAt(kv, reused, n, growth, uniq, fresh)
      BY <1>1, <1>10, <2>4, Zenon
    <3>2. Grows(kv, r.kv, fresh)
      BY <1>6, <1>8, <2>1, <2>4, <3>1, PrepareAppendAtGrows
    <3> QED
      BY <3>2, RevisesFollows DEF kv, Grows
  <2> QED
    BY <2>2, <2>3, <2>4
<1> QED
  BY <1>9, <1>10

(* A step that leaves the graph alone, with the batch signature or without *)
(* it, or that begins another generation.                                  *)
Retires == signature' = <<>> /\ generation' = NextGeneration
GraphGoesOn ==
    \/ KeepGraph
    \/ signature' = <<>> /\ UNCHANGED <<graph, generation>>
    \/ Retires

\* next_decode_graph_generation is new to every session.
LEMMA NextIsNew == NewGeneration(sess, NextGeneration)
BY GenerationFacts DEF NewGeneration

\* A step in which the sessions go on as they were.
LEMMA MovedSteps ==
  ASSUME GenerationInv, GenerationInv', GraphInv,
         \A t \in Session : Moves(sess[t], sess'[t]), GraphGoesOn
  PROVE  GraphInv'
<1>1. PICK ss, tt, X, Y : /\ ss = sess /\ tt = sess' /\ X = Storages /\ Y = Storages'
  OBVIOUS
<1>2. PICK sig, g, gen, new : /\ sig = signature /\ g = graph /\ gen = generation
                              /\ new = NextGeneration
  OBVIOUS
<1>3. SessionsOK(ss, X) /\ SessionsOK(tt, Y)
  <2>1. SessionsOK(sess', Storages')
    BY DEF GenerationInv, SessionsOK
  <2> QED
    BY <1>1, <2>1 DEF GenerationInv
<1>4. sig \in Seq(SignatureType) /\ GraphOK(ss, sig, g, gen) /\ NewGeneration(ss, new)
  BY <1>1, <1>2, NextIsNew DEF GenerationInv, GraphInv
<1>5. \A t \in Session : Moves(ss[t], tt[t])
  BY <1>1
<1>6. /\ GraphOK(tt, sig, g, gen) /\ GraphOK(tt, <<>>, g, gen)
      /\ \A h : GraphOK(tt, <<>>, h, new)
  BY <1>3, <1>4, <1>5, MovedGraph, RetiredGraph
<1>7. GraphOK(tt, signature', graph', generation')
  <2>1. CASE KeepGraph
    BY <1>2, <1>6, <2>1 DEF KeepGraph
  <2>2. CASE signature' = <<>> /\ UNCHANGED <<graph, generation>>
    BY <1>2, <1>6, <2>2
  <2>3. CASE Retires
    BY <1>2, <1>6, <2>3 DEF Retires
  <2> QED
    BY <2>1, <2>2, <2>3 DEF GraphGoesOn
<1> QED
  BY <1>1, <1>7 DEF GraphInv, GraphOK, Identities

\* A step of one session.
LEMMA MovedStep ==
  ASSUME GenerationInv, GenerationInv', GraphInv, NEW s \in Session,
         \A t \in Session \ {s} : sess'[t] = sess[t], Moves(sess[s], sess'[s]),
         GraphGoesOn
  PROVE  GraphInv'
<1>1. \A t \in Session : sess[t].kv.rev \in Int
  BY RevisionFacts DEF GenerationInv
<1>2. \A t \in Session : Moves(sess[t], sess'[t])
  BY <1>1, MovesSame
<1> QED
  BY <1>2, MovedSteps

\* The graph of a session is captured.
LEMMA CaptureStep ==
  ASSUME GenerationInv, GenerationInv', GraphInv, NEW s \in Session,
         \A t \in Session \ {s} : sess'[t] = sess[t],
         sess'[s].identity = sess[s].identity,
         sess'[s].kv.graph = GraphToken(sess'[s].kv, NextGeneration),
         Capture1(sess'[s].kv)
  PROVE  GraphInv'
<1>1. PICK ss, tt, X, Y : /\ ss = sess /\ tt = sess' /\ X = Storages /\ Y = Storages'
  OBVIOUS
<1>2. PICK sig, g, gen, new : /\ sig = signature /\ g = graph /\ gen = generation
                              /\ new = NextGeneration
  OBVIOUS
<1>3. SessionsOK(ss, X) /\ SessionsOK(tt, Y)
  <2>1. SessionsOK(sess', Storages')
    BY DEF GenerationInv, SessionsOK
  <2> QED
    BY <1>1, <2>1 DEF GenerationInv
<1>4. sig \in Seq(SignatureType) /\ GraphOK(ss, sig, g, gen) /\ NewGeneration(ss, new)
  BY <1>1, <1>2, NextIsNew DEF GenerationInv, GraphInv
<1>5. tt[s].kv.graph.layout = tt[s].kv.rev
  BY <1>1 DEF GraphToken
<1>6. /\ graph' = <<View(tt[s].kv)>> /\ signature' = <<>> /\ generation' = new
  BY <1>1, <1>2 DEF Capture1
<1>7. PICK h : h = <<View(tt[s].kv)>>
  OBVIOUS
<1>8. GraphOK(tt, <<>>, h, new)
  BY <1>1, <1>3, <1>4, <1>5, <1>7, CapturedGraph
<1>9. GraphOK(tt, signature', graph', generation')
  BY <1>6, <1>7, <1>8
<1> QED
  BY <1>1, <1>9 DEF GraphInv, GraphOK, Identities

\* A session that becomes r.
LEMMA Assigned ==
  ASSUME GenerationInv, NEW s \in Session, NEW r, sess' = [sess EXCEPT ![s] = r]
  PROVE  sess'[s] = r /\ \A t \in Session \ {s} : sess'[t] = sess[t]
<1>1. PICK H : sess \in [Session -> SessionType(H)]
  BY SessionsElim DEF GenerationInv
<1> QED
  BY <1>1

\* The session is left with nothing, or with a cache that has no graph.
LEMMA EmptyMoves ==
  /\ Empty.identity = 0 /\ Empty.kv.graph = NoGraph
  /\ \A a : Moves(a, Empty)
<1>1. Empty.identity = 0 /\ Empty.kv = NoKv
  BY DEF Empty
<1>2. NoKv.graph = NoGraph
  BY DEF NoKv, NewKv
<1> QED
  BY <1>1, <1>2 DEF Moves

\* A failed preparation, and the requests that begin.
LEMMA RequestGraph ==
  ASSUME GenerationInv, GenerationInv', GraphInv, NEW s \in Session,
         NEW prompt \in Prompts, NEW limit,
         \/ \E fails \in BOOLEAN : PrepareFails(s, prompt, limit, fails)
         \/ BeginPrefill(s, prompt, limit)
         \/ \E captured : BeginGenerate(s, prompt, limit, captured)
  PROVE  GraphInv'
<1>1. CASE \E fails \in BOOLEAN : PrepareFails(s, prompt, limit, fails)
  <2>1. PICK fails \in BOOLEAN : PrepareFails(s, prompt, limit, fails)
    BY <1>1
  <2>2. sess' = sess
    BY <2>1, PrepareFailsStep
  <2>3. KeepGraph \/ RetireDecodeGraph
    BY <2>1, Zenon DEF PrepareFails
  <2>4. GraphGoesOn
    BY <2>3 DEF GraphGoesOn, Retires, RetireDecodeGraph
  <2>5. sess[s].kv.rev \in Int
    BY RevisionFacts DEF GenerationInv
  <2>6. Moves(sess[s], sess'[s])
    BY <2>2, <2>5, MovesSame
  <2> QED
    BY <2>2, <2>4, <2>6, MovedStep
<1> DEFINE ctx == Bucket(prompt, limit)
<1>2. PICK taken : taken = TakeGenerationState(s, prompt, ctx, FALSE)
  OBVIOUS
<1>3. CASE BeginPrefill(s, prompt, limit)
  <2>1. /\ Fits(prompt, limit) /\ taken.ok /\ RetireDecodeGraph
        /\ sess' = [sess EXCEPT ![s] = [Empty EXCEPT
                 !.phase = "prefill", !.kv = taken.kv, !.text = prompt,
                 !.prompt = Len(prompt)]]
    BY <1>2, <1>3, Zenon DEF BeginPrefill, Begins, Become
  <2>2. ctx \in Nat
    BY <2>1, BucketFacts
  <2> HIDE DEF ctx
  <2>3. Follows(sess[s].kv, taken.kv) \/ taken.kv.graph = NoGraph
    BY <1>2, <2>1, <2>2, TakeFollows
  <2>4. PICK r : r = [Empty EXCEPT !.phase = "prefill", !.kv = taken.kv, !.text = prompt,
                                   !.prompt = Len(prompt)]
    OBVIOUS
  <2>5. r.kv = taken.kv /\ r.identity = 0
    BY <2>4 DEF Empty
  <2>6. sess' = [sess EXCEPT ![s] = r]
    BY <2>1, <2>4, Zenon
  <2>7. Moves(sess[s], r)
    BY <2>3, <2>5 DEF Moves
  <2>8. GraphGoesOn
    BY <2>1 DEF GraphGoesOn, Retires, RetireDecodeGraph
  <2> QED
    BY <2>6, <2>7, <2>8, Assigned, MovedStep
<1>4. CASE \E captured : BeginGenerate(s, prompt, limit, captured)
  <2>0. PICK captured : BeginGenerate(s, prompt, limit, captured)
    BY <1>4
  <2>1. /\ Fits(prompt, limit) /\ taken.ok
        /\ sess' = [sess EXCEPT ![s] = [@ EXCEPT
                 !.phase = "prompt", !.kv = taken.kv, !.text = prompt,
                 !.prompt = Len(prompt), !.limit = limit,
                 !.captured = captured, !.identity = 0,
                 !.evaluated = <<>>]]
    BY <1>2, <2>0, Zenon DEF BeginGenerate, Begins, Become
  <2>2. ctx \in Nat
    BY <2>1, BucketFacts
  <2>3. RetireDecodeGraph \/ (signature' = <<>> /\ UNCHANGED <<graph, generation>>)
    BY <2>0, Zenon DEF BeginGenerate
  <2> HIDE DEF ctx
  <2>4. Follows(sess[s].kv, taken.kv) \/ taken.kv.graph = NoGraph
    BY <1>2, <2>1, <2>2, TakeFollows
  <2>5. PICK H : sess \in [Session -> SessionType(H)]
    BY SessionsElim DEF GenerationInv
  <2>6. PICK r : r = [sess[s] EXCEPT !.phase = "prompt", !.kv = taken.kv, !.text = prompt,
                   !.prompt = Len(prompt), !.limit = limit,
                   !.captured = captured, !.identity = 0, !.evaluated = <<>>]
    OBVIOUS
  <2>7. r.kv = taken.kv /\ r.identity = 0
    BY <2>5, <2>6 DEF SessionType
  <2>8. sess' = [sess EXCEPT ![s] = r]
    BY <2>1, <2>6
  <2>9. Moves(sess[s], r)
    BY <2>4, <2>7 DEF Moves
  <2>10. GraphGoesOn
    BY <2>3 DEF GraphGoesOn, Retires, RetireDecodeGraph
  <2> QED
    BY <2>8, <2>9, <2>10, Assigned, MovedStep
<1> QED
  BY <1>1, <1>3, <1>4

\* A chunk of a prompt is evaluated, in a prefill or in a call.
LEMMA AdvanceGraph ==
  ASSUME GenerationInv, GenerationInv', GraphInv, NEW s \in Session,
         AdvancePrefill(s) \/ PromptStep(s)
  PROVE  GraphInv'
<1>1. PICK f : f = PromptForward(s)
  OBVIOUS
<1>2. /\ sess[s].kv.pos < Len(sess[s].text) /\ f.ok
      /\ sess' = [sess EXCEPT ![s].kv = f.kv]
      /\ sess[s].phase \in {"prefill", "prompt"}
      /\ KeepGraph \/ (signature' = <<>> /\ UNCHANGED <<graph, generation>>)
  BY <1>1, Zenon DEF AdvancePrefill, PromptStep, AdvancePrompt, Become
<1>3. KvOK(sess[s].kv, Storages)
  BY <1>2, SessionFacts DEF GenerationInv, Calling
<1>4. profile \in Profiles
  BY DEF GenerationInv
<1>5. PICK u, g : g \in Nat /\ Len(u) \in Nat \ {0} /\ f = Forward(s, u, g)
  BY <1>1, <1>2, <1>3, PromptForwardUnfolded
<1>6. Follows(sess[s].kv, f.kv)
  BY <1>2, <1>3, <1>4, <1>5, ForwardFollows
<1>7. PICK H : sess \in [Session -> SessionType(H)]
  BY SessionsElim DEF GenerationInv
<1>8. PICK r : r = [sess[s] EXCEPT !.kv = f.kv]
  OBVIOUS
<1>9. r.kv = f.kv /\ r.identity = sess[s].identity /\ sess' = [sess EXCEPT ![s] = r]
  BY <1>2, <1>7, <1>8 DEF SessionType
<1>10. Moves(sess[s], r)
  BY <1>6, <1>9 DEF Moves
<1>11. GraphGoesOn
  BY <1>2 DEF GraphGoesOn
<1> QED
  BY <1>9, <1>10, <1>11, Assigned, MovedStep

\* The session is dropped, settled, quarantined or moved to the host or back.
LEMMA EndGraph ==
  ASSUME GenerationInv, GenerationInv', GraphInv, NEW s \in Session,
         \/ DropPrefill(s) \/ EndGenerate(s) \/ DropHibernated(s) \/ Discard(s)
         \/ FinishPrefill(s) \/ FinishGenerate(s) \/ QuarantineGenerate(s)
         \/ Hibernate(s) \/ Wake(s)
  PROVE  GraphInv'
<1>1. GraphGoesOn
  BY Zenon DEF DropPrefill, EndGenerate, DropHibernated, Discard, FinishPrefill,
               FinishGenerate, QuarantineGenerate, Hibernate, Wake, GraphGoesOn, Retires,
               RetireDecodeGraph
<1>2. PICK r : /\ sess' = [sess EXCEPT ![s] = r]
               /\ \/ r = Empty
                  \/ r = Settled(s)
                  \/ r = [Empty EXCEPT !.phase = "quarantined", !.kv = sess[s].kv]
                  \/ \E h, e : r = [Empty EXCEPT !.phase = "asleep", !.host = h,
                                                 !.evaluated = e]
                  \/ \E kv, e : /\ r = [Empty EXCEPT !.kv = kv, !.evaluated = e]
                                /\ \E c, p, g : kv = [NewKv(c) EXCEPT !.pos = p, !.segs = g]
  <2>1. CASE DropPrefill(s) \/ EndGenerate(s) \/ DropHibernated(s) \/ Discard(s)
    BY <2>1, Zenon DEF DropPrefill, EndGenerate, DropHibernated, Discard, Become
  <2>2. CASE FinishPrefill(s) \/ FinishGenerate(s)
    BY <2>2, Zenon DEF FinishPrefill, FinishGenerate, Become
  <2>3. CASE QuarantineGenerate(s)
    BY <2>3, Zenon DEF QuarantineGenerate, Become
  <2>4. CASE Hibernate(s)
    BY <2>4, ZenonT(60) DEF Hibernate, Become
  <2>5. CASE Wake(s)
    <3>1. PICK h, e : h = sess[s].host /\ e = sess[s].evaluated
      OBVIOUS
    <3>2. PICK g : g = [i \in 1..Len(h.segs) |->
                         [h.segs[i].seg EXCEPT !.storage =
                           [j \in 1..Len(h.segs) |-> Nth(Storages \ InUse(sess), j)][i]]]
      OBVIOUS
    <3>3. PICK kv : kv = [NewKv(h.ctx) EXCEPT !.pos = h.pos, !.segs = g]
      OBVIOUS
    <3>4. sess' = [sess EXCEPT ![s] = [Empty EXCEPT !.kv = kv, !.evaluated = e]]
      BY <2>5, <3>1, <3>2, <3>3, Zenon DEF Wake, Become
    <3>5. \E c, p, q : kv = [NewKv(c) EXCEPT !.pos = p, !.segs = q]
      BY <3>3, Zenon
    <3>6. PICK r : r = [Empty EXCEPT !.kv = kv, !.evaluated = e]
      OBVIOUS
    <3>7. sess' = [sess EXCEPT ![s] = r]
      BY <3>4, <3>6, Zenon
    <3>8. \E a, b : /\ r = [Empty EXCEPT !.kv = a, !.evaluated = b]
                    /\ \E c, p, q : a = [NewKv(c) EXCEPT !.pos = p, !.segs = q]
      BY <3>5, <3>6
    <3> QED
      BY <3>7, <3>8, ZenonT(60)
  <2> QED
    BY <2>1, <2>2, <2>3, <2>4, <2>5
<1>3. Empty.identity = 0 /\ Empty.kv.graph = NoGraph
  BY EmptyMoves
<1>4. Follows(sess[s].kv, sess[s].kv)
  <2>1. sess[s].kv.rev \in Int
    BY RevisionFacts DEF GenerationInv
  <2> QED
    BY <2>1 DEF Follows
<1>5. r.identity = 0 /\ (r.kv = sess[s].kv \/ r.kv.graph = NoGraph)
  <2>1. CASE r = Empty
    BY <1>3, <2>1
  <2>2. CASE r = Settled(s)
    BY <2>2 DEF Settled, Empty
  <2>3. CASE r = [Empty EXCEPT !.phase = "quarantined", !.kv = sess[s].kv]
    BY <2>3 DEF Empty
  <2>4. CASE \E h, e : r = [Empty EXCEPT !.phase = "asleep", !.host = h, !.evaluated = e]
    <3>1. r.identity = Empty.identity /\ r.kv = Empty.kv
      BY <2>4 DEF Empty
    <3> QED
      BY <1>3, <3>1
  <2>5. CASE \E kv, e : /\ r = [Empty EXCEPT !.kv = kv, !.evaluated = e]
                        /\ \E c, p, g : kv = [NewKv(c) EXCEPT !.pos = p, !.segs = g]
    <3>0. PICK kv, e : /\ r = [Empty EXCEPT !.kv = kv, !.evaluated = e]
                       /\ \E c, p, g : kv = [NewKv(c) EXCEPT !.pos = p, !.segs = g]
      BY <2>5, Zenon
    <3>1. PICK c, p, g : kv = [NewKv(c) EXCEPT !.pos = p, !.segs = g]
      BY <3>0, Zenon
    <3>2. r.identity = 0 /\ r.kv = kv
      BY <3>0 DEF Empty
    <3>3. kv.graph = NoGraph
      BY <3>1 DEF NewKv
    <3> QED
      BY <3>2, <3>3
  <2> QED
    BY <1>2, <2>1, <2>2, <2>3, <2>4, <2>5
<1>6. Moves(sess[s], r)
  BY <1>4, <1>5 DEF Moves
<1> QED
  BY <1>1, <1>2, <1>6, Assigned, MovedStep

\* The child of a fork has no graph and no identity.
LEMMA ForkGraph ==
  ASSUME GenerationInv, GenerationInv', GraphInv, NEW s \in Session, NEW t \in Session,
         \/ ForkSession(s, t)
         \/ \E prefix \in 1..Len(sess[s].evaluated) : ForkSessionPrefix(s, t, prefix)
  PROVE  GraphInv'
<1>1. PICK k : k = Fork(sess[s].kv)
  OBVIOUS
<1>2. PICK kv, n : /\ Forked(s, t, kv, n)
                   /\ kv = k \/ \E prefix \in 1..Len(sess[s].evaluated) :
                                  kv = Truncate(k, prefix).kv
  BY <1>1, Zenon DEF ForkSession, ForkSessionPrefix
<1>3. /\ Forkable(s) /\ sess[t] = Empty /\ KeepGraph
      /\ \E e : sess' = [sess EXCEPT ![t].kv = kv, ![t].evaluated = e]
  BY <1>2, Zenon DEF Forked, Become
<1>4. KvOK(sess[s].kv, Storages) /\ sess[s].evaluated \in Seq(Token)
  BY <1>3, ForkableFacts
<1>5. KvOK(k, Storages) /\ k.graph = NoGraph
  <2>1. sess[s].kv \in KvType
    BY <1>4 DEF KvOK
  <2>2. k.graph = NoGraph
    BY <1>1, <2>1 DEF Fork, KvType
  <2> QED
    BY <1>1, <1>4, <2>2, ForkOK
<1>6. kv.graph = NoGraph
  <2>1. ASSUME NEW prefix \in 1..Len(sess[s].evaluated), kv = Truncate(k, prefix).kv
        PROVE  kv.graph = NoGraph
    <3>1. PICK c : c = Truncate(k, prefix)
      OBVIOUS
    <3>2. prefix \in Nat
      BY <1>4, LenProperties
    <3>3. Follows(k, c.kv)
      BY <1>5, <3>1, <3>2, CutFollows
    <3> QED
      BY <1>5, <2>1, <3>1, <3>3 DEF Follows
  <2> QED
    BY <1>2, <1>5, <2>1
<1>7. PICK H, e : /\ sess \in [Session -> SessionType(H)]
                  /\ sess' = [sess EXCEPT ![t].kv = kv, ![t].evaluated = e]
  BY <1>3, SessionsElim DEF GenerationInv
<1>8. PICK r : r = [sess[t] EXCEPT !.kv = kv, !.evaluated = e]
  OBVIOUS
<1>9. r.kv = kv /\ r.identity = sess[t].identity /\ sess' = [sess EXCEPT ![t] = r]
  BY <1>7, <1>8 DEF SessionType
<1>10. Moves(sess[t], r)
  BY <1>3, <1>6, <1>9, EmptyMoves DEF Moves
<1>11. GraphGoesOn
  BY <1>3 DEF GraphGoesOn
<1> QED
  BY <1>9, <1>10, <1>11, Assigned, MovedStep

\* run_plain_forward.
LEMMA EagerGraph ==
  ASSUME GenerationInv, GenerationInv', GraphInv, NEW s \in Session, NEW token \in Token,
         EagerStep(s, token)
  PROVE  GraphInv'
<1>1. PICK f, u : f = Forward(s, u, Growth) /\ u = NextInput(s)
  OBVIOUS
<1>2. /\ Sampling(s) /\ f.ok /\ KeepGraph
      /\ sess' = [sess EXCEPT ![s].kv = f.kv, ![s].text = Append(@, token)]
  BY <1>1, Zenon DEF EagerStep, Become
<1>3. /\ KvOK(sess[s].kv, Storages) /\ profile \in Profiles /\ Len(u) \in Nat \ {0}
      /\ Growth \in Nat
  <2>1. Len(u) = 1
    BY <1>1, <1>2, SamplingFacts, Zenon
  <2> QED
    BY <1>2, <2>1, SamplingFacts, SessionsAssumption
<1>4. Follows(sess[s].kv, f.kv)
  BY <1>1, <1>2, <1>3, ForwardFollows
<1>5. PICK H, x : sess \in [Session -> SessionType(H)] /\ x = Append(sess[s].text, token)
  BY SessionsElim DEF GenerationInv
<1>6. PICK r : r = [sess[s] EXCEPT !.kv = f.kv, !.text = x]
  OBVIOUS
<1>7. r.kv = f.kv /\ r.identity = sess[s].identity /\ sess' = [sess EXCEPT ![s] = r]
  BY <1>2, <1>5, <1>6 DEF SessionType
<1>8. Moves(sess[s], r)
  BY <1>4, <1>7 DEF Moves
<1>9. GraphGoesOn
  BY <1>2 DEF GraphGoesOn
<1> QED
  BY <1>7, <1>8, <1>9, Assigned, MovedStep

\* capture_decode_graph stores the token of the layout it captured.
LEMMA CapturedToken ==
  ASSUME GenerationInv, NEW s \in Session, NEW kv, KvOK(kv, Storages),
         NEW c, c = CapturedState(s, kv)
  PROVE  c.kv.graph = GraphToken(c.kv, NextGeneration)
<1> DEFINE ss == [sess EXCEPT ![s].kv = kv]
<1>1. PICK p : p = Prepared(ss, s, 1, Growth, FALSE)
  OBVIOUS
<1>2. c = [ok |-> p.ok, kv |-> [p.kv EXCEPT !.graph = GraphToken(p.kv, NextGeneration)]]
  BY <1>1, Zenon DEF CapturedState
<1>3. PICK H : sess \in [Session -> SessionType(H)]
  BY SessionsElim DEF GenerationInv
<1>4. PICK t : t = ss
  OBVIOUS
<1>5. t[s].kv = kv
  BY <1>3, <1>4 DEF SessionType
<1>6. KvOK(t[s].kv, Storages)
  BY <1>5
<1>7. PICK n \in Nat \ {0} : n = 1
  OBVIOUS
<1>8. p = Prepared(t, s, n, Growth, FALSE)
  BY <1>1, <1>4, <1>7, Zenon
<1>9. profile \in Profiles /\ Growth \in Nat
  BY SessionsAssumption DEF GenerationInv
<1>10. KvOK(p.kv, Storages)
  <2>1. Sound(p, t[s].kv, Storages)
    BY <1>6, <1>8, <1>9, PreparedSound
  <2> QED
    BY <1>6, <2>1 DEF Sound
<1>11. PICK k : k = p.kv
  OBVIOUS
<1>12. k \in KvType
  BY <1>10, <1>11 DEF KvOK
<1>13. PICK g : g = GraphToken(k, NextGeneration)
  OBVIOUS
<1>14. c.kv = [k EXCEPT !.graph = g]
  BY <1>2, <1>11, <1>13
<1>15. c.kv.graph = g /\ c.kv.rev = k.rev
  BY <1>12, <1>14 DEF KvType
<1> QED
  BY <1>13, <1>15 DEF GraphToken

\* initialize_generation_decode.
LEMMA FirstTokenGraph ==
  ASSUME GenerationInv, GenerationInv', GraphInv, NEW s \in Session, NEW token,
         FirstToken(s, token)
  PROVE  GraphInv'
<1> DEFINE more == sess[s].captured /\ sess[s].limit > 1 /\ sess[s].kv.pos < sess[s].kv.ctx
<1>1. PICK c : c = CapturedState(s, sess[s].kv)
  OBVIOUS
<1>2. /\ sess[s].phase = "prompt"
      /\ sess' = [sess EXCEPT ![s].text = Append(@, token), ![s].phase = "decode",
                              ![s].kv = IF more THEN c.kv ELSE @]
      /\ IF more THEN Capture1(c.kv) ELSE KeepGraph
  BY <1>1, Zenon DEF FirstToken, Become
<1>3. KvOK(sess[s].kv, Storages) /\ sess[s].kv.rev \in Int
  BY <1>2, SessionFacts, RevisionFacts DEF GenerationInv, Calling
<1>4. c.kv.graph = GraphToken(c.kv, NextGeneration)
  BY <1>1, <1>3, CapturedToken
<1> HIDE DEF more
<1>5. PICK k, x : k = (IF more THEN c.kv ELSE sess[s].kv) /\ x = Append(sess[s].text, token)
  OBVIOUS
<1>6. PICK H : sess \in [Session -> SessionType(H)]
  BY SessionsElim DEF GenerationInv
<1>7. PICK r : r = [sess[s] EXCEPT !.text = x, !.phase = "decode", !.kv = k]
  OBVIOUS
<1>8. r.kv = k /\ r.identity = sess[s].identity /\ sess' = [sess EXCEPT ![s] = r]
  BY <1>2, <1>5, <1>6, <1>7 DEF SessionType
<1>9. sess'[s] = r /\ \A t \in Session \ {s} : sess'[t] = sess[t]
  BY <1>8, Assigned
<1>10. CASE more
  <2>1. k = c.kv /\ Capture1(k)
    BY <1>2, <1>5, <1>10
  <2>2. sess'[s].kv = k /\ sess'[s].identity = sess[s].identity
    BY <1>8, <1>9
  <2>3. k.graph = GraphToken(k, NextGeneration)
    BY <1>4, <2>1
  <2>4. sess'[s].kv.graph = GraphToken(sess'[s].kv, NextGeneration)
    BY <2>2, <2>3
  <2>5. Capture1(sess'[s].kv)
    BY <2>1, <2>2 DEF Capture1
  <2> QED
    BY <1>9, <2>2, <2>4, <2>5, CaptureStep
<1>11. CASE ~more
  <2>1. k = sess[s].kv /\ GraphGoesOn
    BY <1>2, <1>5, <1>11 DEF GraphGoesOn
  <2>2. Moves(sess[s], r)
    BY <1>3, <1>8, <2>1 DEF Moves, Follows
  <2> QED
    BY <1>9, <2>1, <2>2, MovedStep
<1> QED
  BY <1>10, <1>11

\* run_graph_forward: the graph is replayed, or captured again.
LEMMA GraphStepGraph ==
  ASSUME GenerationInv, GenerationInv', GraphInv, NEW s \in Session, NEW token \in Token,
         GraphStep(s, token)
  PROVE  GraphInv'
<1>1. PICK p : p = Prepared(sess, s, 1, Growth, FALSE)
  OBVIOUS
<1>2. PICK c : c = CapturedState(s, p.kv)
  OBVIOUS
<1> DEFINE current == p.kv.graph = GraphToken(p.kv, generation)
<1>3. PICK kv : kv = IF current THEN p.kv ELSE c.kv
  OBVIOUS
<1>4. PICK done : done = CommitAppend(kv, kv.pending)
  OBVIOUS
<1>5. /\ Sampling(s) /\ p.ok /\ done.ok
      /\ sess' = [sess EXCEPT ![s].kv = done.kv, ![s].text = Append(@, token)]
      /\ IF current THEN KeepGraph ELSE Capture1(c.kv)
  BY <1>1, <1>2, <1>3, <1>4, Zenon DEF GraphStep, Become
<1> HIDE DEF current
<1>6. KvOK(sess[s].kv, Storages) /\ profile \in Profiles /\ Growth \in Nat
  BY <1>5, SamplingFacts
<1>7. PICK n \in Nat \ {0} : n = 1
  OBVIOUS
<1>8. p = Prepared(sess, s, n, Growth, FALSE)
  BY <1>1, <1>7, Zenon
<1>9. KvOK(p.kv, Storages) /\ Follows(sess[s].kv, p.kv)
  BY <1>5, <1>6, <1>8, PreparedSound, PreparedFollows DEF Sound
<1>10. KvOK(c.kv, Storages) /\ c.kv.graph = GraphToken(c.kv, NextGeneration)
  BY <1>2, <1>9, CapturedSound, CapturedToken
<1>11. KvOK(kv, Storages)
  BY <1>3, <1>9, <1>10, Zenon
<1>12. PICK k, x : k = done.kv /\ x = Append(sess[s].text, token)
  OBVIOUS
<1>13. KvOK(k, Storages) /\ k.rev = kv.rev /\ k.graph = kv.graph /\ View(k) = View(kv)
  BY <1>4, <1>5, <1>11, <1>12, CommitSound, CommitFills DEF Sound
<1>14. PICK H : sess \in [Session -> SessionType(H)]
  BY SessionsElim DEF GenerationInv
<1>15. PICK r : r = [sess[s] EXCEPT !.kv = k, !.text = x]
  OBVIOUS
<1>16. r.kv = k /\ r.identity = sess[s].identity /\ sess' = [sess EXCEPT ![s] = r]
  BY <1>5, <1>12, <1>14, <1>15 DEF SessionType
<1>17. sess'[s] = r /\ \A t \in Session \ {s} : sess'[t] = sess[t]
  BY <1>16, Assigned
<1>18. CASE current
  <2>1. kv = p.kv /\ GraphGoesOn
    BY <1>3, <1>5, <1>18 DEF GraphGoesOn
  <2>2. Follows(sess[s].kv, k)
    BY <1>9, <1>13, <2>1 DEF Follows
  <2>3. Moves(sess[s], r)
    BY <1>16, <2>2 DEF Moves
  <2> QED
    BY <1>17, <2>1, <2>3, MovedStep
<1>19. CASE ~current
  <2>1. kv = c.kv /\ Capture1(kv)
    BY <1>3, <1>5, <1>19
  <2>2. k.graph = GraphToken(k, NextGeneration)
    BY <1>10, <1>13, <2>1 DEF GraphToken
  <2>3. Capture1(k)
    BY <1>13, <2>1 DEF Capture1
  <2>4. sess'[s].kv = k /\ sess'[s].identity = sess[s].identity
    BY <1>16, <1>17
  <2>5. sess'[s].kv.graph = GraphToken(sess'[s].kv, NextGeneration)
    BY <2>2, <2>4
  <2>6. Capture1(sess'[s].kv)
    BY <2>3, <2>4 DEF Capture1
  <2> QED
    BY <1>17, <2>4, <2>5, <2>6, CaptureStep
<1> QED
  BY <1>18, <1>19

\* speculative_verify_round and finish_generation_round.
LEMMA VerifyGraph ==
  ASSUME GenerationInv, GenerationInv', GraphInv, NEW s \in Session, NEW drafts \in Drafts,
         NEW accepted \in 0..Len(drafts), NEW token \in Token,
         NEW emitted \in 1..(accepted + 1),
         VerifyStep(s, drafts, accepted, token, emitted)
  PROVE  GraphInv'
<1> DEFINE start == sess[s].kv.pos
           n == Len(drafts) + 1
           out == SubSeq(Append(SubSeq(drafts, 1, accepted), token), 1, emitted)
           text == sess[s].text \o out
           limit == IF emitted <= accepted THEN Len(text) - sess[s].prompt
                    ELSE sess[s].limit
<1>1. PICK u, g : u = NextInput(s) \o drafts /\ g = Most(n, Growth)
  OBVIOUS
<1>2. PICK f : f = Forward(s, u, g)
  OBVIOUS
<1>3. PICK cut : cut = IF accepted < Len(drafts) THEN Truncate(f.kv, start + accepted + 1)
                       ELSE Kept(f.kv)
  OBVIOUS
<1>4. PICK ended : ended = IF cut.kv.pos > start + emitted
                           THEN Truncate(cut.kv, start + emitted) ELSE Kept(cut.kv)
  OBVIOUS
<1>5. /\ Sampling(s) /\ f.ok /\ cut.ok /\ ended.ok /\ KeepGraph
      /\ sess' = [sess EXCEPT ![s].kv = ended.kv, ![s].text = text, ![s].limit = limit]
  BY <1>1, <1>2, <1>3, <1>4, Zenon DEF VerifyStep, Become
<1>6. /\ drafts \in Seq(Token) /\ drafts # <<>>
  BY SessionsAssumption
<1>7. Len(drafts) \in Nat /\ accepted \in Nat /\ emitted \in Nat
  BY <1>6, LenProperties
<1>8. /\ KvOK(sess[s].kv, Storages) /\ profile \in Profiles
      /\ Len(NextInput(s)) = 1 /\ start \in Nat /\ Growth \in Nat
  BY <1>5, SamplingFacts, SessionsAssumption
<1>9. Len(u) \in Nat \ {0} /\ g \in Nat
  <2>1. PICK v : NextInput(s) = <<v>>
    BY DEF NextInput
  <2>2. u = <<v>> \o drafts
    BY <1>1, <2>1, Zenon
  <2>3. Len(u) = 1 + Len(drafts)
    <3>1. <<v>> \in Seq({v} \cup Token) /\ drafts \in Seq({v} \cup Token) /\ Len(<<v>>) = 1
      BY <1>6
    <3> QED
      BY <2>2, <3>1, ConcatProperties
  <2>4. g \in Nat
    BY <1>1, <1>7, <1>8 DEF Most
  <2> QED
    BY <1>7, <2>3, <2>4
<1>10. KvOK(f.kv, Storages) /\ Follows(sess[s].kv, f.kv)
  BY <1>2, <1>5, <1>8, <1>9, ForwardSound, ForwardFollows
<1> HIDE DEF start
<1>11. KvOK(cut.kv, Storages) /\ Follows(f.kv, cut.kv)
  <2>1. PICK p \in Nat : p = start + accepted + 1
    BY <1>7, <1>8
  <2>2. PICK k : k = f.kv
    OBVIOUS
  <2>3. cut = Truncate(k, p) \/ cut = Kept(k)
    BY <1>3, <2>1, <2>2, Zenon
  <2> QED
    BY <1>5, <1>10, <2>2, <2>3, CutOrKept, CutFollows
<1>12. PICK k, x, y : k = ended.kv /\ x = text /\ y = limit
  OBVIOUS
<1>13. KvOK(k, Storages) /\ Follows(cut.kv, k)
  <2>1. PICK p \in Nat : p = start + emitted
    BY <1>7, <1>8
  <2>2. PICK j : j = cut.kv
    OBVIOUS
  <2>3. ended = Truncate(j, p) \/ ended = Kept(j)
    BY <1>4, <2>1, <2>2, Zenon
  <2> QED
    BY <1>5, <1>11, <1>12, <2>2, <2>3, CutOrKept, CutFollows
<1>14. Follows(sess[s].kv, k)
  <2>1. \A q : KvOK(q, Storages) => q.rev \in Int
    BY KvFields DEF KvOK
  <2>2. sess[s].kv.rev \in Int /\ f.kv.rev \in Int /\ cut.kv.rev \in Int /\ k.rev \in Int
    BY <1>8, <1>10, <1>11, <1>13, <2>1
  <2>3. Follows(sess[s].kv, cut.kv)
    BY <1>10, <1>11, <2>2, FollowsOn
  <2> QED
    BY <1>13, <2>2, <2>3, FollowsOn
<1>15. PICK H : sess \in [Session -> SessionType(H)]
  BY SessionsElim DEF GenerationInv
<1>16. PICK r : r = [sess[s] EXCEPT !.kv = k, !.text = x, !.limit = y]
  OBVIOUS
<1> HIDE DEF text, limit
<1>17. r.kv = k /\ r.identity = sess[s].identity /\ sess' = [sess EXCEPT ![s] = r]
  BY <1>5, <1>12, <1>15, <1>16 DEF SessionType
<1>18. Moves(sess[s], r)
  BY <1>14, <1>17 DEF Moves
<1>19. GraphGoesOn
  BY <1>5 DEF GraphGoesOn
<1> QED
  BY <1>17, <1>18, <1>19, Assigned, MovedStep

-------------------------------------------------------------------------------
(* The decode graph of a batch. *)

(* The sessions go on with their identities. *)
Stays(ss, tt) ==
    \A s \in Session : /\ tt[s].identity = ss[s].identity
                       /\ Follows(ss[s].kv, tt[s].kv)

\* Steps in which the sessions go on compose, and are moves.
LEMMA StaysOn ==
  ASSUME NEW a, NEW b, NEW c, SessionsOK(a, Storages), SessionsOK(b, Storages),
         SessionsOK(c, Storages), Stays(a, b)
  PROVE  /\ Stays(b, c) => Stays(a, c)
         /\ \A s \in Session : Moves(a[s], b[s])
<1>1. \A s \in Session : a[s].kv.rev \in Int /\ b[s].kv.rev \in Int /\ c[s].kv.rev \in Int
  BY RevisionFacts
<1>2. ASSUME Stays(b, c), NEW s \in Session
      PROVE  c[s].identity = a[s].identity /\ Follows(a[s].kv, c[s].kv)
  <2>1. Follows(a[s].kv, b[s].kv) /\ Follows(b[s].kv, c[s].kv)
    BY <1>2 DEF Stays
  <2>2. Follows(a[s].kv, c[s].kv)
    BY <1>1, <2>1, FollowsOn
  <2> QED
    BY <1>2, <2>2 DEF Stays
<1> QED
  BY <1>2 DEF Stays, Moves

\* A session that goes on by itself.
LEMMA StaysOne ==
  ASSUME NEW ss, NEW tt, SessionsOK(ss, Storages), NEW s \in Session,
         tt[s].identity = ss[s].identity, Follows(ss[s].kv, tt[s].kv),
         \A t \in Session \ {s} : tt[t] = ss[t]
  PROVE  Stays(ss, tt)
<1>1. \A t \in Session : ss[t].kv.rev \in Int
  BY RevisionFacts
<1> QED
  BY <1>1 DEF Stays, Follows

\* prepare_batch_appends, one session.
LEMMA PrepareMemberStays ==
  ASSUME profile \in Profiles, NEW done, SessionsOK(done.ss, Storages),
         NEW s \in Session, done.ss[s].kv # NoKv, NEW d, d = PrepareMember(done, s)
  PROVE  Stays(done.ss, d.ss)
<1>1. PICK ss : ss = done.ss
  OBVIOUS
<1>2. PICK r : r = Prepared(ss, s, 1, Growth, FALSE)
  OBVIOUS
<1>3. d = IF done.ok THEN [ok |-> r.ok, ss |-> [ss EXCEPT ![s].kv = r.kv]] ELSE done
  BY <1>1, <1>2, Zenon DEF PrepareMember
<1>4. SessionsOK(ss, Storages) /\ KvOK(ss[s].kv, Storages)
  BY <1>1, SessionFacts
<1>5. Follows(ss[s].kv, r.kv)
  <2>1. PICK n \in Nat \ {0} : n = 1
    OBVIOUS
  <2>2. r = Prepared(ss, s, n, Growth, FALSE) /\ Growth \in Nat
    BY <1>2, <2>1, SessionsAssumption
  <2> QED
    BY <1>4, <2>2, PreparedFollows
<1>6. CASE ~done.ok
  <2>1. d.ss = ss
    BY <1>1, <1>3, <1>6
  <2>2. \A t \in Session : ss[t].kv.rev \in Int
    BY <1>4, RevisionFacts
  <2> QED
    BY <1>1, <2>1, <2>2 DEF Stays, Follows
<1>7. CASE done.ok
  <2>1. PICK k : k = r.kv
    OBVIOUS
  <2>2. PICK tt : tt = [ss EXCEPT ![s].kv = k]
    OBVIOUS
  <2>3. PICK o : d = [ok |-> o, ss |-> tt]
    BY <1>3, <1>7, <2>1, <2>2, Zenon
  <2>4. d.ss = tt
    BY <2>3
  <2>5. PICK H : ss \in [Session -> SessionType(H)]
    BY <1>4, SessionsElim
  <2>6. /\ tt[s].kv = k /\ tt[s].identity = ss[s].identity
        /\ \A t \in Session \ {s} : tt[t] = ss[t]
    BY <2>2, <2>5 DEF SessionType
  <2>7. Follows(ss[s].kv, tt[s].kv)
    BY <1>5, <2>1, <2>6
  <2>8. Stays(ss, tt)
    BY <1>4, <2>6, <2>7, StaysOne
  <2> QED
    BY <1>1, <2>4, <2>8
<1> QED
  BY <1>6, <1>7

\* prepare_batch_appends, wherever it stops.
LEMMA PrepareBatchStays ==
  ASSUME profile \in Profiles, NEW ss, SessionsOK(ss, Storages), NEW batch \in Batches,
         \A s \in Members(batch) : ss[s].kv # NoKv
  PROVE  Stays(ss, PrepareBatch(ss, batch).ss)
<1>1. PICK s \in Session, t \in Session :
           /\ Len(batch) = 1 \/ Len(batch) = 2
           /\ batch[1] = s /\ (Len(batch) = 2 => batch[2] = t)
           /\ s \in Members(batch) /\ (Len(batch) = 2 => t \in Members(batch))
  BY BatchFacts
<1>2. PICK start : start = [ok |-> TRUE, ss |-> ss]
  OBVIOUS
<1>3. PICK one : one = PrepareMember(start, s)
  OBVIOUS
<1>4. PICK two : two = PrepareMember(one, t)
  OBVIOUS
<1>5. start.ss = ss
  BY <1>2
<1>6. PrepareBatch(ss, batch) = IF Len(batch) = 1 THEN one ELSE two
  BY <1>1, <1>2, <1>3, <1>4, PrepareBatchUnfolded
<1>7. Carries(ss, one.ss) /\ Stays(ss, one.ss)
  BY <1>1, <1>3, <1>5, PrepareMemberCarries, PrepareMemberStays
<1>8. CASE Len(batch) = 1
  BY <1>6, <1>7, <1>8
<1>9. CASE Len(batch) = 2
  <2>1. SessionsOK(one.ss, Storages) /\ one.ss[t].kv # NoKv
    BY <1>1, <1>7, <1>9 DEF Carries
  <2>2. Carries(one.ss, two.ss) /\ Stays(one.ss, two.ss)
    BY <1>4, <2>1, PrepareMemberCarries, PrepareMemberStays
  <2>3. SessionsOK(two.ss, Storages)
    BY <2>2 DEF Carries
  <2>4. Stays(ss, two.ss)
    BY <1>7, <2>1, <2>2, <2>3, StaysOn
  <2> QED
    BY <1>6, <1>9, <2>4
<1> QED
  BY <1>1, <1>8, <1>9

\* The appends of a batch are committed.
LEMMA CommitBatchStays ==
  ASSUME NEW ss, SessionsOK(ss, Storages), NEW batch \in Batches, NEW tokens,
         \A s \in Members(batch) : ss[s].kv # NoKv
  PROVE  Stays(ss, CommitBatch(ss, batch, tokens))
<1> DEFINE Index(s) == CHOOSE i \in 1..Len(batch) : batch[i] = s
           New(s) == [ss[s] EXCEPT !.kv = CommitAppend(@, @.pending).kv,
                                   !.evaluated = Append(@, tokens[Index(s)])]
           tt == [s \in Session |-> IF s \notin Members(batch) THEN ss[s] ELSE New(s)]
<1>1. CommitBatch(ss, batch, tokens) = tt
  BY DEF CommitBatch
<1>2. PICK H : ss \in [Session -> SessionType(H)]
  BY SessionsElim
<1>3. ASSUME NEW s \in Session
      PROVE  tt[s].identity = ss[s].identity /\ Follows(ss[s].kv, tt[s].kv)
  <2>1. CASE s \notin Members(batch)
    <3>1. tt[s] = ss[s]
      BY <2>1
    <3> HIDE DEF tt
    <3>2. ss[s].kv.rev \in Int
      BY RevisionFacts
    <3> QED
      BY <3>1, <3>2 DEF Follows
  <2>2. CASE s \in Members(batch)
    <3>1. tt[s] = New(s)
      BY <2>2
    <3>2. PICK kv : kv = ss[s].kv
      OBVIOUS
    <3>3. KvOK(kv, Storages)
      BY <2>2, <3>2, SessionFacts
    <3>4. PICK c : c = CommitAppend(kv, kv.pending)
      OBVIOUS
    <3>5. Follows(kv, c.kv)
      BY <3>3, <3>4, CommitFollows
    <3>6. PICK k, e : k = c.kv /\ e = Append(ss[s].evaluated, tokens[Index(s)])
      OBVIOUS
    <3> HIDE DEF Index
    <3>7. New(s) = [ss[s] EXCEPT !.kv = k, !.evaluated = e]
      BY <1>2, <3>2, <3>4, <3>6 DEF SessionType
    <3> HIDE DEF New, tt
    <3>8. /\ [ss[s] EXCEPT !.kv = k, !.evaluated = e].kv = k
          /\ [ss[s] EXCEPT !.kv = k, !.evaluated = e].identity = ss[s].identity
      BY <1>2 DEF SessionType
    <3> QED
      BY <3>1, <3>2, <3>5, <3>6, <3>7, <3>8
  <2> QED
    BY <2>1, <2>2
<1> HIDE DEF tt
<1>4. Stays(ss, tt)
  BY <1>3 DEF Stays
<1> QED
  BY <1>1, <1>4

\* assign_batch_signature, one session: an identity that it gets is no other's,
\* and of no entry of the signature.
LEMMA IdentifyMemberGraph ==
  ASSUME signature \in Seq(SignatureType), NEW ss, SessionsOK(ss, Storages),
         NEW s \in Session, NEW tt, tt = IdentifyMember(ss, s)
  PROVE  /\ \A g, gen : GraphOK(ss, signature, g, gen) => GraphOK(tt, signature, g, gen)
         /\ \A t \in Session : /\ tt[t].kv = ss[t].kv
                               /\ t = s \/ ss[t].identity # 0 => tt[t].identity # 0
<1>1. CASE ss[s].identity # 0
  <2>1. tt = ss
    BY <1>1 DEF IdentifyMember
  <2> QED
    BY <1>1, <2>1
<1>2. CASE ss[s].identity = 0
  <2>1. PICK n : n = NextIdentity(ss)
    OBVIOUS
  <2>2. /\ n \in Nat /\ n # 0 /\ \A t \in Session : ss[t].identity # n
        /\ \A i \in 1..Len(signature) : signature[i].identity # n
    BY <2>1, IdentityFacts
  <2>3. tt = [ss EXCEPT ![s].identity = n]
    BY <1>2, <2>1, Zenon DEF IdentifyMember
  <2>4. PICK H : ss \in [Session -> SessionType(H)]
    BY SessionsElim
  <2>5. /\ tt[s].kv = ss[s].kv /\ tt[s].identity = n
        /\ \A t \in Session \ {s} : tt[t] = ss[t]
    BY <2>3, <2>4 DEF SessionType
  <2>6. ASSUME NEW g, NEW gen, GraphOK(ss, signature, g, gen)
        PROVE  GraphOK(tt, signature, g, gen)
    <3>1. \A t \in Session : TokenCurrent(tt[t].kv, g, gen)
      <4>1. \A t \in Session : tt[t].kv = ss[t].kv
        BY <2>5
      <4> QED
        BY <2>6, <4>1 DEF GraphOK
    <3>2. \A t \in Session : \A i \in 1..Len(signature) :
            EntryCurrent(tt[t], signature[i], g[i])
      <4> SUFFICES ASSUME NEW t \in Session, NEW i \in 1..Len(signature)
                   PROVE  EntryCurrent(tt[t], signature[i], g[i])
        OBVIOUS
      <4>1. CASE t = s
        BY <2>2, <2>5, <4>1 DEF EntryCurrent
      <4>2. CASE t # s
        BY <2>5, <2>6, <4>2 DEF GraphOK
      <4> QED
        BY <4>1, <4>2
    <3>3. Identities(tt)
      BY <2>2, <2>5, <2>6 DEF GraphOK, Identities
    <3> QED
      BY <2>6, <3>1, <3>2, <3>3 DEF GraphOK
  <2> QED
    BY <2>2, <2>5, <2>6
<1> QED
  BY <1>1, <1>2

\* assign_batch_signature: the sessions of the batch have identities.
LEMMA IdentifiedGraph ==
  ASSUME signature \in Seq(SignatureType), NEW ss, SessionsOK(ss, Storages),
         NEW batch \in Batches, NEW tt, tt = Identified(ss, batch)
  PROVE  /\ \A g, gen : GraphOK(ss, signature, g, gen) => GraphOK(tt, signature, g, gen)
         /\ \A t \in Session : tt[t].kv = ss[t].kv
         /\ \A i \in 1..Len(batch) : tt[batch[i]].identity # 0
<1>1. PICK s \in Session, t \in Session :
           /\ Len(batch) = 1 \/ Len(batch) = 2
           /\ batch[1] = s /\ (Len(batch) = 2 => batch[2] = t)
  BY BatchFacts
<1>2. PICK one : one = IdentifyMember(ss, s)
  OBVIOUS
<1>3. PICK two : two = IdentifyMember(one, t)
  OBVIOUS
<1>4. tt = IF Len(batch) = 1 THEN one ELSE two
  <2>1. tt = IF Len(batch) = 1 THEN IdentifyMember(ss, batch[1])
             ELSE IdentifyMember(IdentifyMember(ss, batch[1]), batch[2])
    BY <1>1, IdentifiedUnfolded
  <2>2. CASE Len(batch) = 1
    BY <1>1, <1>2, <2>1, <2>2
  <2>3. CASE Len(batch) = 2
    BY <1>1, <1>2, <1>3, <2>1, <2>3
  <2> QED
    BY <1>1, <2>2, <2>3
<1>5. /\ \A g, gen : GraphOK(ss, signature, g, gen) => GraphOK(one, signature, g, gen)
      /\ \A x \in Session : one[x].kv = ss[x].kv
      /\ one[s].identity # 0 /\ SessionsOK(one, Storages)
  BY <1>2, IdentifyMemberGraph, IdentifyMemberCarries DEF Carries
<1>6. /\ \A g, gen : GraphOK(one, signature, g, gen) => GraphOK(two, signature, g, gen)
      /\ \A x \in Session : two[x].kv = one[x].kv
      /\ two[s].identity # 0 /\ two[t].identity # 0
  BY <1>3, <1>5, IdentifyMemberGraph
<1>7. \A i \in 1..Len(batch) : i = 1 \/ (i = 2 /\ Len(batch) = 2)
  <2>1. PICK n \in Nat : n = Len(batch) /\ (n = 1 \/ n = 2)
    BY <1>1
  <2>2. \A i \in 1..n : i = 1 \/ (i = 2 /\ n = 2)
    BY <2>1
  <2> QED
    BY <2>1, <2>2
<1> QED
  BY <1>1, <1>4, <1>5, <1>6, <1>7

\* capture_batch_graph: the signature is of the views that were captured.
LEMMA SignedGraph ==
  ASSUME NEW ss, SessionsOK(ss, Storages), NEW sig, NEW g, NEW gen,
         GraphOK(ss, sig, g, gen), NEW new, NewGeneration(ss, new), NEW batch \in Batches,
         \A i \in 1..Len(batch) : ss[batch[i]].identity # 0,
         NEW h, h = [i \in 1..Len(batch) |-> View(ss[batch[i]].kv)]
  PROVE  GraphOK(ss, Signature(ss, batch), h, new)
<1> DEFINE Entry(i) == [identity |-> ss[batch[i]].identity, revision |-> ss[batch[i]].kv.rev,
                        context |-> ss[batch[i]].kv.ctx]
<1>1. PICK n \in Nat : n = Len(batch) /\ \A i \in 1..Len(batch) : batch[i] \in Session
  BY BatchFacts
<1>2. PICK sign : sign = Signature(ss, batch)
  OBVIOUS
<1>3. sign = [i \in 1..n |-> Entry(i)]
  BY <1>1, <1>2 DEF Signature
<1>4. Len(sign) = n /\ \A i \in 1..n : sign[i] = Entry(i)
  <2> HIDE DEF Entry
  <2> QED
    BY <1>3
<1>5. ASSUME NEW i \in 1..n
      PROVE  /\ sign[i].identity = ss[batch[i]].identity
             /\ sign[i].revision = ss[batch[i]].kv.rev
             /\ h[i] = View(ss[batch[i]].kv) /\ batch[i] \in Session
             /\ sign[i].identity # 0
  <2>1. i \in 1..Len(batch)
    BY <1>1
  <2>2. PICK r : r = Entry(i)
    OBVIOUS
  <2>3. sign[i] = r
    BY <1>4, <2>2
  <2>4. r.identity = ss[batch[i]].identity /\ r.revision = ss[batch[i]].kv.rev
    BY <2>2
  <2>5. h[i] = View(ss[batch[i]].kv)
    BY <2>1, Zenon
  <2>6. batch[i] \in Session /\ ss[batch[i]].identity # 0
    BY <1>1, <2>1
  <2> HIDE DEF Entry
  <2> QED
    BY <2>3, <2>4, <2>5, <2>6, Zenon
<1> HIDE DEF Entry
<1>6. \A s \in Session : TokenCurrent(ss[s].kv, h, new)
  BY DEF GraphOK, TokenCurrent, NewGeneration
<1>7. ASSUME NEW s \in Session, NEW i \in 1..n
      PROVE  EntryCurrent(ss[s], sign[i], h[i])
  <2>1. PICK b : b = batch[i]
    OBVIOUS
  <2>2. /\ sign[i].identity = ss[b].identity /\ sign[i].revision = ss[b].kv.rev
        /\ h[i] = View(ss[b].kv) /\ b \in Session /\ sign[i].identity # 0
    BY <1>5, <2>1, Zenon
  <2>3. ss[s].identity = sign[i].identity => s = b
    BY <2>2, Zenon DEF GraphOK, Identities
  <2>4. ss[s].kv.rev \in Int
    BY RevisionFacts
  <2> QED
    BY <2>2, <2>3, <2>4 DEF EntryCurrent
<1> QED
  BY <1>2, <1>4, <1>5, <1>6, <1>7 DEF GraphOK, NewGeneration

\* The sessions of a batch up to its capture: the graph stays good for them,
\* and no token is of the generation that follows.
LEMMA BatchGraph ==
  ASSUME GenerationInv, GraphInv, NEW batch \in Batches,
         \A s \in Members(batch) : BatchReady(s),
         NEW tokens \in [1..Len(batch) -> Token],
         NEW p, p = PrepareBatch(sess, batch),
         NEW ss, ss = p.ss \/ ss = Identified(p.ss, batch),
         NEW done, done = CommitBatch(ss, batch, tokens),
         NEW next, next = PrepareBatch(done, batch)
  PROVE  /\ SessionsOK(done, Storages) /\ SessionsOK(next.ss, Storages)
         /\ GraphOK(done, signature, graph, generation) /\ GraphOK(done, <<>>, graph, generation)
         /\ GraphOK(next.ss, signature, graph, generation)
         /\ NewGeneration(next.ss, NextGeneration)
         /\ ss = Identified(p.ss, batch) =>
              \A i \in 1..Len(batch) : next.ss[batch[i]].identity # 0
         /\ ss = p.ss => Stays(sess, p.ss) /\ Stays(sess, done) /\ Stays(sess, next.ss)
<1>1. /\ SessionsOK(sess, Storages) /\ profile \in Profiles
      /\ signature \in Seq(SignatureType)
  BY DEF GenerationInv
<1>2. /\ Carries(sess, p.ss) /\ Carries(sess, done) /\ Carries(sess, next.ss)
      /\ \A s \in Members(batch) : s \in Session /\ sess[s].kv # NoKv
  BY BatchCarries
<1>3. /\ SessionsOK(p.ss, Storages) /\ SessionsOK(done, Storages)
      /\ SessionsOK(next.ss, Storages)
  BY <1>2 DEF Carries
<1>4. Stays(sess, p.ss)
  BY <1>1, <1>2, PrepareBatchStays
<1>5. SessionsOK(ss, Storages) /\ \A s \in Members(batch) : ss[s].kv # NoKv
  <2>1. Carries(p.ss, ss)
    BY <1>1, <1>3, CarriesSame, IdentifiedCarries
  <2> QED
    BY <1>2, <2>1 DEF Carries
<1>6. Stays(ss, done)
  BY <1>5, CommitBatchStays
<1>7. Stays(done, next.ss)
  <2>1. \A s \in Members(batch) : done[s].kv # NoKv
    BY <1>2 DEF Carries
  <2> QED
    BY <1>1, <1>3, <2>1, PrepareBatchStays
<1>8. PICK X, sig, g, gen, new : /\ X = Storages /\ sig = signature /\ g = graph
                                 /\ gen = generation /\ new = NextGeneration
  OBVIOUS
<1>9. sig \in Seq(SignatureType) /\ GraphOK(sess, sig, g, gen) /\ NewGeneration(sess, new)
  BY <1>1, <1>8, NextIsNew DEF GraphInv
<1>10. /\ SessionsOK(sess, X) /\ SessionsOK(p.ss, X) /\ SessionsOK(ss, X)
       /\ SessionsOK(done, X) /\ SessionsOK(next.ss, X)
  BY <1>1, <1>3, <1>5, <1>8
<1>11. GraphOK(p.ss, sig, g, gen) /\ NewGeneration(p.ss, new)
  <2>1. \A s \in Session : Moves(sess[s], p.ss[s])
    BY <1>1, <1>3, <1>4, StaysOn
  <2> QED
    BY <1>9, <1>10, <2>1, MovedGraph, MovedNew
<1>12. GraphOK(ss, sig, g, gen) /\ NewGeneration(ss, new)
  <2>1. CASE ss = p.ss
    BY <1>11, <2>1
  <2>2. CASE ss = Identified(p.ss, batch)
    <3>1. /\ \A b, c : GraphOK(p.ss, signature, b, c) => GraphOK(ss, signature, b, c)
          /\ \A t \in Session : ss[t].kv = p.ss[t].kv
      BY <1>1, <1>3, <2>2, IdentifiedGraph
    <3>2. NewGeneration(ss, new)
      BY <1>11, <3>1 DEF NewGeneration
    <3> QED
      BY <1>8, <1>11, <3>1, <3>2
  <2> QED
    BY <2>1, <2>2
<1>13. GraphOK(done, sig, g, gen) /\ GraphOK(done, <<>>, g, gen) /\ NewGeneration(done, new)
  <2>1. \A s \in Session : Moves(ss[s], done[s])
    BY <1>3, <1>5, <1>6, StaysOn
  <2> QED
    BY <1>9, <1>10, <1>12, <2>1, MovedGraph, MovedNew
<1>14. GraphOK(next.ss, sig, g, gen) /\ NewGeneration(next.ss, new)
  <2>1. \A s \in Session : Moves(done[s], next.ss[s])
    BY <1>3, <1>7, StaysOn
  <2> QED
    BY <1>9, <1>10, <1>13, <2>1, MovedGraph, MovedNew
<1>15. ASSUME ss = Identified(p.ss, batch), NEW i \in 1..Len(batch)
       PROVE  next.ss[batch[i]].identity # 0
  <2>1. ss[batch[i]].identity # 0
    BY <1>1, <1>3, <1>15, IdentifiedGraph
  <2>2. batch[i] \in Session
    BY BatchFacts
  <2> QED
    BY <1>6, <1>7, <2>1, <2>2 DEF Stays
<1>16. ASSUME ss = p.ss
       PROVE  Stays(sess, done) /\ Stays(sess, next.ss)
  <2>1. Stays(p.ss, done)
    BY <1>6, <1>16
  <2>2. Stays(sess, done)
    BY <1>1, <1>3, <1>4, <2>1, StaysOn
  <2> QED
    BY <1>1, <1>3, <1>7, <2>2, StaysOn
<1> QED
  BY <1>3, <1>4, <1>8, <1>13, <1>14, <1>15, <1>16

\* generate_session_batch_token.
LEMMA BatchStepGraph ==
  ASSUME GenerationInv, GraphInv, NEW batch \in Batches,
         NEW tokens \in [1..Len(batch) -> Token], NEW captures,
         BatchStep(batch, tokens, captures)
  PROVE  GraphInv'
<1>1. PICK p : p = PrepareBatch(sess, batch)
  OBVIOUS
<1>2. PICK ss : ss = Identified(p.ss, batch)
  OBVIOUS
<1>3. PICK done : done = CommitBatch(ss, batch, tokens)
  OBVIOUS
<1>4. PICK next : next = PrepareBatch(done, batch)
  OBVIOUS
<1>5. /\ \A s \in Members(batch) : BatchReady(s)
      /\ \/ sess' = done /\ KeepGraph
         \/ sess' = done /\ signature' = <<>> /\ UNCHANGED <<graph, generation>>
         \/ sess' = next.ss /\ CaptureBatch(next, batch)
  BY <1>1, <1>2, <1>3, <1>4, Zenon DEF BatchStep, Become
<1>6. /\ SessionsOK(next.ss, Storages)
      /\ GraphOK(done, signature, graph, generation) /\ GraphOK(done, <<>>, graph, generation)
      /\ GraphOK(next.ss, signature, graph, generation)
      /\ NewGeneration(next.ss, NextGeneration)
      /\ \A i \in 1..Len(batch) : next.ss[batch[i]].identity # 0
  BY <1>1, <1>2, <1>3, <1>4, <1>5, BatchGraph
<1>7. GraphOK(sess', signature', graph', generation')
  <2>1. CASE sess' = done /\ KeepGraph
    BY <1>6, <2>1 DEF KeepGraph
  <2>2. CASE sess' = done /\ signature' = <<>> /\ UNCHANGED <<graph, generation>>
    BY <1>6, <2>2
  <2>3. CASE sess' = next.ss /\ CaptureBatch(next, batch)
    <3>1. PICK h : h = [i \in 1..Len(batch) |-> View(next.ss[batch[i]].kv)]
      OBVIOUS
    <3>2. PICK tt, sig, g, gen, new : /\ tt = next.ss /\ sig = signature /\ g = graph
                                      /\ gen = generation /\ new = NextGeneration
      OBVIOUS
    <3>3. GraphOK(tt, Signature(tt, batch), h, new)
      BY <1>6, <3>1, <3>2, SignedGraph
    <3>4. graph' = h /\ signature' = Signature(tt, batch) /\ generation' = new /\ sess' = tt
      BY <2>3, <3>1, <3>2 DEF CaptureBatch
    <3> QED
      BY <3>3, <3>4
  <2> QED
    BY <1>5, <2>1, <2>2, <2>3
<1> QED
  BY <1>7 DEF GraphInv, GraphOK, Identities

\* A batch that fails begins another generation.
LEMMA BatchFailsGraph ==
  ASSUME GenerationInv, GenerationInv', GraphInv, NEW batch \in Batches,
         NEW tokens \in [1..Len(batch) -> Token],
         NEW stage \in {"prepare", "sample", "capture"}, NEW retired \in BOOLEAN,
         BatchFails(batch, tokens, stage, retired)
  PROVE  GraphInv'
<1>1. PICK p : p = PrepareBatch(sess, batch)
  OBVIOUS
<1>2. PICK done : done = CommitBatch(p.ss, batch, tokens)
  OBVIOUS
<1>3. PICK next : next = PrepareBatch(done, batch)
  OBVIOUS
<1>4. PICK reached : reached = CASE stage = "prepare" -> p.ss
                     [] stage = "sample" -> IF p.ok THEN done ELSE p.ss
                     [] stage = "capture" -> IF p.ok THEN next.ss ELSE p.ss
  OBVIOUS
<1> DEFINE Clean(kv) == IF retired THEN DiscardPending([kv EXCEPT !.graph = NoGraph]).kv
                        ELSE kv
           New(s) == [Empty EXCEPT !.phase = "quarantined", !.kv = Clean(reached[s].kv)]
           ss == [s \in Session |-> IF s \in Members(batch) THEN New(s) ELSE sess[s]]
<1>5. /\ \A s \in Members(batch) : BatchReady(s)
      /\ signature' = <<>> /\ generation' = NextGeneration
      /\ sess' = ss
  BY <1>1, <1>2, <1>3, <1>4, Zenon DEF BatchFails, Become
<1>6. reached = p.ss \/ reached = done \/ reached = next.ss
  BY <1>4
<1>7. Stays(sess, reached)
  BY <1>1, <1>2, <1>3, <1>5, <1>6, BatchGraph
<1>8. /\ Carries(sess, reached)
      /\ \A s \in Members(batch) : s \in Session /\ sess[s].kv # NoKv
  BY <1>1, <1>2, <1>3, <1>5, <1>6, BatchCarries
<1>9. ASSUME NEW s \in Session
      PROVE  Moves(sess[s], ss[s])
  <2>1. CASE s \notin Members(batch)
    <3>1. ss[s] = sess[s]
      BY <2>1
    <3> HIDE DEF ss
    <3>2. sess[s].kv.rev \in Int
      BY RevisionFacts DEF GenerationInv
    <3> QED
      BY <3>1, <3>2, MovesSame
  <2>2. CASE s \in Members(batch)
    <3>1. ss[s] = New(s)
      BY <2>2
    <3>2. PICK kv : kv = reached[s].kv
      OBVIOUS
    <3>3. KvOK(kv, Storages) /\ Follows(sess[s].kv, kv)
      BY <1>7, <1>8, <2>2, <3>2, SessionFacts DEF Carries, Stays
    <3>4. PICK k : k = Clean(kv)
      OBVIOUS
    <3>5. New(s) = [Empty EXCEPT !.phase = "quarantined", !.kv = k]
      BY <3>2, <3>4, Zenon
    <3>6. Follows(sess[s].kv, k) \/ k.graph = NoGraph
      <4>1. CASE ~retired
        BY <3>3, <3>4, <4>1
      <4>2. CASE retired
        <5>1. PICK j : j = [kv EXCEPT !.graph = NoGraph]
          OBVIOUS
        <5>2. j \in KvType /\ j.graph = NoGraph
          <6>1. kv \in KvType /\ NoGraph \in TokenType
            BY <3>3 DEF KvOK, NoGraph, TokenType
          <6> QED
            BY <5>1, <6>1 DEF KvType
        <5>3. k = DiscardPending(j).kv
          BY <3>4, <4>2, <5>1
        <5>4. DiscardPending(j).kv.graph = j.graph
          BY <5>2 DEF DiscardPending, Kept, Refused, KvType
        <5> QED
          BY <5>2, <5>3, <5>4
      <4> QED
        BY <4>1, <4>2
    <3> HIDE DEF New, Clean, ss
    <3>7. ss[s].kv = k /\ ss[s].identity = 0
      BY <3>1, <3>5 DEF Empty
    <3> QED
      BY <3>6, <3>7 DEF Moves
  <2> QED
    BY <2>1, <2>2
<1> HIDE DEF ss
<1>10. GraphGoesOn
  BY <1>5 DEF GraphGoesOn, Retires
<1> QED
  BY <1>5, <1>9, <1>10, MovedSteps

\* A runtime begins with no graph.
LEMMA InitGraph == Init => GraphInv
<1> SUFFICES ASSUME Init
             PROVE  GraphInv
  OBVIOUS
<1>1. /\ sess = [s \in Session |-> Empty] /\ generation = 0 /\ signature = <<>>
  BY DEF Init
<1>2. PICK g : g = graph
  OBVIOUS
<1>3. Empty.kv.graph = NoGraph /\ Empty.kv.rev = -1 /\ Empty.identity = 0
  BY EmptyFacts, EmptyMoves, NoCacheFacts
<1>4. TokenCurrent(Empty.kv, g, 0)
  BY <1>3, NoGraphFacts
<1>5. \A s \in Session : TokenCurrent(sess[s].kv, graph, generation)
  BY <1>1, <1>2, <1>4
<1>6. Identities(sess)
  BY <1>1, <1>3 DEF Identities
<1>7. \A i \in 1..Len(signature) : FALSE
  BY <1>1
<1> QED
  BY <1>1, <1>5, <1>6, <1>7 DEF GraphInv, GraphOK

\* Every step keeps the tokens and the signature good for the graph.
LEMMA NextGraph == GenerationInv /\ GraphInv /\ [Next]_vars => GraphInv'
<1> SUFFICES ASSUME GenerationInv, GraphInv, [Next]_vars
             PROVE  GraphInv'
  OBVIOUS
<1>0. GenerationInv'
  BY NextGenerationInv
<1>1. Sampled \subseteq Token /\ profile \in Profiles
  BY SessionsAssumption DEF GenerationInv
<1>2. ASSUME NEW s \in Session, Requests(s)
      PROVE  GraphInv'
  <2>1. PICK prompt \in Prompts, limit \in 1..profile.longest :
          \/ \E fails \in BOOLEAN : PrepareFails(s, prompt, limit, fails)
          \/ BeginPrefill(s, prompt, limit)
          \/ \E captured \in {FALSE, profile.graphs} :
               BeginGenerate(s, prompt, limit, captured)
    BY <1>2, Zenon DEF Requests
  <2> QED
    BY <1>0, <2>1, RequestGraph
<1>3. ASSUME NEW s \in Session, Speculates(s)
      PROVE  GraphInv'
  <2>1. PICK drafts \in Drafts : \E accepted \in 0..Len(drafts), token \in Sampled :
          \E emitted \in 1..(accepted + 1) :
            VerifyStep(s, drafts, accepted, token, emitted)
    BY <1>3, Zenon DEF Speculates
  <2>2. PICK accepted \in 0..Len(drafts), token \in Sampled :
          \E emitted \in 1..(accepted + 1) :
            VerifyStep(s, drafts, accepted, token, emitted)
    BY <2>1, Zenon
  <2>3. PICK emitted \in 1..(accepted + 1) : VerifyStep(s, drafts, accepted, token, emitted)
    BY <2>2, Zenon
  <2>4. token \in Token
    BY <1>1
  <2> QED
    BY <1>0, <2>3, <2>4, VerifyGraph
<1>4. ASSUME NEW s \in Session, NEW token \in Sampled,
             FirstToken(s, token) \/ EagerStep(s, token) \/ GraphStep(s, token)
      PROVE  GraphInv'
  <2>1. token \in Token
    BY <1>1
  <2> QED
    BY <1>0, <1>4, <2>1, FirstTokenGraph, EagerGraph, GraphStepGraph
<1>5. ASSUME NEW s \in Session,
             \/ AdvancePrefill(s) \/ DropPrefill(s) \/ FinishPrefill(s)
             \/ PromptStep(s)
             \/ FinishGenerate(s) \/ EndGenerate(s) \/ QuarantineGenerate(s)
             \/ Hibernate(s) \/ Wake(s) \/ DropHibernated(s) \/ Discard(s)
      PROVE  GraphInv'
  BY <1>0, <1>5, AdvanceGraph, EndGraph
<1>6. ASSUME NEW s \in Session, NEW t \in Session,
             \/ ForkSession(s, t)
             \/ \E prefix \in 1..Len(sess[s].evaluated) : ForkSessionPrefix(s, t, prefix)
      PROVE  GraphInv'
  BY <1>0, <1>6, ForkGraph
<1>7. CASE BatchSteps
  <2>1. PICK batch \in Batches : \E tokens \in [1..Len(batch) -> Sampled] :
          \/ \E captures \in {FALSE, profile.graphs} : BatchStep(batch, tokens, captures)
          \/ \E stage \in {"prepare", "sample", "capture"}, retired \in BOOLEAN :
               BatchFails(batch, tokens, stage, retired)
    BY <1>7, Zenon DEF BatchSteps
  <2>2. PICK tokens \in [1..Len(batch) -> Sampled] :
          \/ \E captures \in {FALSE, profile.graphs} : BatchStep(batch, tokens, captures)
          \/ \E stage \in {"prepare", "sample", "capture"}, retired \in BOOLEAN :
               BatchFails(batch, tokens, stage, retired)
    BY <2>1, Zenon
  <2>3. tokens \in [1..Len(batch) -> Token]
    BY <1>1
  <2>4. CASE \E captures \in {FALSE, profile.graphs} : BatchStep(batch, tokens, captures)
    BY <2>3, <2>4, BatchStepGraph
  <2>5. CASE \E stage \in {"prepare", "sample", "capture"}, retired \in BOOLEAN :
               BatchFails(batch, tokens, stage, retired)
    BY <1>0, <2>3, <2>5, BatchFailsGraph
  <2> QED
    BY <2>2, <2>4, <2>5
<1>8. CASE UNCHANGED vars
  BY <1>8 DEF vars, GraphInv, GraphOK, Identities
<1> QED
  BY <1>2, <1>3, <1>4, <1>5, <1>6, <1>7, <1>8 DEF Next

\* A decode graph that the runtime would replay, for one session or for a batch,
\* was captured over the spans those sessions have now: whatever was appended,
\* cut, forked, committed or captured since, a token of this layout and
\* generation, and a batch signature that matches, are of the graph the backend
\* keeps (decode_graph_generation, batch_graph_signature and layout_revision in
\* runtime.rs and kv.rs).
THEOREM GraphAlwaysCurrent == Spec => []GraphIsCurrent
<1>1. GraphInv => GraphIsCurrent
  <2> SUFFICES ASSUME GraphInv, NEW s \in Session
               PROVE  /\ sess[s].kv.graph = GraphToken(sess[s].kv, generation)
                           => graph = <<View(sess[s].kv)>>
                      /\ \A i \in 1..Len(signature) :
                           signature[i] = [identity |-> sess[s].identity,
                                           revision |-> sess[s].kv.rev,
                                           context |-> sess[s].kv.ctx]
                           => graph[i] = View(sess[s].kv)
    BY DEF GraphIsCurrent
  <2>1. sess[s].kv.graph = GraphToken(sess[s].kv, generation)
          => graph = <<View(sess[s].kv)>>
    BY DEF GraphInv, GraphOK, TokenCurrent, GraphToken
  <2>2. ASSUME NEW i \in 1..Len(signature),
               signature[i] = [identity |-> sess[s].identity,
                               revision |-> sess[s].kv.rev,
                               context |-> sess[s].kv.ctx]
        PROVE  graph[i] = View(sess[s].kv)
    <3>1. signature[i].identity = sess[s].identity /\ signature[i].revision = sess[s].kv.rev
      BY <2>2
    <3> QED
      BY <3>1 DEF GraphInv, GraphOK, EntryCurrent
  <2> QED
    BY <2>1, <2>2
<1>2. Spec => [](GenerationInv /\ GraphInv)
  BY InitGeneration, InitGraph, NextGenerationInv, NextGraph, PTL DEF Spec
<1> QED
  BY <1>1, <1>2, PTL

===============================================================================

------------------------------- MODULE KvState -------------------------------
(***************************************************************************)
(* The segmented key/value cache of one session (crates/leone/src/kv.rs).  *)
(* A state is a record; an operation is an operator that returns           *)
(* [ok, kv]: its Result and the state it leaves behind.  A storage may be  *)
(* shared by the states of several sessions: `uniq` is the set of the      *)
(* storages with one owner, those Rc::get_mut gives access to, and `fresh` *)
(* the storage the backend would allocate, NoStorage when it has none.     *)
(*                                                                         *)
(* Segments count from 1.  The arithmetic the code checks is checked here  *)
(* where a small instance can reach the limit: the layout revision.        *)
(***************************************************************************)
EXTENDS Integers, Sequences, FiniteSets

CONSTANT MaxRevision        \* the largest layout revision, u64::MAX

ASSUME RevisionAssumption == MaxRevision \in Nat

NoStorage == 0
NoRange == [start |-> 0, tokens |-> 0, index |-> 0]
NoGraph == [layout |-> -1, generation |-> -1]

Least(a, b) == IF a < b THEN a ELSE b
Most(a, b) == IF a < b THEN b ELSE a
Final(s) == s[Len(s)]
Reversed(s) == [i \in 1..Len(s) |-> s[Len(s) + 1 - i]]

(* The k-th least element of a set of numbers. *)
Nth(S, k) == CHOOSE x \in S : Cardinality({y \in S : y <= x}) = k

NewKv(ctx) ==
    [segs |-> <<>>, pos |-> 0, ctx |-> ctx, rev |-> 0,
     graph |-> NoGraph, pending |-> NoRange]

CanGrowTo(kv, ctx) == ctx >= kv.ctx
CanRetainAt(kv, ctx) == ctx >= kv.pos

-------------------------------------------------------------------------------
(* What a failed transaction puts back. *)
Capture(kv) ==
    [pos |-> kv.pos, ctx |-> kv.ctx, rev |-> kv.rev, graph |-> kv.graph,
     pending |-> kv.pending, len |-> Len(kv.segs),
     committed |-> [i \in 1..Len(kv.segs) |-> kv.segs[i].committed],
     removed |-> <<>>]

\* Mutant: the segments that were cut off come back in the order of removal.
RestoreUnreversed(kv, rollback) ==
    LET survivors == Least(Most(0, rollback.len - Len(rollback.removed)),
                           Len(kv.segs))
        kept == [i \in 1..survivors |->
                    [kv.segs[i] EXCEPT !.committed = rollback.committed[i]]]
    IN [segs |-> kept \o rollback.removed,
        pos |-> rollback.pos, ctx |-> rollback.ctx, rev |-> rollback.rev,
        graph |-> rollback.graph, pending |-> rollback.pending]

RestoreAppendPosition(kv, rollback) ==
    LET survivors == Least(Most(0, rollback.len - Len(rollback.removed)),
                           Len(kv.segs))
        kept == [i \in 1..survivors |->
                    [kv.segs[i] EXCEPT !.committed = rollback.committed[i]]]
    IN [segs |-> kept \o Reversed(rollback.removed),
        pos |-> rollback.pos, ctx |-> rollback.ctx, rev |-> rollback.rev,
        graph |-> rollback.graph, pending |-> rollback.pending]

(* A transaction under way: the state, and the rollback that grows with it. *)
Begun(kv) == [kv |-> kv, rb |-> Capture(kv)]
Rolled(st) == [ok |-> FALSE, kv |-> RestoreAppendPosition(st.kv, st.rb)]
Undone(result, rb) == IF result.ok THEN result ELSE Rolled([kv |-> result.kv, rb |-> rb])
Kept(kv) == [ok |-> TRUE, kv |-> kv]
Refused(kv) == [ok |-> FALSE, kv |-> kv]

DropTail(st) ==
    LET n == Len(st.kv.segs)
    IN [kv |-> [st.kv EXCEPT !.segs = SubSeq(@, 1, n - 1)],
        rb |-> [st.rb EXCEPT !.removed = Append(@, st.kv.segs[n])]]

DetachPending(st) ==
    LET kv == st.kv
        n == Len(kv.segs)
        emptyTail == n > 0 /\ kv.pending.index = n /\ kv.segs[n].committed = 0
        cleared == [st EXCEPT !.kv.pending = NoRange]
    IN IF kv.pending = NoRange THEN st
       ELSE IF emptyTail THEN DropTail(cleared) ELSE cleared

\* Mutant: a segment that starts at the position is kept.
RemoveSegmentsAfter(st, position) ==
    LET segs == st.kv.segs
        keep == CHOOSE n \in 0..Len(segs) :
                    /\ n = 0 \/ segs[n].start <= position
                    /\ \A m \in (n + 1)..Len(segs) : segs[m].start > position
    IN [kv |-> [st.kv EXCEPT !.segs = SubSeq(@, 1, keep)],
        rb |-> [st.rb EXCEPT
                  !.removed = @ \o Reversed(SubSeq(segs, keep + 1, Len(segs)))]]

(* How many segments are left when the last one is dropped as long as it   *)
(* starts at the position or after it.                                     *)
SegmentsBefore(segs, position) ==
    CHOOSE n \in 0..Len(segs) :
        /\ n = 0 \/ segs[n].start < position
        /\ \A m \in (n + 1)..Len(segs) : segs[m].start >= position

RemoveSegmentsAtOrAfter(st, position) ==
    LET segs == st.kv.segs
        keep == SegmentsBefore(segs, position)
    IN [kv |-> [st.kv EXCEPT !.segs = SubSeq(@, 1, keep)],
        rb |-> [st.rb EXCEPT
                  !.removed = @ \o Reversed(SubSeq(segs, keep + 1, Len(segs)))]]

ShortenTail(st, position) ==
    LET n == Len(st.kv.segs)
        visible == Most(0, position - st.kv.segs[n].start)
    IN IF n > 0 /\ visible < st.kv.segs[n].committed
       THEN [st EXCEPT !.kv.segs[n].committed = visible]
       ELSE st

(* finish_staged_revision: `cut` is `detached` cut back to the position. *)
FinishStagedRevision(kv, detached, cut, position) ==
    LET removed == kv.pending # NoRange
        changed == removed \/ cut.kv.segs # detached.kv.segs
        increments == (IF removed THEN 1 ELSE 0)
                      + (IF changed \/ kv.pos = position THEN 1 ELSE 0)
    IN [ok |-> kv.rev + increments <= MaxRevision,
        st |-> [cut EXCEPT !.kv.pos = position, !.kv.rev = @ + increments]]

(* Cuts the state back to a position: the common part of truncate and of   *)
(* stage_append_position.                                                  *)
CutTo(kv, position) ==
    LET detached == DetachPending(Begun(kv))
    IN FinishStagedRevision(kv, detached,
           ShortenTail(RemoveSegmentsAtOrAfter(detached, position), position), position)

Truncate(kv, position) ==
    LET Ended(cut) == IF cut.ok THEN Kept(cut.st.kv) ELSE Rolled(cut.st)
    IN IF position > kv.pos THEN Refused(kv) ELSE Ended(CutTo(kv, position))

-------------------------------------------------------------------------------
(* pending_target_writable: the target lies in a storage of one owner and  *)
(* within its capacity.                                                    *)
PendingTargetWritable(kv, range, uniq) ==
    /\ range.index \in 1..Len(kv.segs)
    /\ LET seg == kv.segs[range.index]
       IN /\ range.start >= seg.start
          /\ seg.storage \in uniq
          /\ range.start - seg.start + range.tokens <= seg.cap

(* reusable_tail. *)
TailHasRoom(kv, tokens, uniq) ==
    LET seg == Final(kv.segs)
    IN /\ Len(kv.segs) > 0
       /\ seg.start + seg.committed = kv.pos
       /\ seg.storage \in uniq
       /\ seg.cap - seg.committed >= tokens

Target(kv, tokens, index) ==
    [start |-> kv.pos, tokens |-> tokens, index |-> index]

\* Mutant: a new segment leaves the layout revision alone.
AllocateUnrevised(st, tokens, growth, fresh) ==
    LET kv == st.kv
        cap == Least(Most(growth, tokens), kv.ctx - kv.pos)
        seg == [start |-> kv.pos, committed |-> 0, storage |-> fresh, cap |-> cap]
    IN IF fresh # NoStorage
       THEN Kept([kv EXCEPT !.segs = Append(@, seg),
                            !.pending = Target(kv, tokens, Len(kv.segs) + 1)])
       ELSE Rolled(st)

AllocateAppend(st, tokens, growth, fresh) ==
    LET kv == st.kv
        cap == Least(Most(growth, tokens), kv.ctx - kv.pos)
        seg == [start |-> kv.pos, committed |-> 0, storage |-> fresh, cap |-> cap]
        target == Target(kv, tokens, Len(kv.segs) + 1)
    IN IF kv.rev < MaxRevision /\ fresh # NoStorage
       THEN Kept([kv EXCEPT !.segs = Append(@, seg), !.rev = @ + 1,
                            !.pending = target])
       ELSE Rolled(st)

(* The part of prepare_append_staged that has no pending target to keep. *)
PlaceAppend(st, tokens, growth, uniq, fresh) ==
    IF TailHasRoom(st.kv, tokens, uniq)
    THEN Kept([st.kv EXCEPT !.pending = Target(st.kv, tokens, Len(st.kv.segs))])
    ELSE AllocateAppend(st, tokens, growth, fresh)

(* pending_append: the pending target is kept, given another size, or      *)
(* discarded.                                                              *)
PrepareAppendStaged(kv, tokens, growth, uniq, fresh) ==
    LET st == Begun(kv)
        pending == kv.pending
        resized == [pending EXCEPT !.tokens = tokens]
        discarded == [DetachPending(st) EXCEPT !.kv.rev = @ + 1]
    IN CASE pending = NoRange -> PlaceAppend(st, tokens, growth, uniq, fresh)
         [] pending # NoRange /\ pending.start # kv.pos -> Rolled(st)
         [] pending # NoRange /\ pending.start = kv.pos ->
              IF PendingTargetWritable(kv, resized, uniq)
              THEN IF resized = pending THEN Kept(kv)
                   ELSE IF kv.rev = MaxRevision THEN Rolled(st)
                   ELSE Kept([kv EXCEPT !.pending = resized, !.rev = @ + 1])
              ELSE IF kv.rev = MaxRevision THEN Rolled(st)
              ELSE PlaceAppend(discarded, tokens, growth, uniq, fresh)

PrepareAppend(kv, tokens, growth, uniq, fresh) ==
    IF kv.pos + tokens > kv.ctx THEN Refused(kv)
    ELSE PrepareAppendStaged(kv, tokens, growth, uniq, fresh)

(* pending_reusable_at. *)
PendingReusableAt(kv, position, tokens, uniq) ==
    /\ kv.pending = Target(kv, tokens, kv.pending.index)
    /\ kv.pending # NoRange
    /\ position = kv.pos
    /\ PendingTargetWritable(kv, kv.pending, uniq)

StageAppendPosition(kv, position, tokens, uniq) ==
    IF PendingReusableAt(kv, position, tokens, uniq)
    THEN [ok |-> kv.rev < MaxRevision, st |-> [Begun(kv) EXCEPT !.kv.rev = @ + 1]]
    ELSE CutTo(kv, position)

PrepareAppendAt(kv, position, tokens, growth, uniq, fresh) ==
    LET Ended(staged) ==
            IF ~staged.ok THEN Rolled(staged.st)
            ELSE Undone(PrepareAppend(staged.st.kv, tokens, growth, uniq, fresh),
                        staged.st.rb)
    IN IF position > kv.pos THEN Refused(kv)
       ELSE Ended(StageAppendPosition(kv, position, tokens, uniq))

(* The context grows and the first append is staged as one transaction;    *)
(* tokens = 0 stands for no append.                                        *)
PrepareShapeTransition(kv, ctx, position, tokens, growth, uniq, fresh) ==
    LET same == ctx = kv.ctx
        shaped == IF same THEN kv
                  ELSE [kv EXCEPT !.rev = @ + 1, !.ctx = ctx, !.graph = NoGraph]
    IN IF ~same /\ (~CanGrowTo(kv, ctx) \/ kv.rev = MaxRevision)
       THEN Rolled(Begun(kv))
       ELSE Undone(IF tokens = 0 THEN Truncate(shaped, position)
                   ELSE PrepareAppendAt(shaped, position, tokens, growth, uniq, fresh),
                   Capture(kv))

-------------------------------------------------------------------------------
CommitAppend(kv, range) ==
    LET i == range.index
        seg == kv.segs[i]
        local == range.start - seg.start
        committed == local + range.tokens
    IN IF /\ kv.pending = range
          /\ i \in 1..Len(kv.segs)
          /\ local >= 0
          /\ seg.committed = local
          /\ committed <= seg.cap
       THEN Kept([kv EXCEPT !.segs[i].committed = committed,
                            !.pos = range.start + range.tokens,
                            !.pending = NoRange])
       ELSE Refused(kv)

(* The segments that hold something, in their order. *)
Committed(segs) ==
    LET kept == {i \in 1..Len(segs) : segs[i].committed # 0}
    IN [k \in 1..Cardinality(kept) |-> segs[Nth(kept, k)]]

DiscardPending(kv) ==
    LET segs == Committed(kv.segs)
        end == IF segs = <<>> THEN 0 ELSE Final(segs).start + Final(segs).committed
    IN IF kv.pending = NoRange THEN Kept(kv)
       ELSE IF kv.rev = MaxRevision THEN Refused(kv)
       ELSE Kept([kv EXCEPT !.pending = NoRange, !.segs = segs, !.pos = end,
                            !.rev = @ + 1])

Fork(source) ==
    [source EXCEPT !.segs = Committed(@), !.graph = NoGraph, !.pending = NoRange]

-------------------------------------------------------------------------------
(* What an attention kernel is given (read_spans, write_span): the storage  *)
(* and the first position of every segment, the target's up to capacity.   *)
View(kv) ==
    [i \in 1..Len(kv.segs) |->
        [storage |-> kv.segs[i].storage, start |-> kv.segs[i].start,
         tokens |-> IF i = Len(kv.segs) THEN kv.segs[i].cap
                    ELSE kv.segs[i].committed]]

(* The segments hold the positions below kv.pos, each once; only the       *)
(* target of a pending append may be empty; the target follows the         *)
(* committed prefix, in the last segment, within its storage and the       *)
(* context.                                                                *)
WellFormed(kv) ==
    LET segs == kv.segs
        n == Len(segs)
        Start(i) == IF i = 1 THEN 0 ELSE segs[i - 1].start + segs[i - 1].committed
    IN /\ \A i \in 1..n :
            /\ segs[i].start = Start(i)
            /\ segs[i].committed <= segs[i].cap
            /\ segs[i].committed = 0 => kv.pending.index = i
       /\ kv.pos = Start(n + 1)
       /\ kv.pos <= kv.ctx
       /\ kv.pending # NoRange =>
            /\ kv.pending.start = kv.pos
            /\ kv.pending.index = n
            /\ kv.pos - segs[n].start + kv.pending.tokens <= segs[n].cap
            /\ kv.pos + kv.pending.tokens <= kv.ctx

=============================================================================

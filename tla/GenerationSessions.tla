-------------------------- MODULE GenerationSessions --------------------------
(***************************************************************************)
(* The sessions of a Runtime (crates/leone/src/runtime.rs) over one        *)
(* device: resumable prefill, generation with eager, captured and          *)
(* speculative steps, the shared batch step, forks, hibernation, and the   *)
(* one decode graph the backend keeps.  KvState holds the cache of each    *)
(* session; storages are shared between the sessions of a fork.            *)
(*                                                                         *)
(* What a token's keys and values are is abstracted to the token itself,   *)
(* so a session reads what it evaluated when its segments hold its text.   *)
(* A Runtime is borrowed mutably for a whole call: a call that streams     *)
(* tokens holds it (`call`) until it returns.                              *)
(***************************************************************************)
EXTENDS KvState

CONSTANTS
    Session,        \* session slots
    Token,          \* token ids
    Prompts,        \* prompts that callers send
    Sampled,        \* tokens the sampler returns
    Drafts,         \* proposals of a drafter
    Buckets,        \* context sizes, from decode_graph_bucket
    Growth,         \* tokens a decode append grows the cache by
    Profiles        \* what the device supports and the caller does

ASSUME SessionsAssumption ==
    /\ IsFiniteSet(Session) /\ "none" \notin Session
    /\ Growth \in Nat \ {0}
    /\ Buckets \subseteq Nat
    /\ Prompts \cup Drafts \subseteq Seq(Token) \ {<<>>}
    /\ Sampled \subseteq Token
    /\ Profiles \subseteq [graphs : BOOLEAN, hibernates : BOOLEAN, chunk : Nat,
                           storages : Nat, longest : Nat]

VARIABLES
    sess,           \* GenerationSession, with what a call holds for it
    mem,            \* what the storages hold
    graph,          \* the decode graph the backend keeps: the captured views
    generation,     \* decode_graph_generation
    signature,      \* batch_graph_signature
    call,           \* the session of the call that holds the runtime
    profile         \* fixed for a process

vars == <<sess, mem, graph, generation, signature, call, profile>>

(* profile.graphs: decode_graph_supported; profile.chunk: the chunk of its *)
(* prefill_method, 0 for the sequential one; profile.storages: the storages *)
(* it has room for; profile.hibernates: the caller moves sessions to the   *)
(* host; profile.longest: the largest max_tokens it asks for.              *)
Storages == 1..profile.storages
Blank == 0                      \* a position nothing was written to
NoCall == "none"
NoView == <<>>
NoKv == [NewKv(0) EXCEPT !.rev = -1]

NoHost == [segs |-> <<>>, pos |-> 0, ctx |-> 0]

(* batch_identity: 0 is None.  Only a session in a call has a text, the    *)
(* prompt and the tokens sampled so far; only a hibernated one has a host  *)
(* copy.                                                                   *)
Empty == [phase |-> "idle", kv |-> NoKv, evaluated |-> <<>>, identity |-> 0,
          text |-> <<>>, prompt |-> 0, limit |-> 0,
          captured |-> FALSE, host |-> NoHost]

-------------------------------------------------------------------------------
(* Storages. *)
Held(ss, s) == {ss[s].kv.segs[i].storage : i \in 1..Len(ss[s].kv.segs)}
InUse(ss) == UNION {Held(ss, s) : s \in Session}
Unique(ss, s) == Held(ss, s) \ UNION {Held(ss, t) : t \in Session \ {s}}
Allocate(ss) ==
    LET free == Storages \ InUse(ss)
    IN IF free = {} THEN NoStorage ELSE CHOOSE x \in free : \A y \in free : x <= y

(* A storage is gone with its last owner; what lies behind the positions   *)
(* its owners have committed is written again before it is read.           *)
Extent(ss, x) ==
    LET ends == UNION {{ss[s].kv.segs[i].committed :
                          i \in {j \in 1..Len(ss[s].kv.segs) :
                                   ss[s].kv.segs[j].storage = x}} : s \in Session}
    IN CHOOSE n \in ends \cup {0} : \A e \in ends : e <= n
Released(m, ss) ==
    [x \in Storages |-> SubSeq(m[x], 1, Least(Len(m[x]), Extent(ss, x)))]

Store(m, storage, from, tokens) ==
    [m EXCEPT ![storage] =
        [i \in 1..Most(Len(@), from + Len(tokens)) |->
            IF i \in (from + 1)..(from + Len(tokens)) THEN tokens[i - from]
            ELSE IF i <= Len(@) THEN @[i] ELSE Blank]]

(* The forward pass of an append writes through write_span. *)
WriteSpan(m, kv, tokens) ==
    LET seg == kv.segs[kv.pending.index]
    IN Store(m, seg.storage, kv.pending.start - seg.start, tokens)

(* A captured graph writes through the last span of its view. *)
WriteCaptured(m, view, position, tokens) ==
    LET span == Final(view)
    IN IF position >= span.start /\ position < span.start + span.tokens
       THEN Store(m, span.storage, position - span.start, tokens)
       ELSE m

(* What attention reads at a position. *)
At(m, seg, position) ==
    LET i == position - seg.start + 1
    IN IF i <= Len(m[seg.storage]) THEN m[seg.storage][i] ELSE Blank
ReadAt(m, kv, position) ==
    LET i == CHOOSE i \in 1..Len(kv.segs) :
                position \in kv.segs[i].start ..
                             (kv.segs[i].start + kv.segs[i].committed - 1)
    IN At(m, kv.segs[i], position)

Prepared(ss, s, tokens, growth, fails) ==
    PrepareAppend(ss[s].kv, tokens, growth, Unique(ss, s),
                  IF fails THEN NoStorage ELSE Allocate(ss))

-------------------------------------------------------------------------------
(* The generation and the batch identities are counters that never wrap in *)
(* a process; only equality with one still held matters, so a new one is   *)
(* the least that nothing holds.                                           *)
Unheld(held) == CHOOSE n \in 0..Cardinality(held) : n \notin held /\
                    \A m \in 0..(n - 1) : m \in held
NextGeneration ==
    Unheld({generation} \cup {sess[s].kv.graph.generation : s \in Session})
GraphToken(kv, g) == [layout |-> kv.rev, generation |-> g]

RetireDecodeGraph ==
    /\ generation' = NextGeneration
    /\ graph' = NoView
    /\ signature' = <<>>

KeepGraph == UNCHANGED <<graph, generation, signature>>

(* A step that leaves the sessions ss and the memory m. *)
Become(ss, m) ==
    /\ UNCHANGED profile
    /\ sess' = ss
    /\ mem' = Released(m, ss)

-------------------------------------------------------------------------------
(* Requests. *)
CommonPrefix(a, b) ==
    CHOOSE n \in 0..Least(Len(a), Len(b)) :
        /\ \A i \in 1..n : a[i] = b[i]
        /\ n < Least(Len(a), Len(b)) => a[n + 1] # b[n + 1]

Fits(prompt, limit) == \E b \in Buckets : b >= Len(prompt) + limit - 1
Bucket(prompt, limit) ==
    LET fit == {b \in Buckets : b >= Len(prompt) + limit - 1}
    IN CHOOSE b \in fit : \A c \in fit : b <= c

(* retained_state_compatible. *)
Compatible(s, prompt, ctx) ==
    LET kv == sess[s].kv
        cached == Len(sess[s].evaluated)
    IN /\ kv # NoKv
       /\ \/ kv.ctx = ctx
          \/ /\ cached > 0
             /\ CommonPrefix(prompt, sess[s].evaluated) = cached
             /\ CanRetainAt(kv, ctx)

(* generation_reuse: the last token of a prompt is evaluated again when    *)
(* the cache holds more than the prompt.                                   *)
Reused(s, prompt, ctx) ==
    LET common == CommonPrefix(prompt, sess[s].evaluated)
    IN IF ~Compatible(s, prompt, ctx) THEN 0
       ELSE IF common = Len(prompt) /\ common < Len(sess[s].evaluated)
            THEN common - 1 ELSE common

ShapeGrowth(s, prompt, ctx) ==
    Compatible(s, prompt, ctx) /\ sess[s].kv.ctx < ctx

(* The tokens of the next prefill append and what it grows the cache by. *)
ChunkTokens(remaining) == Least(Most(1, profile.chunk), remaining)
ChunkGrowth(tokens) == IF profile.chunk = 0 THEN Growth ELSE tokens

(* take_generation_state: a compatible state is cut to the reused prefix   *)
(* with the first append staged; otherwise a cold one is built beside it.  *)
TakeGenerationState(s, prompt, ctx, fails) ==
    LET kv == sess[s].kv
        reused == Reused(s, prompt, ctx)
        n == ChunkTokens(Len(prompt) - reused)
        growth == ChunkGrowth(n)
        fresh == IF fails THEN NoStorage ELSE Allocate(sess)
        uniq == Unique(sess, s)
    IN IF ~Compatible(s, prompt, ctx)
       THEN PrepareAppend(NewKv(ctx), n, growth, {}, fresh)
       ELSE IF ShapeGrowth(s, prompt, ctx)
       THEN PrepareShapeTransition(kv, ctx, reused, n, growth, uniq, fresh)
       ELSE IF n = 0 THEN Truncate(kv, reused)
       ELSE PrepareAppendAt(kv, reused, n, growth, uniq, fresh)

Begins(s, prompt, limit) ==
    /\ call = NoCall
    /\ sess[s].phase = "idle"
    /\ Fits(prompt, limit)

(* A preparation that fails is reported as SessionFailureEffect::Unchanged; *)
(* a graph it retired first stays retired.                                 *)
PrepareFails(s, prompt, limit, fails) ==
    LET ctx == Bucket(prompt, limit)
        taken == TakeGenerationState(s, prompt, ctx, fails)
        kept == IF Compatible(s, prompt, ctx) THEN taken.kv ELSE sess[s].kv
        ss == [sess EXCEPT ![s].kv = kept]
    IN /\ Begins(s, prompt, limit)
       /\ ~taken.ok
       /\ Become(ss, mem)
       /\ IF Compatible(s, prompt, ctx) /\ ~ShapeGrowth(s, prompt, ctx)
          THEN KeepGraph ELSE RetireDecodeGraph
       /\ UNCHANGED call

(* begin_prefill: the pending prefill takes the state, and the session is  *)
(* discarded with the graph.                                               *)
BeginPrefill(s, prompt, limit) ==
    LET taken == TakeGenerationState(s, prompt, Bucket(prompt, limit), FALSE)
        ss == [sess EXCEPT ![s] = [Empty EXCEPT
                 !.phase = "prefill", !.kv = taken.kv, !.text = prompt,
                 !.prompt = Len(prompt)]]
    IN /\ Begins(s, prompt, limit)
       /\ taken.ok
       /\ Become(ss, mem)
       /\ RetireDecodeGraph
       /\ UNCHANGED call

(* generate_session_tokens_with_stop up to the prefill.  The tokens the    *)
(* session had are not read again: the call replaces them, or the session  *)
(* ends with it.                                                           *)
BeginGenerate(s, prompt, limit, captured) ==
    LET ctx == Bucket(prompt, limit)
        taken == TakeGenerationState(s, prompt, ctx, FALSE)
        ss == [sess EXCEPT ![s] = [@ EXCEPT
                 !.phase = "prompt", !.kv = taken.kv, !.text = prompt,
                 !.prompt = Len(prompt), !.limit = limit,
                 !.captured = captured, !.identity = 0,
                 !.evaluated = <<>>]]
    IN /\ Begins(s, prompt, limit)
       /\ taken.ok
       /\ Become(ss, mem)
       /\ IF Compatible(s, prompt, ctx) /\ ~ShapeGrowth(s, prompt, ctx)
          THEN signature' = <<>> /\ UNCHANGED <<graph, generation>>
          ELSE RetireDecodeGraph
       /\ call' = s

-------------------------------------------------------------------------------
(* One append: prepare_append, the forward pass through write_span, and    *)
(* commit_append.                                                          *)
Forward(s, tokens, growth) ==
    LET Writable(kv) == \A t \in Session \ {s} :
                            kv.segs[kv.pending.index].storage \notin Held(sess, t)
        Written(kv, c) == [ok |-> c.ok, kv |-> c.kv, mem |-> WriteSpan(mem, kv, tokens)]
        Done(p) == IF p.ok /\ Writable(p.kv)
                   THEN Written(p.kv, CommitAppend(p.kv, p.kv.pending))
                   ELSE [ok |-> FALSE, kv |-> p.kv, mem |-> mem]
    IN Done(Prepared(sess, s, Len(tokens), growth, FALSE))

(* The next chunk of a prompt. *)
PromptForward(s) ==
    LET text == sess[s].text
        pos == sess[s].kv.pos
        n == ChunkTokens(Len(text) - pos)
    IN Forward(s, SubSeq(text, pos + 1, pos + n), ChunkGrowth(n))

AdvancePrompt(s) ==
    LET f == PromptForward(s)
    IN /\ sess[s].kv.pos < Len(sess[s].text)
       /\ f.ok
       /\ Become([sess EXCEPT ![s].kv = f.kv], f.mem)

(* advance_prefill. *)
AdvancePrefill(s) ==
    /\ call = NoCall
    /\ sess[s].phase = "prefill"
    /\ AdvancePrompt(s)
    /\ signature' = <<>>
    /\ UNCHANGED <<graph, generation, call>>

(* An advance that fails or is cancelled consumes the pending prefill. *)
DropPrefill(s) ==
    /\ call = NoCall
    /\ sess[s].phase = "prefill"
    /\ Become([sess EXCEPT ![s] = Empty], mem)
    /\ signature' = <<>>
    /\ UNCHANGED <<graph, generation, call>>

\* Mutant: the last sampled token counts as evaluated.
SettledWhole(s) ==
    [Empty EXCEPT !.kv = sess[s].kv, !.evaluated = sess[s].text]

(* commit_generation_session: what the session holds after a call. *)
Settled(s) ==
    LET kv == sess[s].kv
        text == sess[s].text
    IN [Empty EXCEPT !.kv = kv,
                     !.evaluated = SubSeq(text, 1, Least(kv.pos, Len(text)))]

FinishPrefill(s) ==
    /\ call = NoCall
    /\ sess[s].phase = "prefill"
    /\ sess[s].kv.pos = Len(sess[s].text)
    /\ Become([sess EXCEPT ![s] = Settled(s)], mem)
    /\ KeepGraph
    /\ UNCHANGED call

-------------------------------------------------------------------------------
(* A generation call after its preparation. *)
PromptStep(s) ==
    /\ call = s
    /\ sess[s].phase = "prompt"
    /\ AdvancePrompt(s)
    /\ KeepGraph
    /\ UNCHANGED call

(* capture_decode_graph over the state kv of s: the append the graph will  *)
(* make is prepared, and stays pending.                                    *)
CapturedState(s, kv) ==
    LET p == Prepared([sess EXCEPT ![s].kv = kv], s, 1, Growth, FALSE)
    IN [ok |-> p.ok, kv |-> [p.kv EXCEPT !.graph = GraphToken(p.kv, NextGeneration)]]

Capture1(kv) ==
    /\ graph' = <<View(kv)>>
    /\ generation' = NextGeneration
    /\ signature' = <<>>

(* initialize_generation_decode: the first token is sampled, and the graph *)
(* is captured when more are wanted and the context has room.              *)
FirstToken(s, token) ==
    LET kv == sess[s].kv
        more == sess[s].captured /\ sess[s].limit > 1 /\ kv.pos < kv.ctx
        c == CapturedState(s, kv)
        ss == [sess EXCEPT ![s].text = Append(@, token), ![s].phase = "decode",
                           ![s].kv = IF more THEN c.kv ELSE @]
    IN /\ call = s
       /\ sess[s].phase = "prompt"
       /\ kv.pos = Len(sess[s].text)
       /\ more => c.ok
       /\ Become(ss, mem)
       /\ IF more THEN Capture1(c.kv) ELSE KeepGraph
       /\ UNCHANGED call

Sampling(s) ==
    /\ call = s
    /\ sess[s].phase = "decode"
    /\ Len(sess[s].text) - sess[s].prompt < sess[s].limit

NextInput(s) == <<sess[s].text[sess[s].kv.pos + 1]>>

(* run_plain_forward without a graph. *)
EagerStep(s, token) ==
    LET f == Forward(s, NextInput(s), Growth)
    IN /\ Sampling(s)
       /\ ~sess[s].captured
       /\ f.ok
       /\ Become([sess EXCEPT ![s].kv = f.kv, ![s].text = Append(@, token)], f.mem)
       /\ KeepGraph
       /\ UNCHANGED call

(* run_graph_forward: a graph that is not of this layout and generation is *)
(* captured again; the graph then writes where it was captured.            *)
GraphStep(s, token) ==
    LET p == Prepared(sess, s, 1, Growth, FALSE)
        current == p.kv.graph = GraphToken(p.kv, generation)
        c == CapturedState(s, p.kv)
        kv == IF current THEN p.kv ELSE c.kv
        view == IF current THEN graph[1] ELSE View(c.kv)
        done == CommitAppend(kv, kv.pending)
    IN /\ Sampling(s)
       /\ sess[s].captured
       /\ p.ok /\ (current \/ c.ok) /\ done.ok
       /\ Become([sess EXCEPT ![s].kv = done.kv, ![s].text = Append(@, token)],
                 WriteCaptured(mem, view, kv.pos, NextInput(s)))
       /\ IF current THEN KeepGraph ELSE Capture1(c.kv)
       /\ UNCHANGED call

(* speculative_verify_round and finish_generation_round: the drafts are    *)
(* evaluated in one append, the state is cut behind the accepted ones, and *)
(* again behind the emitted ones when the call stops among them.           *)
VerifyStep(s, drafts, accepted, token, emitted) ==
    LET start == sess[s].kv.pos
        n == Len(drafts) + 1
        f == Forward(s, NextInput(s) \o drafts, Most(n, Growth))
        cut == IF accepted < Len(drafts) THEN Truncate(f.kv, start + accepted + 1)
               ELSE Kept(f.kv)
        ended == IF cut.kv.pos > start + emitted
                 THEN Truncate(cut.kv, start + emitted) ELSE Kept(cut.kv)
        out == SubSeq(Append(SubSeq(drafts, 1, accepted), token), 1, emitted)
        text == sess[s].text \o out
        limit == IF emitted <= accepted THEN Len(text) - sess[s].prompt
                 ELSE sess[s].limit
    IN /\ Sampling(s)
       /\ Len(sess[s].text) + n <= sess[s].prompt + sess[s].limit
       /\ f.ok /\ cut.ok /\ ended.ok
       /\ Become([sess EXCEPT ![s].kv = ended.kv, ![s].text = text,
                              ![s].limit = limit], f.mem)
       /\ KeepGraph
       /\ UNCHANGED call

FinishGenerate(s) ==
    /\ call = s
    /\ sess[s].phase = "decode"
    /\ Become([sess EXCEPT ![s] = Settled(s)], mem)
    /\ KeepGraph
    /\ call' = NoCall

(* A cancelled call, and one that failed and could retire the graph. *)
EndGenerate(s) ==
    /\ call = s
    /\ Become([sess EXCEPT ![s] = Empty], mem)
    /\ RetireDecodeGraph
    /\ call' = NoCall

(* quarantine_generation_failure when the backend cannot drop its graph:   *)
(* the session keeps the state of the call (restore_generation_resources). *)
QuarantineGenerate(s) ==
    LET held == [Empty EXCEPT !.phase = "quarantined", !.kv = sess[s].kv]
    IN /\ call = s
       /\ Become([sess EXCEPT ![s] = held], mem)
       /\ generation' = NextGeneration
       /\ signature' = <<>>
       /\ UNCHANGED graph
       /\ call' = NoCall

-------------------------------------------------------------------------------
(* generate_session_batch_token: one shared decode step for the sessions   *)
(* of a batch, in order.                                                   *)
BatchReady(s) ==
    LET kv == sess[s].kv
    IN /\ sess[s].phase = "idle"
       /\ kv # NoKv
       /\ kv.pos = Len(sess[s].evaluated)
       /\ kv.pos < kv.ctx

Members(batch) == {batch[i] : i \in 1..Len(batch)}

(* prepare_batch_appends stops at the first session it cannot prepare. *)
PrepareMember(done, s) ==
    LET r == Prepared(done.ss, s, 1, Growth, FALSE)
    IN IF done.ok THEN [ok |-> r.ok, ss |-> [done.ss EXCEPT ![s].kv = r.kv]]
       ELSE done
PrepareBatch(ss, batch) ==
    LET P[i \in 0..Len(batch)] ==
            IF i = 0 THEN [ok |-> TRUE, ss |-> ss]
            ELSE PrepareMember(P[i - 1], batch[i])
    IN P[Len(batch)]

(* assign_batch_signature. *)
NextIdentity(ss) ==
    Unheld({0} \cup {ss[s].identity : s \in Session}
               \cup {signature[i].identity : i \in 1..Len(signature)})
IdentifyMember(ss, s) ==
    IF ss[s].identity # 0 THEN ss
    ELSE [ss EXCEPT ![s].identity = NextIdentity(ss)]
Identified(ss, batch) ==
    LET I[i \in 0..Len(batch)] ==
            IF i = 0 THEN ss ELSE IdentifyMember(I[i - 1], batch[i])
    IN I[Len(batch)]
Signature(ss, batch) ==
    [i \in 1..Len(batch) |->
        [identity |-> ss[batch[i]].identity, revision |-> ss[batch[i]].kv.rev,
         context |-> ss[batch[i]].kv.ctx]]

(* The step writes each session's token, through the graph or the spans. *)
WriteBatch(ss, batch, tokens, replays) ==
    LET W[i \in 0..Len(batch)] ==
            IF i = 0 THEN mem
            ELSE LET kv == ss[batch[i]].kv
                 IN IF replays THEN WriteCaptured(W[i - 1], graph[i], kv.pos, <<tokens[i]>>)
                    ELSE WriteSpan(W[i - 1], kv, <<tokens[i]>>)
    IN W[Len(batch)]

CommitBatch(ss, batch, tokens) ==
    [s \in Session |->
        IF s \notin Members(batch) THEN ss[s]
        ELSE LET i == CHOOSE i \in 1..Len(batch) : batch[i] = s
             IN [ss[s] EXCEPT !.kv = CommitAppend(@, @.pending).kv,
                              !.evaluated = Append(@, tokens[i])]]

(* capture_batch_graph prepares the next append of every session, which    *)
(* stays pending.                                                          *)
CaptureBatch(p, batch) ==
    /\ graph' = [i \in 1..Len(batch) |-> View(p.ss[batch[i]].kv)]
    /\ generation' = NextGeneration
    /\ signature' = Signature(p.ss, batch)

BatchStep(batch, tokens, captures) ==
    LET p == PrepareBatch(sess, batch)
        ss == Identified(p.ss, batch)
        replays == signature # <<>> /\ Signature(ss, batch) = signature
        m == WriteBatch(ss, batch, tokens, replays)
        done == CommitBatch(ss, batch, tokens)
        room == \A s \in Members(batch) : done[s].kv.pos < done[s].kv.ctx
        next == PrepareBatch(done, batch)
    IN /\ call = NoCall
       /\ \A s \in Members(batch) : BatchReady(s)
       /\ p.ok
       /\ IF replays \/ ~captures
          THEN Become(done, m) /\ KeepGraph
          ELSE IF ~room
          THEN /\ Become(done, m)
               /\ signature' = <<>>
               /\ UNCHANGED <<graph, generation>>
          ELSE /\ next.ok
               /\ Become(next.ss, m)
               /\ CaptureBatch(next, batch)
       /\ UNCHANGED call

(* quarantine_batch_failure: the call failed while it prepared, after it   *)
(* committed, or while it captured; the graph is retired and the pending   *)
(* appends are dropped.  The tokens a quarantined session reports are      *)
(* never read again: it can only be discarded.                             *)
BatchFails(batch, tokens, stage, retired) ==
    LET p == PrepareBatch(sess, batch)
        done == CommitBatch(p.ss, batch, tokens)
        reached == CASE stage = "prepare" -> p.ss
                     [] stage = "sample" -> IF p.ok THEN done ELSE p.ss
                     [] stage = "capture" -> IF p.ok THEN PrepareBatch(done, batch).ss
                                             ELSE p.ss
        Clean(kv) == IF retired THEN DiscardPending([kv EXCEPT !.graph = NoGraph]).kv
                     ELSE kv
        ss == [s \in Session |->
                IF s \in Members(batch)
                THEN [Empty EXCEPT !.phase = "quarantined", !.kv = Clean(reached[s].kv)]
                ELSE sess[s]]
    IN /\ call = NoCall
       /\ \A s \in Members(batch) : BatchReady(s)
       /\ Become(ss, mem)
       /\ generation' = NextGeneration
       /\ signature' = <<>>
       /\ graph' = IF retired THEN NoView ELSE graph
       /\ UNCHANGED call

-------------------------------------------------------------------------------
Forkable(s) ==
    /\ call = NoCall
    /\ sess[s].phase = "idle"
    /\ sess[s].evaluated # <<>>
    /\ sess[s].kv # NoKv

(* The child of a fork shares the segments of its source. *)
Forked(s, t, kv, tokens) ==
    /\ Forkable(s)
    /\ sess[t] = Empty
    /\ Become([sess EXCEPT ![t].kv = kv,
                           ![t].evaluated = SubSeq(sess[s].evaluated, 1, tokens)], mem)
    /\ KeepGraph
    /\ UNCHANGED call

ForkSession(s, t) == Forked(s, t, Fork(sess[s].kv), Len(sess[s].evaluated))

ForkSessionPrefix(s, t, prefix) ==
    LET cut == Truncate(Fork(sess[s].kv), prefix)
    IN /\ prefix \in 1..Len(sess[s].evaluated)
       /\ cut.ok
       /\ Forked(s, t, cut.kv, prefix)

(* hibernate_session copies the committed segments to the host and         *)
(* discards the session.                                                   *)
HostCopy(kv) ==
    LET segs == Committed(kv.segs)
    IN [segs |-> [i \in 1..Len(segs) |->
                    [seg |-> segs[i],
                     data |-> [j \in 1..segs[i].committed |-> mem[segs[i].storage][j]]]],
        pos |-> kv.pos, ctx |-> kv.ctx]

Hibernate(s) ==
    LET asleep == [Empty EXCEPT !.phase = "asleep", !.host = HostCopy(sess[s].kv),
                                !.evaluated = sess[s].evaluated]
    IN /\ profile.hibernates
       /\ Forkable(s)
       /\ Become([sess EXCEPT ![s] = asleep], mem)
       /\ RetireDecodeGraph
       /\ UNCHANGED call

(* wake_session: KvState::restore into new storages. *)
Wake(s) ==
    LET host == sess[s].host
        n == Len(host.segs)
        free == Storages \ InUse(sess)
        place == [i \in 1..n |-> Nth(free, i)]
        kv == [NewKv(host.ctx) EXCEPT !.pos = host.pos,
                 !.segs = [i \in 1..n |-> [host.segs[i].seg EXCEPT !.storage = place[i]]]]
        awake == [Empty EXCEPT !.kv = kv, !.evaluated = sess[s].evaluated]
        copied == [x \in Storages |->
                     IF \E i \in 1..n : place[i] = x
                     THEN host.segs[CHOOSE i \in 1..n : place[i] = x].data ELSE mem[x]]
    IN /\ call = NoCall
       /\ sess[s].phase = "asleep"
       /\ Cardinality(free) >= n
       /\ Become([sess EXCEPT ![s] = awake], copied)
       /\ KeepGraph
       /\ UNCHANGED call

(* A hibernated session is host memory only. *)
DropHibernated(s) ==
    /\ call = NoCall
    /\ sess[s].phase = "asleep"
    /\ Become([sess EXCEPT ![s] = Empty], mem)
    /\ KeepGraph
    /\ UNCHANGED call

(* discard_session. *)
Discard(s) ==
    /\ call = NoCall
    /\ sess[s].phase \in {"idle", "quarantined"}
    /\ sess[s] # Empty
    /\ Become([sess EXCEPT ![s] = Empty], mem)
    /\ RetireDecodeGraph
    /\ UNCHANGED call

-------------------------------------------------------------------------------
Init ==
    /\ profile \in Profiles
    /\ sess = [s \in Session |-> Empty]
    /\ mem = [x \in Storages |-> <<>>]
    /\ graph = NoView
    /\ generation = 0
    /\ signature = <<>>
    /\ call = NoCall

Batches == {<<s>> : s \in Session}
           \cup {<<s, t>> : s \in Session, t \in Session}
Distinct(batch) == Cardinality(Members(batch)) = Len(batch)

Requests(s) ==
    \E prompt \in Prompts, limit \in 1..profile.longest :
        \/ \E fails \in BOOLEAN : PrepareFails(s, prompt, limit, fails)
        \/ BeginPrefill(s, prompt, limit)
        \/ \E captured \in {FALSE, profile.graphs} : BeginGenerate(s, prompt, limit, captured)

Speculates(s) ==
    \E drafts \in Drafts :
      \E accepted \in 0..Len(drafts), token \in Sampled :
        \E emitted \in 1..(accepted + 1) :
            VerifyStep(s, drafts, accepted, token, emitted)

BatchSteps ==
    \E batch \in Batches : Distinct(batch) /\
      \E tokens \in [1..Len(batch) -> Sampled] :
        \/ \E captures \in {FALSE, profile.graphs} : BatchStep(batch, tokens, captures)
        \/ \E stage \in {"prepare", "sample", "capture"}, retired \in BOOLEAN :
               BatchFails(batch, tokens, stage, retired)

Next ==
    \/ \E s \in Session :
        \/ Requests(s)
        \/ AdvancePrefill(s) \/ DropPrefill(s) \/ FinishPrefill(s)
        \/ PromptStep(s) \/ Speculates(s)
        \/ \E token \in Sampled :
             FirstToken(s, token) \/ EagerStep(s, token) \/ GraphStep(s, token)
        \/ FinishGenerate(s) \/ EndGenerate(s) \/ QuarantineGenerate(s)
        \/ \E t \in Session : ForkSession(s, t)
        \/ \E t \in Session, prefix \in 1..Len(sess[s].evaluated) :
             ForkSessionPrefix(s, t, prefix)
        \/ Hibernate(s) \/ Wake(s) \/ DropHibernated(s) \/ Discard(s)
    \/ BatchSteps

Spec == Init /\ [][Next]_vars

-------------------------------------------------------------------------------
(* The segments of every session, at rest, in a call or quarantined, hold  *)
(* exactly the positions it committed, and an append is pending only at    *)
(* their end (KvReadView rejects any other list of spans); the call that   *)
(* holds the runtime is of the one session that is generating.             *)
CachesWellFormed ==
    \A s \in Session :
        /\ sess[s].kv # NoKv => WellFormed(sess[s].kv)
        /\ sess[s].kv.rev <= MaxRevision
        /\ Held(sess, s) \subseteq Storages
        /\ sess[s].phase \in {"prompt", "decode"} <=> call = s

(* A session reads back the text it evaluated, whatever the sessions it    *)
(* shares storages with, or a graph captured earlier, have written.        *)
ReadsOwnText ==
    \A s \in Session :
        LET kv == sess[s].kv
            text == IF sess[s].phase = "idle" THEN sess[s].evaluated ELSE sess[s].text
        IN kv # NoKv /\ sess[s].phase # "quarantined" =>
            /\ kv.pos <= Len(text)
            /\ sess[s].phase = "idle" => kv.pos = Len(text)
            /\ \A p \in 0..(kv.pos - 1) : ReadAt(mem, kv, p) = text[p + 1]

(* A graph that the runtime would replay, for one session or for a batch,  *)
(* was captured over the spans those sessions have now.                    *)
GraphIsCurrent ==
    \A s \in Session :
        LET kv == sess[s].kv
        IN /\ kv.graph = GraphToken(kv, generation) => graph = <<View(kv)>>
           /\ \A i \in 1..Len(signature) :
                signature[i] = [identity |-> sess[s].identity, revision |-> kv.rev,
                                context |-> kv.ctx]
                => graph[i] = View(kv)

(* A preparation that is reported as leaving the session unchanged does:   *)
(* the rollback of a request that fails, at whatever point, puts back the  *)
(* segments, the position, the context, the revision and the pending       *)
(* append.                                                                 *)
FailedPrepareChangesNothing ==
    \A s \in Session : call = NoCall /\ sess[s].phase = "idle" =>
        \A prompt \in Prompts, limit \in 1..profile.longest, fails \in BOOLEAN :
            LET ctx == Bucket(prompt, limit)
                taken == TakeGenerationState(s, prompt, ctx, fails)
            IN Fits(prompt, limit) /\ Compatible(s, prompt, ctx) /\ ~taken.ok
               => taken.kv = sess[s].kv

=============================================================================

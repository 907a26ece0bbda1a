----------------------------- MODULE ResponsePath -----------------------------
(***************************************************************************)
(* One response, from the request in the engine's input channel to the     *)
(* closed socket. Four parties share it:                                   *)
(*   engine   the serve loop's only thread, running the request's task and *)
(*            writing frames through OutputSink;                           *)
(*   writer   write_loop of the connection's thread;                       *)
(*   watcher  the thread that peeks at the socket for a reset;             *)
(*   client   the peer, and the operator who may stop the server.          *)
(* They meet in the atomics of OutputState, the Cancellation token and the *)
(* bounded channel of frames. A step is one access to that shared state,   *)
(* so every interleaving of the accesses is a behaviour.                   *)
(***************************************************************************)
EXTENDS Integers, Sequences, Sums

CONSTANTS
    Kinds,      \* kinds of request: "plain", "nonstream", "stream"
    MaxTokens,  \* max_tokens of a chat request
    MaxBytes,   \* max_output_bytes
    MaxFrames   \* MAX_OUTPUT_FRAMES

ASSUME KindsAssumption == Kinds \subseteq {"plain", "nonstream", "stream"}
ASSUME BoundsAssumption ==
    /\ MaxTokens \in Nat \ {0}
    /\ MaxBytes \in Nat \ {0}
    /\ MaxFrames \in Nat \ {0}

VARIABLES
    now,            \* the clock, as far as the deadlines tell instants apart
    peer,           \* "open", "eof" (write half closed) or "reset"
    stop,           \* the server is stopping
    (* OutputState and Cancellation *)
    pending,        \* pending_bytes
    cancelled,      \* OutputState::cancelled
    cancellation,   \* the request's Cancellation token
    claimed,        \* terminal_claimed, and by whom: "none", "engine", "writer"
    started,        \* response_started
    streaming,
    failure,        \* delivery_failure_phase
    gone,           \* client_disconnected
    (* the channel of frames and what the client has received *)
    queue,
    senders,        \* an OutputSink of this response is alive
    wire,
    headLost,       \* history: the head of a stream was dropped as late
    (* the threads *)
    wpc, wnow, wlimit, wframe,
    watch, watchStop,
    epc, script, eframe, ret,
    task, session, status, result, cause

shared   == <<pending, cancelled, cancellation, claimed, started, streaming,
              failure, gone>>
channel  == <<queue, senders, wire, headLost>>
writer   == <<wpc, wnow, wlimit, wframe>>
watcher  == <<watch, watchStop>>
work     == <<task, session, status, result, cause>>
engine   == <<epc, script, eframe, ret, work>>
outside  == <<now, peer, stop>>
vars     == <<outside, shared, channel, writer, watcher, engine>>

-------------------------------------------------------------------------------
(* The instants the code compares with: before the request deadline, in    *)
(* the grace period of the terminal frame, and after it.                   *)
Deadline == 1
TerminalDeadline == 2

(* Everything the engine hands over in one write is one frame: a whole     *)
(* HTTP response, the head of a stream, or one chunk of it.                *)
Chunks == {"role", "mark", "text", "final", "error", "done", "end"}
Items == {"full", "head"} \cup Chunks
Size(item) == IF item = "full" THEN 2 ELSE 1

Capacity == IF MaxBytes < MaxFrames THEN MaxBytes ELSE MaxFrames

(* Frame::Bytes carries the instant it was queued at. *)
Frame == [item : Items, terminal : BOOLEAN, queued_at : 0..2]

(* What a client sees: complete frames, or the first part of one. *)
Shown == [item : Items \cup {"tail", "torn"}, terminal : BOOLEAN]

NoFrame == [item |-> "full", terminal |-> FALSE, queued_at |-> 0]

NoReturn == [ok |-> "drop", err |-> "drop"]

Init ==
    /\ now = 0 /\ peer = "open" /\ stop = FALSE
    /\ pending = 0 /\ cancelled = FALSE /\ cancellation = FALSE
    /\ claimed = "none" /\ started = FALSE /\ streaming = FALSE
    /\ failure = "None" /\ gone = FALSE
    /\ queue = <<>> /\ senders = TRUE /\ wire = <<>> /\ headLost = FALSE
    /\ wpc = "check" /\ wnow = 0 /\ wlimit = 0 /\ wframe = NoFrame
    /\ watch \in {"on", "off"} /\ watchStop = FALSE
    /\ epc = "queued" /\ script = <<>> /\ eframe = NoFrame
    /\ ret = NoReturn
    /\ \E kind \in Kinds :
        task = [kind |-> kind, headers |-> FALSE, prefilled |-> FALSE,
                tokens |-> 0, expired |-> FALSE, client_cancelled |-> FALSE,
                disconnected |-> FALSE, failed |-> FALSE]
    /\ session = "none" /\ status = "Queued" /\ result = "ok" /\ cause = "none"

-------------------------------------------------------------------------------
(* The world. *)

Tick ==
    /\ now < TerminalDeadline
    /\ now' = now + 1
    /\ UNCHANGED <<peer, stop, shared, channel, writer, watcher, engine>>

(* The client closes its write half, or the connection is reset. *)
PeerChanges ==
    /\ \/ peer = "open" /\ peer' \in {"eof", "reset"}
       \/ peer = "eof" /\ peer' = "reset"
    /\ UNCHANGED <<now, stop, shared, channel, writer, watcher, engine>>

(* The interrupt handler, or Transport::drop. *)
Interrupt ==
    /\ ~stop
    /\ stop' = TRUE
    /\ UNCHANGED <<now, peer, shared, channel, writer, watcher, engine>>

-------------------------------------------------------------------------------
(* The watcher. *)

WatcherEnds ==
    /\ watch = "on"
    /\ watchStop \/ cancellation \/ peer = "eof"
    /\ watch' = "off"
    /\ UNCHANGED <<outside, shared, channel, writer, watchStop, engine>>

RecordClientDisconnect ==
    /\ watch = "on"
    /\ peer = "reset"
    /\ gone' = TRUE
    /\ cancelled' = TRUE
    /\ watch' = "noted"
    /\ UNCHANGED <<outside, pending, cancellation, claimed, started, streaming,
                   failure, channel, writer, watchStop, engine>>

CancelAfterDisconnect ==
    /\ watch = "noted"
    /\ cancellation' = TRUE
    /\ watch' = "off"
    /\ UNCHANGED <<outside, pending, cancelled, claimed, started, streaming,
                   failure, gone, channel, writer, watchStop, engine>>

-------------------------------------------------------------------------------
(* The writer: next_frame, write_queued_frame, write_deadline_fallback.    *)

(* The instant, the deadline and the frame are local to one step of        *)
(* write_loop.                                                             *)
ForgetLocals == wnow' = 0 /\ wlimit' = 0 /\ wframe' = NoFrame

WriterCloses ==
    /\ wpc' = "done"
    /\ watchStop' = TRUE
    /\ ForgetLocals
    /\ UNCHANGED watch

WriterGoes(pc) == wpc' = pc /\ ForgetLocals /\ UNCHANGED watcher

(* The top of next_frame's loop: transport_cancelled. *)
NextFrame ==
    /\ wpc = "check"
    /\ IF stop \/ cancelled \/ (now < Deadline /\ cancellation)
       THEN WriterCloses
       ELSE /\ wpc' = "mode"
            /\ wnow' = now
            /\ UNCHANGED <<wlimit, wframe, watcher>>
    /\ UNCHANGED <<outside, shared, channel, engine>>

(* Past the deadline an unclaimed response is only polled; a claimed one   *)
(* may use the grace period.                                               *)
ChooseWait ==
    /\ wpc = "mode"
    /\ WriterGoes(IF wnow >= Deadline /\ claimed = "none" THEN "poll"
                  ELSE IF wnow >= TerminalDeadline THEN "fallback"
                  ELSE "wait")
    /\ UNCHANGED <<outside, shared, channel, engine>>

QueuedLate(frame) == ~frame.terminal /\ frame.queued_at >= Deadline

\* Mutant: the bytes of a frame are released when it is received, too.
ReceiveReleases ==
    /\ wpc \in {"poll", "wait"}
    /\ queue # <<>>
    /\ queue' = Tail(queue)
    /\ pending' = pending - Size(Head(queue).item)
    /\ wframe' = Head(queue)
    /\ wpc' = "write"
    /\ UNCHANGED <<outside, cancelled, cancellation, claimed, started,
                   streaming, failure, gone, senders, wire, headLost, wnow,
                   wlimit, watcher, engine>>

(* recv_timeout: a frame, all senders gone, or no frame in time. *)
ReceiveFrame ==
    /\ wpc \in {"poll", "wait"}
    /\ queue # <<>>
    /\ queue' = Tail(queue)
    /\ IF QueuedLate(Head(queue))
       THEN /\ pending' = pending - Size(Head(queue).item)
            /\ headLost' = (headLost \/ Head(queue).item = "head")
            /\ wpc' = (IF wpc = "poll" THEN "fallback" ELSE "check")
            /\ UNCHANGED wframe
       ELSE /\ wframe' = Head(queue)
            /\ wpc' = "write"
            /\ UNCHANGED <<pending, headLost>>
    /\ UNCHANGED <<outside, cancelled, cancellation, claimed, started,
                   streaming, failure, gone, senders, wire, wnow, wlimit,
                   watcher, engine>>

ReceiveNothing ==
    /\ wpc \in {"poll", "wait"}
    /\ queue = <<>>
    /\ IF senders
       THEN WriterGoes(IF wpc = "poll" THEN "fallback" ELSE "check")
       ELSE WriterCloses
    /\ UNCHANGED <<outside, shared, channel, engine>>

(* write_queued_frame picks the deadline of this frame. *)
BeginFrame ==
    /\ wpc = "write"
    /\ wlimit' = (IF now < Deadline THEN Deadline ELSE TerminalDeadline)
    /\ wpc' = "writing"
    /\ UNCHANGED <<outside, shared, channel, wnow, wframe, watcher, engine>>

FrameWritten ==
    /\ wpc = "writing"
    /\ peer # "reset" /\ now < wlimit
    /\ wire' = Append(wire, [item |-> wframe.item, terminal |-> wframe.terminal])
    /\ started' = TRUE
    /\ pending' = pending - Size(wframe.item)
    /\ WriterGoes("check")
    /\ UNCHANGED <<outside, cancelled, cancellation, claimed, streaming,
                   failure, gone, queue, senders, headLost, engine>>

Torn == [item |-> "torn", terminal |-> FALSE]

(* The socket refuses the frame, or is still full at the frame's deadline; *)
(* a part of the frame may have left. Its bytes stay pending.              *)
FrameFails ==
    /\ wpc = "writing"
    /\ peer = "reset" \/ now >= wlimit
    /\ wire' \in {wire, Append(wire, Torn)}
    /\ failure' = "SocketWrite"
    /\ WriterGoes("cancel")
    /\ UNCHANGED <<outside, pending, cancelled, cancellation, claimed, started,
                   streaming, gone, queue, senders, headLost, engine>>

(* cancel_output. *)
CancelOutput ==
    /\ wpc = "cancel"
    /\ cancelled' = TRUE
    /\ cancellation' = TRUE
    /\ WriterCloses
    /\ UNCHANGED <<outside, pending, claimed, started, streaming, failure, gone,
                   channel, engine>>

(* The deadline fallback gives way to a stopped server and a cancelled     *)
(* output, then to the end of the grace period, then to a claim.           *)
FallbackChecks ==
    /\ wpc = "fallback"
    /\ IF stop \/ cancelled THEN WriterCloses ELSE WriterGoes("grace")
    /\ UNCHANGED <<outside, shared, channel, engine>>

\* Mutant: a claimed response is waited for without a limit.
GraceNeverEnds ==
    /\ wpc = "grace"
    /\ WriterGoes("claim")
    /\ UNCHANGED <<outside, shared, channel, engine>>

GraceEnds ==
    /\ wpc = "grace"
    /\ WriterGoes(IF claimed # "none" /\ now >= TerminalDeadline
                  THEN "cancel" ELSE "claim")
    /\ UNCHANGED <<outside, shared, channel, engine>>

\* Mutant: the writer answers although the engine owns the ending.
WriterClaimsAlways ==
    /\ wpc = "claim"
    /\ claimed' = "writer"
    /\ WriterGoes("respond")
    /\ UNCHANGED <<outside, pending, cancelled, cancellation, started,
                   streaming, failure, gone, channel, engine>>

WriterClaims ==
    /\ wpc = "claim"
    /\ claimed' = (IF claimed = "none" THEN "writer" ELSE claimed)
    /\ WriterGoes(IF claimed = "none" THEN "respond" ELSE "check")
    /\ UNCHANGED <<outside, pending, cancelled, cancellation, started,
                   streaming, failure, gone, channel, engine>>

\* Mutant: a stream of which nothing was written is ended like one.
DeadlineEndsStream ==
    [item |-> IF streaming THEN "tail" ELSE "full", terminal |-> TRUE]

(* deadline_response: the end of the stream, or a complete 408. *)
DeadlineResponse ==
    [item |-> IF streaming /\ started THEN "tail" ELSE "full", terminal |-> TRUE]

FallbackWritten ==
    /\ wpc = "respond"
    /\ peer # "reset" /\ now < TerminalDeadline
    /\ wire' = Append(wire, DeadlineResponse)
    /\ started' = TRUE
    /\ WriterGoes("cancel")
    /\ UNCHANGED <<outside, pending, cancelled, cancellation, claimed,
                   streaming, failure, gone, queue, senders, headLost, engine>>

FallbackFails ==
    /\ wpc = "respond"
    /\ peer = "reset" \/ now >= TerminalDeadline
    /\ wire' \in {wire, Append(wire, Torn)}
    /\ failure' = "SocketWrite"
    /\ WriterGoes("cancel")
    /\ UNCHANGED <<outside, pending, cancelled, cancellation, claimed, started,
                   streaming, gone, queue, senders, headLost, engine>>

Writer ==
    \/ NextFrame \/ ChooseWait \/ ReceiveFrame \/ ReceiveNothing
    \/ BeginFrame \/ FrameWritten \/ FrameFails \/ CancelOutput
    \/ FallbackChecks \/ GraceEnds \/ WriterClaims
    \/ FallbackWritten \/ FallbackFails

-------------------------------------------------------------------------------
(* The engine: OutputSink::write, and what the serve loop does with it.    *)

(* Go on outside of OutputSink::write. *)
EngineGoes(pc) ==
    /\ epc' = pc
    /\ script' = <<>> /\ eframe' = NoFrame /\ ret' = NoReturn

(* Write the items one after the other; go on at ok, or at err as soon as  *)
(* one of them cannot be queued.                                           *)
WriteThen(items, ok, err) ==
    /\ epc' = "open?"
    /\ script' = items
    /\ ret' = [ok |-> ok, err |-> err]
    /\ eframe' = NoFrame

SinkGoes(pc) == epc' = pc /\ UNCHANGED <<script, eframe, ret>>

SinkChecks ==
    /\ epc = "open?"
    /\ IF cancelled THEN EngineGoes(ret.err) ELSE SinkGoes("reserve")
    /\ result' = (IF cancelled THEN "closed" ELSE result)
    /\ UNCHANGED <<outside, shared, channel, writer, watcher, task, session,
                   status, cause>>

(* OutputSink::reserve: the compare-exchange loop takes effect once. *)
SinkReserves ==
    /\ epc = "reserve"
    /\ LET next == pending + Size(Head(script)) IN
        IF next > MaxBytes
        THEN /\ cancelled' = TRUE
             /\ failure' = "EnqueueRejected"
             /\ result' = "overloaded"
             /\ EngineGoes(ret.err)
             /\ UNCHANGED pending
        ELSE /\ pending' = next
             /\ SinkGoes("stamp")
             /\ UNCHANGED <<cancelled, failure, result>>
    /\ UNCHANGED <<outside, cancellation, claimed, started, streaming, gone,
                   channel, writer, watcher, task, session, status, cause>>

(* The frame is terminal if the response is claimed by now, by anyone. The *)
(* instant is read before the frame is in the channel.                     *)
SinkStamps ==
    /\ epc = "stamp"
    /\ epc' = "send"
    /\ eframe' = [item |-> Head(script), terminal |-> claimed # "none",
                  queued_at |-> now]
    /\ UNCHANGED <<outside, shared, channel, writer, watcher, script, ret, work>>

\* Mutant: a frame that does not fit stays counted.
SendKeepsBytes ==
    /\ epc = "send"
    /\ IF wpc # "done" /\ Len(queue) < Capacity
       THEN /\ queue' = Append(queue, eframe)
            /\ IF Len(script) = 1 THEN EngineGoes(ret.ok)
               ELSE WriteThen(Tail(script), ret.ok, ret.err)
            /\ UNCHANGED <<cancelled, failure, result>>
       ELSE /\ cancelled' = TRUE
            /\ failure' = "EnqueueRejected"
            /\ result' = (IF wpc = "done" THEN "closed" ELSE "overloaded")
            /\ EngineGoes(ret.err)
            /\ UNCHANGED queue
    /\ UNCHANGED <<outside, pending, cancellation, claimed, started, streaming,
                   gone, senders, wire, headLost, writer, watcher, task,
                   session, status, cause>>

(* try_send, then the flush that follows every chunk. *)
SinkSends ==
    /\ epc = "send"
    /\ IF wpc # "done" /\ Len(queue) < Capacity
       THEN /\ queue' = Append(queue, eframe)
            /\ IF eframe.item \in Chunks /\ cancelled
               THEN EngineGoes(ret.err) /\ result' = "closed"
               ELSE /\ IF Len(script) = 1 THEN EngineGoes(ret.ok)
                       ELSE WriteThen(Tail(script), ret.ok, ret.err)
                    /\ UNCHANGED result
            /\ UNCHANGED <<pending, cancelled, failure>>
       ELSE /\ pending' = pending - Size(eframe.item)
            /\ cancelled' = TRUE
            /\ failure' = "EnqueueRejected"
            /\ result' = (IF wpc = "done" THEN "closed" ELSE "overloaded")
            /\ EngineGoes(ret.err)
            /\ UNCHANGED queue
    /\ UNCHANGED <<outside, cancellation, claimed, started, streaming, gone,
                   senders, wire, headLost, writer, watcher, task, session,
                   status, cause>>

Sink == SinkChecks \/ SinkReserves \/ SinkStamps \/ SinkSends

(* A request that is answered on the spot: GET, OPTIONS, the cancel route, *)
(* an unknown route, and every chat request that is refused. The response  *)
(* is one frame and nobody claims the ending.                              *)
AnswerPlain ==
    /\ epc = "queued" /\ task.kind = "plain"
    /\ WriteThen(<<"full">>, "drop", "drop")
    /\ UNCHANGED <<outside, shared, channel, writer, watcher, work>>

(* admit_scheduled_chat and begin: the session is leased to a task. *)
AdmitChat ==
    /\ epc = "queued" /\ task.kind # "plain"
    /\ session' = "leased"
    /\ EngineGoes("loop")
    /\ UNCHANGED <<outside, shared, channel, writer, watcher, task, status,
                   result, cause>>

(* mark_transport_disconnect. *)
MarkDisconnect(t) ==
    IF t.client_cancelled \/ t.expired \/ failure # "None" \/ ~gone
    THEN t ELSE [t EXCEPT !.disconnected = TRUE]

(* The service ends the request with this status and calls finish. *)
FinishAs(s) == status' = s /\ result' = "ok" /\ EngineGoes("finish")

(* Another connection posts to the cancel route of this request. *)
ClientCancels ==
    /\ epc = "loop"
    /\ task' = [task EXCEPT !.client_cancelled = TRUE]
    /\ FinishAs("Cancelled")
    /\ UNCHANGED <<outside, shared, channel, writer, watcher, session, cause>>

(* cancel_unresponsive_requests: first the tasks past their deadline ... *)
ExpireTask ==
    /\ epc = "loop"
    /\ IF now >= Deadline
       THEN /\ cancellation' = TRUE
            /\ task' = [task EXCEPT !.expired = TRUE]
            /\ FinishAs("Cancelled")
       ELSE EngineGoes("filter") /\ UNCHANGED <<cancellation, task, status, result>>
    /\ UNCHANGED <<outside, pending, cancelled, claimed, started, streaming,
                   failure, gone, channel, writer, watcher, session, cause>>

(* ... then those whose token is cancelled. *)
CancelUnresponsive ==
    /\ epc = "filter"
    /\ IF cancellation
       THEN /\ cancelled' = TRUE
            /\ task' = MarkDisconnect(task)
            /\ FinishAs("Cancelled")
       ELSE EngineGoes("tick") /\ UNCHANGED <<cancelled, task, status, result>>
    /\ UNCHANGED <<outside, pending, cancellation, claimed, started, streaming,
                   failure, gone, channel, writer, watcher, session, cause>>

(* tick_batch: the scheduler expires the request or dispatches it. *)
TickBatch ==
    /\ epc = "tick"
    /\ IF now >= Deadline
       THEN /\ task' = [task EXCEPT !.expired = TRUE]
            /\ FinishAs("DeadlineExpired")
       ELSE EngineGoes("headers") /\ UNCHANGED <<task, status, result>>
    /\ UNCHANGED <<outside, shared, channel, writer, watcher, session, cause>>

(* write_executor_headers. *)
WriteHeaders ==
    /\ epc = "headers"
    /\ IF task.kind = "stream" /\ ~task.headers
       THEN /\ streaming' = TRUE
            /\ WriteThen(<<"head", "role">>, "headed", "unheaded")
       ELSE EngineGoes("run") /\ UNCHANGED streaming
    /\ UNCHANGED <<outside, pending, cancelled, cancellation, claimed, started,
                   failure, gone, channel, writer, watcher, work>>

HeadersWritten ==
    /\ epc = "headed"
    /\ task' = [task EXCEPT !.headers = TRUE]
    /\ EngineGoes("run")
    /\ UNCHANGED <<outside, shared, channel, writer, watcher, session, status,
                   result, cause>>

HeadersFail ==
    /\ epc = "unheaded"
    /\ task' = MarkDisconnect(task)
    /\ FinishAs("Cancelled")
    /\ UNCHANGED <<outside, shared, channel, writer, watcher, session, cause>>

(* mark_closed_batch_peer, at the start of a quantum and between tokens. *)
PeerClosed ==
    /\ epc = "run"
    /\ cancellation \/ cancelled
    /\ task' = MarkDisconnect(task)
    /\ FinishAs("Cancelled")
    /\ UNCHANGED <<outside, shared, channel, writer, watcher, session, cause>>

(* The quantum reaches the runtime: a prefill chunk or a decode step. *)
StartCompute ==
    /\ epc = "run"
    /\ ~cancellation /\ ~cancelled
    /\ EngineGoes("computing")
    /\ UNCHANGED <<outside, shared, channel, writer, watcher, work>>

(* A prefill chunk leaves the prompt pending or ready. *)
PrefillChunk ==
    /\ epc = "computing" /\ ~task.prefilled
    /\ \E ready \in BOOLEAN : task' = [task EXCEPT !.prefilled = ready]
    /\ EngineGoes("loop")
    /\ UNCHANGED <<outside, shared, channel, writer, watcher, session, status,
                   result, cause>>

(* The runtime notices the cancellation inside its own loop. *)
RuntimeCancelled ==
    /\ epc = "computing"
    /\ cancellation \/ cancelled
    /\ FinishAs("Cancelled")
    /\ UNCHANGED <<outside, shared, channel, writer, watcher, task, session,
                   cause>>

(* The runtime fails; record_task_failure. *)
RuntimeFails ==
    /\ epc = "computing"
    /\ task' = [task EXCEPT !.failed = ~task.disconnected]
    /\ FinishAs("Cancelled")
    /\ UNCHANGED <<outside, shared, channel, writer, watcher, session, cause>>

(* stream_quantum_token: the boundary chunk, then the content that the     *)
(* stop matcher and the UTF-8 decoder let through, if any.                 *)
EmitBoundary ==
    /\ epc = "computing" /\ task.prefilled
    /\ task' = [task EXCEPT !.tokens = @ + 1]
    /\ IF task.kind = "stream"
       THEN WriteThen(<<"mark">>, "content", "token lost")
       ELSE EngineGoes("token")
    /\ UNCHANGED <<outside, shared, channel, writer, watcher, session, status,
                   result, cause>>

EmitContent ==
    /\ epc = "content"
    /\ \/ WriteThen(<<"text">>, "token", "content lost")
       \/ EngineGoes("token")
    /\ UNCHANGED <<outside, shared, channel, writer, watcher, work>>

(* A failed content write also looks for a recorded disconnect. *)
ContentLost ==
    /\ epc = "content lost"
    /\ task' = (IF failure = "None" /\ gone
                THEN [task EXCEPT !.disconnected = TRUE] ELSE task)
    /\ EngineGoes("token lost")
    /\ UNCHANGED <<outside, shared, channel, writer, watcher, session, status,
                   result, cause>>

(* The serial path records the lost token as a failure of the task, the    *)
(* batched path only stops the request.                                    *)
TokenLost ==
    /\ epc = "token lost"
    /\ \/ task' = [task EXCEPT !.failed = ~task.disconnected]
       \/ UNCHANGED task
    /\ FinishAs("Cancelled")
    /\ UNCHANGED <<outside, shared, channel, writer, watcher, session, cause>>

(* The quantum goes on, ends, or ends the request (end of text, stop       *)
(* sequence, no tokens left).                                              *)
TokenDone ==
    /\ epc = "token"
    /\ \/ FinishAs("Finished")
       \/ /\ task.tokens < MaxTokens
          /\ \E pc \in {"run", "loop"} : EngineGoes(pc)
          /\ UNCHANGED <<status, result>>
    /\ UNCHANGED <<outside, shared, channel, writer, watcher, task, session,
                   cause>>

-------------------------------------------------------------------------------
(* finish_scheduled_chat and finish_active. *)

(* write_stream_error: the end of a stream whose head was written, or a    *)
(* complete response.                                                      *)
ErrorResponse == IF task.headers THEN <<"error", "done", "end">> ELSE <<"full">>

SessionEnds(s, pc) == session' = s /\ EngineGoes(pc)

(* finish_deadline_task, finish_disconnected_task, finish_failed_task. The *)
(* session is settled before anything is written.                          *)
FinishDeadline ==
    /\ epc = "finish"
    /\ status = "DeadlineExpired" \/ task.expired
    /\ SessionEnds("discarded", "claim error")
    /\ UNCHANGED <<outside, shared, channel, writer, watcher, task, status,
                   result, cause>>

FinishDisconnected ==
    /\ epc = "finish"
    /\ status # "DeadlineExpired" /\ ~task.expired
    /\ task.disconnected
    /\ SessionEnds("discarded", "drop")
    /\ UNCHANGED <<outside, shared, channel, writer, watcher, task, status,
                   result, cause>>

FinishFailed ==
    /\ epc = "finish"
    /\ status # "DeadlineExpired" /\ ~task.expired /\ ~task.disconnected
    /\ task.failed
    /\ \E s \in {"retained", "discarded"} : SessionEnds(s, "claim error")
    /\ UNCHANGED <<outside, shared, channel, writer, watcher, task, status,
                   result, cause>>

(* finish_generated_task: the bytes the stop matcher still holds go out. *)
FinishGenerated ==
    /\ epc = "finish"
    /\ status # "DeadlineExpired"
    /\ ~task.expired /\ ~task.disconnected /\ ~task.failed
    /\ \/ /\ task.kind = "stream" /\ task.tokens > 0
          /\ WriteThen(<<"text">>, "flushed", "unflushed")
       \/ EngineGoes("flushed")
    /\ UNCHANGED <<outside, shared, channel, writer, watcher, work>>

FlushFails ==
    /\ epc = "unflushed"
    /\ SessionEnds("discarded", "drop")
    /\ result' = "ok"
    /\ UNCHANGED <<outside, shared, channel, writer, watcher, task, status, cause>>

StreamStillOpen ==
    /\ epc = "flushed"
    /\ IF cancelled
       THEN SessionEnds("discarded", "drop")
       ELSE EngineGoes("claim") /\ UNCHANGED session
    /\ UNCHANGED <<outside, shared, channel, writer, watcher, task, status,
                   result, cause>>

\* Mutant: the engine waits for the claim instead of giving way.
EngineWaitsForClaim ==
    /\ epc \in {"claim", "claim error"}
    /\ claimed = "none"
    /\ claimed' = "engine"
    /\ IF epc = "claim" THEN EngineGoes("finalize")
       ELSE WriteThen(ErrorResponse, "drop", "drop")
    /\ UNCHANGED <<outside, pending, cancelled, cancellation, started,
                   streaming, failure, gone, channel, writer, watcher, work>>

(* begin_terminal_response. *)
EngineClaims ==
    /\ epc \in {"claim", "claim error"}
    /\ IF claimed = "none"
       THEN /\ claimed' = "engine"
            /\ UNCHANGED session
            /\ IF epc = "claim" THEN EngineGoes("finalize")
               ELSE WriteThen(ErrorResponse, "drop", "drop")
       ELSE /\ UNCHANGED claimed
            /\ EngineGoes("drop")
            /\ session' = (IF epc = "claim" THEN "discarded" ELSE session)
    /\ UNCHANGED <<outside, pending, cancelled, cancellation, started,
                   streaming, failure, gone, channel, writer, watcher, task,
                   status, result, cause>>

(* finish_chat_response fails before anything is written: no prefill to    *)
(* report or no receipt (the session goes), or no archive (it stays).      *)
FinalizeFails ==
    /\ epc = "finalize"
    /\ session' \in {"discarded"} \cup
                    (IF task.prefilled /\ status = "Finished"
                     THEN {"retained"} ELSE {})
    /\ WriteThen(ErrorResponse, "drop", "drop")
    /\ UNCHANGED <<outside, shared, channel, writer, watcher, task, status,
                   result, cause>>

(* The session is persisted and kept, or discarded after a cancellation;   *)
(* the receipt is written; then the response.                              *)
FinalizeResponse ==
    /\ epc = "finalize" /\ task.prefilled
    /\ session' = (IF status = "Finished" THEN "kept" ELSE "discarded")
    /\ WriteThen(IF task.kind = "stream" THEN <<"final", "done", "end">>
                 ELSE <<"full">>,
                 "drop", "unwritten")
    /\ UNCHANGED <<outside, shared, channel, writer, watcher, task, status,
                   result, cause>>

\* Mutant: the session is kept for a response nobody received.
ResponseUnwrittenKeeps ==
    /\ epc = "unwritten"
    /\ EngineGoes("drop")
    /\ UNCHANGED <<outside, shared, channel, writer, watcher, work>>

(* finish_generated_response_error after a lost write: the session goes,   *)
(* and the error response fails as well, the output being cancelled.       *)
ResponseUnwritten ==
    /\ epc = "unwritten"
    /\ SessionEnds("discarded", "drop")
    /\ UNCHANGED <<outside, shared, channel, writer, watcher, task, status,
                   result, cause>>

(* finish_observation and active_terminal_cause. *)
TerminalCause ==
    LET lost == failure # "None" \/ (result # "ok" /\ ~task.disconnected)
        reset == failure = "None" /\ result # "ok" /\ gone /\ ~task.disconnected
    IN IF reset THEN "Disconnected"
       ELSE IF lost THEN "TransportFailure"
       ELSE IF task.failed THEN "ExecutionFailure"
       ELSE IF task.expired THEN "DeadlineExpired"
       ELSE IF task.client_cancelled THEN "ClientCancellation"
       ELSE IF task.disconnected THEN "Disconnected"
       ELSE CASE status = "DeadlineExpired" -> "DeadlineExpired"
              [] status = "Cancelled" -> "ClientCancellation"
              [] status = "Finished" -> "Completed"

(* The outcome is recorded and the last sink dropped. *)
DropSink ==
    /\ epc = "drop"
    /\ cause' = (IF task.kind = "plain" THEN "none" ELSE TerminalCause)
    /\ senders' = FALSE
    /\ EngineGoes("done")
    /\ UNCHANGED <<outside, shared, queue, wire, headLost, writer, watcher,
                   task, session, status, result>>

(* The serve loop sees the interrupt and drops the service. *)
LoopStops ==
    /\ stop
    /\ epc \in {"queued", "loop"}
    /\ senders' = FALSE
    /\ EngineGoes("done")
    /\ UNCHANGED <<outside, shared, queue, wire, headLost, writer, watcher,
                   work>>

Engine ==
    \/ Sink \/ AnswerPlain \/ AdmitChat
    \/ ExpireTask \/ CancelUnresponsive \/ TickBatch
    \/ WriteHeaders \/ HeadersWritten \/ HeadersFail
    \/ PeerClosed \/ StartCompute \/ PrefillChunk
    \/ RuntimeCancelled \/ RuntimeFails
    \/ EmitBoundary \/ EmitContent \/ ContentLost \/ TokenLost \/ TokenDone
    \/ FinishDeadline \/ FinishDisconnected \/ FinishFailed \/ FinishGenerated
    \/ FlushFails \/ StreamStillOpen \/ EngineClaims
    \/ FinalizeFails \/ FinalizeResponse \/ ResponseUnwritten
    \/ DropSink \/ LoopStops

Watcher == WatcherEnds \/ RecordClientDisconnect \/ CancelAfterDisconnect

Next ==
    \/ Tick \/ PeerChanges \/ Interrupt
    \/ Watcher \/ Writer \/ Engine \/ ClientCancels

Spec == Init /\ [][Next]_vars

(* The clock advances and the writer's thread runs: its waits are bounded  *)
(* by recv_timeout and the socket timeouts. Nothing is assumed of the      *)
(* engine, the watcher or the client.                                      *)
WriterFairness == WF_now(Tick) /\ WF_vars(Writer)
WriterSpec == Spec /\ WriterFairness

-------------------------------------------------------------------------------
(* Properties. *)

EnginePcs ==
    {"queued", "loop", "filter", "tick", "headers", "headed", "unheaded",
     "run", "computing", "content", "content lost", "token", "token lost",
     "finish", "unflushed", "flushed", "claim", "claim error", "finalize",
     "unwritten", "drop", "done", "open?", "reserve", "stamp", "send"}

(* Every variable keeps its type. *)
TypeOK ==
    /\ now \in 0..2 /\ peer \in {"open", "eof", "reset"} /\ stop \in BOOLEAN
    /\ pending \in Nat
    /\ cancelled \in BOOLEAN /\ cancellation \in BOOLEAN
    /\ claimed \in {"none", "engine", "writer"}
    /\ started \in BOOLEAN /\ streaming \in BOOLEAN
    /\ failure \in {"None", "EnqueueRejected", "SocketWrite"}
    /\ gone \in BOOLEAN
    /\ queue \in Seq(Frame) /\ senders \in BOOLEAN
    /\ wire \in Seq(Shown) /\ headLost \in BOOLEAN
    /\ wpc \in {"check", "mode", "poll", "wait", "write", "writing", "fallback",
                "grace", "claim", "respond", "cancel", "done"}
    /\ wnow \in 0..2 /\ wlimit \in 0..2 /\ wframe \in Frame
    /\ watch \in {"on", "noted", "off"} /\ watchStop \in BOOLEAN
    /\ epc \in EnginePcs
    /\ script \in Seq(Items) /\ eframe \in Frame
    /\ ret \in [ok : EnginePcs, err : EnginePcs]
    /\ task \in [kind : Kinds, headers : BOOLEAN, prefilled : BOOLEAN,
                 tokens : 0..MaxTokens, expired : BOOLEAN,
                 client_cancelled : BOOLEAN, disconnected : BOOLEAN,
                 failed : BOOLEAN]
    /\ session \in {"none", "leased", "kept", "retained", "discarded"}
    /\ status \in {"Queued", "Cancelled", "DeadlineExpired", "Finished"}
    /\ result \in {"ok", "closed", "overloaded"}
    /\ cause \in {"none", "Completed", "ClientCancellation", "DeadlineExpired",
                  "Disconnected", "ExecutionFailure", "TransportFailure"}

Sizes(frames) == [i \in 1..Len(frames) |-> Size(frames[i].item)]

QueuedBytes == SumOver(Sizes(queue), 1..Len(queue))

WriterBytes == IF wpc \in {"write", "writing"} THEN Size(wframe.item) ELSE 0

EngineBytes ==
    IF epc \in {"stamp", "send"} THEN Size(Head(script)) ELSE 0

(* pending_bytes is exactly the bytes between the engine and the socket:   *)
(* reserved, in the channel, or in the writer's hand. It is never more     *)
(* than max_output_bytes, whatever frames are refused or dropped late.     *)
(* Only a frame the socket refused stays counted; its writer is ending.    *)
PendingExact ==
    /\ pending <= MaxBytes
    /\ wpc \notin {"cancel", "done"} =>
         pending = QueuedBytes + WriterBytes + EngineBytes

Piece(frame) ==
    IF frame.item \in {"full", "end", "tail"} THEN "ending" ELSE "part"

Promise == INSTANCE TerminalResponse WITH
    plain <- task.kind = "plain",
    owner <- claimed,
    sent  <- [i \in 1..Len(wire) |-> Piece(wire[i])],
    open  <- wpc # "done",
    kept  <- session = "kept"

(* The client of a chat is sent at most one ending and nothing after it;   *)
(* the ending belongs to the party that won terminal_claimed; a session is *)
(* kept only for a response the engine owns. The response to any other     *)
(* request is sent unclaimed: one deadline response of the writer may      *)
(* still follow it, and nothing else.                                      *)
ImplementsPromise == Promise!Spec

ChunkAt(i) == wire[i].item \in Chunks

(* What a chat client reads is one HTTP response: a complete one, or a     *)
(* head, chunks and at most one last chunk; only its last frame may be     *)
(* torn. Frames queued after the deadline are dropped wherever they are,   *)
(* and only one such drop shows: a stream that loses its head. Of that     *)
(* stream the client reads nothing but terminal frames.                    *)
WireWellFormed ==
    task.kind # "plain" =>
        \A i \in 1..Len(wire) :
            /\ wire[i].item \in {"full", "head"} => i = 1
            /\ ChunkAt(i) => i > 1 \/ headLost
            /\ wire[i].item = "tail" => i > 1 /\ i = Len(wire)
            /\ wire[i].item = "torn" => i = Len(wire)
            /\ wire[i].item \in {"full", "end"} =>
                 \A j \in (i + 1)..Len(wire) : FALSE
            /\ headLost => wire[i].terminal \/ wire[i].item = "torn"

(* A session stays for the next request only if the engine owned the       *)
(* ending and every frame of the response was accepted for delivery. A     *)
(* deadline response on the wire means that it is gone.                    *)
KeptOnlyIfAnswered ==
    /\ (session = "kept" /\ epc = "done") => claimed = "engine" /\ result = "ok"
    /\ (claimed = "writer" /\ epc = "done") => session # "kept"
    /\ epc = "done" /\ ~stop => session # "leased"

(* The thread of a connection ends, and with it the connection's lease,    *)
(* even if the engine never runs again: the deadline response does not     *)
(* wait for the executor, and the grace period ends a claimed response     *)
(* that is not written.                                                    *)
ConnectionCloses == <>(wpc = "done")

(* If the engine's thread runs, the request's task ends and lets its sink  *)
(* and its session go, whatever the client and the writer do.              *)
TaskEnds == WF_vars(Engine) => <>(epc = "done")

=============================================================================

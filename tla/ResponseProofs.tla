---------------------------- MODULE ResponseProofs ----------------------------
(***************************************************************************)
(* Proofs about ResponsePath: its types, the bytes counted in              *)
(* pending_bytes, the shape of what the client reads, the session that is  *)
(* kept only for an answered request, and the refinement of                *)
(* TerminalResponse.                                                       *)
(***************************************************************************)
EXTENDS ResponsePath, SumsProofs, SequenceTheorems, TLAPS

-------------------------------------------------------------------------------
(* The inductive invariant. *)

SinkPcs == {"open?", "reserve", "stamp", "send"}

Return(ok, err) == [ok |-> ok, err |-> err]

(* What is left of a script whose last frame ends the response. *)
ErrorTails == {<<"error", "done", "end">>, <<"done", "end">>, <<"end">>}
FinalTails == {<<"final", "done", "end">>, <<"done", "end">>, <<"end">>}

(* Which writes the engine may be in the middle of, and where each goes on. *)
Writing(ok, err, scripts) ==
    epc \in SinkPcs /\ ret = Return(ok, err) /\ script \in scripts

WritingError    == Writing("drop", "drop", {<<"full">>} \cup ErrorTails)
WritingResponse == Writing("drop", "unwritten", {<<"full">>} \cup FinalTails)
WritingHead     == Writing("headed", "unheaded", {<<"head", "role">>, <<"role">>})
WritingMark     == Writing("content", "token lost", {<<"mark">>})
WritingText     == Writing("token", "content lost", {<<"text">>})
WritingRest     == Writing("flushed", "unflushed", {<<"text">>})

WriteInv ==
    /\ epc \in SinkPcs =>
         \/ WritingError \/ WritingResponse \/ WritingHead
         \/ WritingMark \/ WritingText \/ WritingRest
    /\ epc = "send" =>
         eframe.item = Head(script) /\ (eframe.terminal => claimed # "none")

(* How far the request is. *)
Serving ==
    \/ epc \in {"loop", "filter", "tick", "headers", "headed", "unheaded",
                "run", "computing", "content", "content lost", "token",
                "token lost"}
    \/ WritingHead \/ WritingMark \/ WritingText

Finishing == epc \in {"finish", "unflushed", "flushed", "claim"} \/ WritingRest

Settled == epc \in {"claim error", "drop"} \/ WritingError

Answering == WritingResponse \/ epc = "unwritten"

PhaseInv ==
    /\ task.kind = "plain" =>
         /\ \/ epc \in {"queued", "drop", "done"}
            \/ WritingError /\ script = <<"full">>
         /\ session = "none" /\ claimed # "engine" /\ ~streaming
    /\ epc = "queued" => session = "none"
    /\ epc \in {"queued"} \/ Serving \/ Finishing => claimed # "engine"
    /\ Serving \/ Finishing \/ epc = "finalize" => session = "leased"
    /\ (Settled /\ task.kind # "plain") =>
         session \in {"kept", "retained", "discarded"}
    /\ Answering => session \in {"kept", "discarded"}
    /\ (WritingError /\ task.kind # "plain") \/ epc = "finalize" \/ Answering =>
         claimed = "engine"
    /\ (Finishing \/ epc = "finalize" \/ Answering \/ Settled)
         /\ task.kind # "plain" => status # "Queued"
    /\ epc \in {"finish", "flushed", "claim", "finalize"} \/ WritingRest
         \/ WritingResponse => result = "ok"
    /\ session = "kept" =>
         /\ claimed = "engine"
         /\ Answering \/ (epc \in {"drop", "done"} /\ result = "ok")
    /\ (epc = "done" /\ session = "leased") => stop

(* The stream: its head comes before every chunk. *)
TaskInv ==
    /\ epc \in {"queued", "loop", "filter", "tick", "headers", "headed", "run",
                "computing"} \/ WritingHead => task.tokens < MaxTokens
    /\ task.kind # "stream" =>
         /\ ~task.headers /\ ~streaming
         /\ epc \in SinkPcs => script = <<"full">>
         /\ epc \notin {"headed", "content"}
    /\ task.headers \/ epc = "headed" \/ WritingHead => streaming
    /\ (task.kind = "stream" /\
          (\/ epc \in {"run", "computing", "content", "token"}
           \/ task.prefilled \/ task.tokens > 0)) => task.headers
    /\ (epc \in SinkPcs /\ Head(script) \in Chunks /\ ~WritingHead) => task.headers
    /\ WritingHead \/ epc \in {"headed", "unheaded"} => ~task.headers

(* The writer holds a frame; it still serves the channel. *)
Hand == wpc \in {"write", "writing"}
Live == wpc \notin {"cancel", "done"}

BytesInv ==
    /\ pending <= MaxBytes
    /\ pending >= QueuedBytes + WriterBytes + EngineBytes
    /\ Live => pending = QueuedBytes + WriterBytes + EngineBytes

(* Who owns the ending, and which frames carry its mark. *)
OwnerInv ==
    /\ claimed = "writer" => wpc \in {"respond", "cancel", "done"}
    /\ wpc = "respond" =>
         claimed = "writer" /\ \A i \in 1..Len(wire) : ~wire[i].terminal
    /\ \A i \in 1..Len(queue) : queue[i].terminal => claimed # "none"
    /\ Hand => (wframe.terminal => claimed # "none")
    /\ \A i \in 1..Len(wire) : wire[i].terminal => claimed # "none"

Ending == {"full", "end"}

EndSent ==
    \/ \E i \in 1..Len(queue) : queue[i].item \in Ending
    \/ Hand /\ wframe.item \in Ending
    \/ \E i \in 1..Len(wire) : wire[i].item \in Ending

(* The engine's last frame is behind everything else it sent. *)
EndInv ==
    Live =>
      /\ EndSent => /\ epc \in {"unwritten", "drop", "done"}
                    /\ task.kind # "plain" => claimed = "engine"
      /\ \A i \in 1..Len(queue) : queue[i].item \in Ending => i = Len(queue)
      /\ Hand /\ wframe.item \in Ending => queue = <<>>
      /\ (\E i \in 1..Len(wire) : wire[i].item \in Ending) => queue = <<>> /\ ~Hand
      /\ \A i \in 1..Len(wire) : wire[i].item \in Items
      /\ started <=> wire # <<>>

(* Something of the response has been handed over. *)
Out == headLost \/ wire # <<>> \/ Hand \/ queue # <<>>

Opening == {"full", "head"}

(* The first frame of the response opens it, and no other does. Once the   *)
(* writer has dropped the head, none does.                                 *)
HeadInv ==
    (Live /\ task.kind # "plain") =>
      /\ \A i \in 1..Len(queue) :
           queue[i].item \in Opening <=> i = 1 /\ ~Hand /\ wire = <<>> /\ ~headLost
      /\ Hand => (wframe.item \in Opening <=> wire = <<>> /\ ~headLost)
      /\ \A i \in 1..Len(wire) : wire[i].item \in Opening <=> i = 1 /\ ~headLost
      /\ (epc \in SinkPcs /\ Head(script) \in Opening) =>
           ~Out \/ (cancelled /\ epc = "open?")
      /\ (epc \in SinkPcs /\ Head(script) \notin Opening) => Out
      /\ task.headers \/ epc = "headed" => Out
      /\ ~task.headers => \/ ~Out \/ cancelled \/ epc \in SinkPcs
                          \/ epc \in {"headed", "unwritten", "drop", "done"}
      /\ Out /\ claimed # "engine" => streaming

(* A complete response of a chat is claimed before it is queued. *)
FullInv ==
    task.kind # "plain" =>
      /\ epc = "send" /\ eframe.item = "full" => eframe.terminal
      /\ \A i \in 1..Len(queue) : queue[i].item = "full" => queue[i].terminal

(* A plain request is answered by one complete response. *)
PlainInv ==
    task.kind = "plain" =>
      /\ \A i \in 1..Len(queue) : queue[i].item = "full"
      /\ Hand => wframe.item = "full"
      /\ Live => Len(wire) <= 1 /\ \A i \in 1..Len(wire) : wire[i].item = "full"

Late(frame) == frame.queued_at >= Deadline

(* Frames are queued in the order of their instants. *)
ClockInv ==
    /\ \A i, j \in 1..Len(queue) : i <= j /\ Late(queue[i]) => Late(queue[j])
    /\ \A i \in 1..Len(queue) : Late(queue[i]) => now >= Deadline
    /\ epc = "send" =>
         /\ Late(eframe) => now >= Deadline
         /\ \A i \in 1..Len(queue) : Late(queue[i]) => Late(eframe)

(* Behind a head that was dropped as late everything is late, so that only *)
(* terminal frames are shown.                                              *)
LostInv ==
    headLost /\ task.kind # "plain" =>
      /\ now >= Deadline
      /\ \A i \in 1..Len(queue) : Late(queue[i]) \/ queue[i].terminal
      /\ epc = "send" => Late(eframe) \/ eframe.terminal
      /\ Hand => wframe.terminal
      /\ \A i \in 1..Len(wire) : wire[i].terminal \/ wire[i].item = "torn"

ResponseInv ==
    /\ TypeOK /\ WriteInv /\ PhaseInv /\ TaskInv /\ BytesInv
    /\ OwnerInv /\ EndInv /\ HeadInv /\ FullInv /\ PlainInv
    /\ ClockInv /\ LostInv /\ WireWellFormed

-------------------------------------------------------------------------------
(* Scripts. *)

Scripts == {<<"full">>, <<"head", "role">>, <<"role">>, <<"mark">>, <<"text">>}
             \cup ErrorTails \cup FinalTails

\* What the engine writes next, and what is left after it.
LEMMA ScriptShape ==
  ASSUME NEW s \in Scripts
  PROVE  /\ s \in Seq(Items) /\ s # <<>> /\ Head(s) \in Items
         /\ Len(s) = 1 \/ Tail(s) \in Scripts
         /\ Head(s) \in Ending => Len(s) = 1
         /\ Head(s) = "full" <=> s = <<"full">>
         /\ Head(s) = "head" <=> s = <<"head", "role">>
         /\ s = <<"head", "role">> => Tail(s) = <<"role">> /\ Len(s) = 2
         /\ s = <<"role">> => Len(s) = 1
         /\ s \in ErrorTails /\ Len(s) # 1 => Tail(s) \in ErrorTails
         /\ s \in FinalTails /\ Len(s) # 1 => Tail(s) \in FinalTails
         /\ s \in ErrorTails \cup FinalTails => Head(s) \in Chunks
<1> USE DEF Scripts, ErrorTails, FinalTails, Items, Chunks, Ending
<1>1. CASE s = <<"full">>
  BY <1>1
<1>2. CASE s = <<"role">>
  BY <1>2
<1>3. CASE s = <<"mark">>
  BY <1>3
<1>4. CASE s = <<"text">>
  BY <1>4
<1>5. CASE s = <<"end">>
  BY <1>5
<1>6. CASE s = <<"head", "role">>
  BY <1>6
<1>7. CASE s = <<"done", "end">>
  BY <1>7
<1>8. CASE s = <<"error", "done", "end">>
  BY <1>8
<1>9. CASE s = <<"final", "done", "end">>
  BY <1>9
<1> QED
  BY <1>1, <1>2, <1>3, <1>4, <1>5, <1>6, <1>7, <1>8, <1>9

-------------------------------------------------------------------------------
(* What each party leaves alone. *)

\* The clock, the peer and the operator touch nothing else.
LEMMA WorldEffect ==
  ASSUME Tick \/ PeerChanges \/ Interrupt
  PROVE  /\ UNCHANGED <<shared, channel, writer, watcher, engine>>
         /\ stop => stop'
BY DEF Tick, PeerChanges, Interrupt

\* The watcher only raises flags.
LEMMA WatcherEffect ==
  ASSUME Watcher
  PROVE  /\ UNCHANGED <<outside, pending, claimed, started, streaming, failure,
                        channel, writer, engine>>
         /\ cancelled => cancelled'
BY DEF Watcher, WatcherEnds, RecordClientDisconnect, CancelAfterDisconnect,
       shared

\* The writer leaves the engine alone and takes only an unclaimed ending.
LEMMA WriterEffect ==
  ASSUME Writer
  PROVE  /\ UNCHANGED <<outside, streaming, gone, senders, engine>>
         /\ cancelled => cancelled'
         /\ \/ claimed' = claimed
            \/ claimed = "none" /\ claimed' = "writer"
<1> USE DEF shared, channel
<1>1. CASE NextFrame \/ ChooseWait \/ ReceiveNothing \/ BeginFrame
            \/ FallbackChecks \/ GraceEnds
  BY <1>1 DEF NextFrame, ChooseWait, ReceiveNothing, BeginFrame,
              FallbackChecks, GraceEnds
<1>2. CASE ReceiveFrame
  BY <1>2 DEF ReceiveFrame
<1>3. CASE FrameWritten \/ FrameFails
  BY <1>3 DEF FrameWritten, FrameFails
<1>4. CASE CancelOutput
  BY <1>4 DEF CancelOutput
<1>5. CASE WriterClaims
  BY <1>5 DEF WriterClaims
<1>6. CASE FallbackWritten \/ FallbackFails
  BY <1>6 DEF FallbackWritten, FallbackFails
<1> QED
  BY <1>1, <1>2, <1>3, <1>4, <1>5, <1>6 DEF Writer

(* The engine's steps outside of OutputSink::write. *)
Aside ==
    \/ AnswerPlain \/ AdmitChat \/ ExpireTask \/ CancelUnresponsive \/ TickBatch
    \/ WriteHeaders \/ HeadersWritten \/ HeadersFail
    \/ PeerClosed \/ StartCompute \/ PrefillChunk
    \/ RuntimeCancelled \/ RuntimeFails
    \/ EmitBoundary \/ EmitContent \/ ContentLost \/ TokenLost \/ TokenDone
    \/ FinishDeadline \/ FinishDisconnected \/ FinishFailed \/ FinishGenerated
    \/ FlushFails \/ StreamStillOpen \/ EngineClaims
    \/ FinalizeFails \/ FinalizeResponse \/ ResponseUnwritten
    \/ DropSink \/ LoopStops \/ ClientCancels

\* Next is made of the parties' steps.
LEMMA NextSplit ==
  ASSUME Next
  PROVE  (Tick \/ PeerChanges \/ Interrupt) \/ Watcher \/ Writer \/ Sink \/ Aside
BY DEF Next, Engine, Aside

\* Such a step changes no byte of the channel and no state of the writer.
LEMMA AsideEffect ==
  ASSUME Aside
  PROVE  /\ UNCHANGED <<outside, pending, started, failure, gone, queue, wire,
                        headLost, writer, watcher>>
         /\ cancelled => cancelled'
         /\ claimed' = claimed \/ (claimed = "none" /\ claimed' = "engine")
         /\ epc \notin SinkPcs
         /\ epc' \notin {"reserve", "stamp", "send"}
<1> USE DEF shared, channel, engine, work, EngineGoes, WriteThen, FinishAs,
            SessionEnds, SinkPcs
<1>1. CASE AnswerPlain
  BY <1>1 DEF AnswerPlain
<1>2. CASE AdmitChat
  BY <1>2 DEF AdmitChat
<1>3. CASE ExpireTask
  BY <1>3 DEF ExpireTask
<1>4. CASE CancelUnresponsive
  BY <1>4 DEF CancelUnresponsive
<1>5. CASE TickBatch
  BY <1>5 DEF TickBatch
<1>6. CASE WriteHeaders
  BY <1>6 DEF WriteHeaders
<1>7. CASE HeadersWritten
  BY <1>7 DEF HeadersWritten
<1>8. CASE HeadersFail
  BY <1>8 DEF HeadersFail
<1>9. CASE PeerClosed
  BY <1>9 DEF PeerClosed
<1>10. CASE StartCompute
  BY <1>10 DEF StartCompute
<1>11. CASE PrefillChunk
  BY <1>11 DEF PrefillChunk
<1>12. CASE RuntimeCancelled
  BY <1>12 DEF RuntimeCancelled
<1>13. CASE RuntimeFails
  BY <1>13 DEF RuntimeFails
<1>14. CASE EmitBoundary
  BY <1>14 DEF EmitBoundary
<1>15. CASE EmitContent
  BY <1>15 DEF EmitContent
<1>16. CASE ContentLost
  BY <1>16 DEF ContentLost
<1>17. CASE TokenLost
  BY <1>17 DEF TokenLost
<1>18. CASE TokenDone
  BY <1>18 DEF TokenDone
<1>19. CASE FinishDeadline
  BY <1>19 DEF FinishDeadline
<1>20. CASE FinishDisconnected
  BY <1>20 DEF FinishDisconnected
<1>21. CASE FinishFailed
  BY <1>21 DEF FinishFailed
<1>22. CASE FinishGenerated
  BY <1>22 DEF FinishGenerated
<1>23. CASE FlushFails
  BY <1>23 DEF FlushFails
<1>24. CASE StreamStillOpen
  BY <1>24 DEF StreamStillOpen
<1>25. CASE EngineClaims
  BY <1>25 DEF EngineClaims
<1>26. CASE FinalizeFails
  BY <1>26 DEF FinalizeFails
<1>27. CASE FinalizeResponse
  BY <1>27 DEF FinalizeResponse
<1>28. CASE ResponseUnwritten
  BY <1>28 DEF ResponseUnwritten
<1>29. CASE DropSink
  BY <1>29 DEF DropSink
<1>30. CASE LoopStops
  BY <1>30 DEF LoopStops
<1>31. CASE ClientCancels
  BY <1>31 DEF ClientCancels
<1> QED
  BY <1>1, <1>2, <1>3, <1>4, <1>5, <1>6, <1>7, <1>8, <1>9, <1>10, <1>11,
     <1>12, <1>13, <1>14, <1>15, <1>16, <1>17, <1>18, <1>19, <1>20, <1>21,
     <1>22, <1>23, <1>24, <1>25, <1>26, <1>27, <1>28, <1>29, <1>30, <1>31
     DEF Aside

\* OutputSink::write changes the queue, the bytes, the flags and the result.
LEMMA SinkEffect ==
  ASSUME Sink
  PROVE  /\ UNCHANGED <<outside, cancellation, claimed, started, streaming,
                        gone, senders, wire, headLost, writer, watcher, task,
                        session, status, cause>>
         /\ epc \in SinkPcs
         /\ cancelled => cancelled'
BY DEF Sink, SinkChecks, SinkReserves, SinkStamps, SinkSends, shared, channel,
       work, SinkPcs

-------------------------------------------------------------------------------
(* Types. *)

TaskType ==
    [kind : Kinds, headers : BOOLEAN, prefilled : BOOLEAN,
     tokens : 0..MaxTokens, expired : BOOLEAN, client_cancelled : BOOLEAN,
     disconnected : BOOLEAN, failed : BOOLEAN]

EngineTypes ==
    /\ epc \in EnginePcs /\ script \in Seq(Items) /\ eframe \in Frame
    /\ ret \in [ok : EnginePcs, err : EnginePcs]

WorkTypes ==
    /\ session \in {"none", "leased", "kept", "retained", "discarded"}
    /\ status \in {"Queued", "Cancelled", "DeadlineExpired", "Finished"}
    /\ result \in {"ok", "closed", "overloaded"}

\* The empty frame is a frame.
LEMMA NoFrameType == NoFrame \in Frame
BY DEF NoFrame, Frame, Items

\* Going on outside of a write keeps the types.
LEMMA GoesTypes ==
  ASSUME NEW pc \in EnginePcs, EngineGoes(pc)
  PROVE  EngineTypes'
<1>1. NoReturn \in [ok : EnginePcs, err : EnginePcs]
  BY DEF NoReturn, EnginePcs
<1>2. <<>> \in Seq(Items)
  OBVIOUS
<1> QED
  BY <1>1, <1>2, NoFrameType DEF EngineGoes, EngineTypes

\* So does beginning a write.
LEMMA WriteTypes ==
  ASSUME NEW s \in Scripts, NEW ok \in EnginePcs, NEW err \in EnginePcs,
         WriteThen(s, ok, err)
  PROVE  EngineTypes'
<1>1. s \in Seq(Items)
  BY ScriptShape
<1>2. "open?" \in EnginePcs
  BY DEF EnginePcs
<1> QED
  BY <1>1, <1>2, NoFrameType DEF WriteThen, EngineTypes

\* A task stays a task: only decoding counts a token, and there one is left.
LEMMA AsideTask ==
  ASSUME task \in TaskType, epc = "computing" => task.tokens < MaxTokens, Aside
  PROVE  task' \in TaskType
<1> USE BoundsAssumption DEF TaskType, work
<1>1. CASE AnswerPlain
  BY <1>1 DEF AnswerPlain
<1>2. CASE AdmitChat
  BY <1>2 DEF AdmitChat
<1>3. CASE ExpireTask
  BY <1>3 DEF ExpireTask
<1>4. CASE CancelUnresponsive
  BY <1>4 DEF CancelUnresponsive, MarkDisconnect
<1>5. CASE TickBatch
  BY <1>5 DEF TickBatch
<1>6. CASE WriteHeaders
  BY <1>6 DEF WriteHeaders
<1>7. CASE HeadersWritten
  BY <1>7 DEF HeadersWritten
<1>8. CASE HeadersFail
  BY <1>8 DEF HeadersFail, MarkDisconnect
<1>9. CASE PeerClosed
  BY <1>9 DEF PeerClosed, MarkDisconnect
<1>10. CASE StartCompute
  BY <1>10 DEF StartCompute
<1>11. CASE PrefillChunk
  BY <1>11 DEF PrefillChunk
<1>12. CASE RuntimeCancelled
  BY <1>12 DEF RuntimeCancelled
<1>13. CASE RuntimeFails
  BY <1>13 DEF RuntimeFails
<1>14. CASE EmitBoundary
  <2>1. task' = [task EXCEPT !.tokens = task.tokens + 1]
    BY <1>14 DEF EmitBoundary
  <2> DEFINE n == task.tokens + 1
  <2>2. epc = "computing"
    BY <1>14, Zenon DEF EmitBoundary
  <2>3. n \in 0..MaxTokens
    <3>1. task.tokens \in 0..MaxTokens
      OBVIOUS
    <3> QED
      BY <2>2, <3>1
  <2>4. task' = [task EXCEPT !.tokens = n]
    BY <2>1
  <2> HIDE DEF n
  <2> QED
    BY <2>3, <2>4
<1>15. CASE EmitContent
  BY <1>15 DEF EmitContent
<1>16. CASE ContentLost
  BY <1>16 DEF ContentLost
<1>17. CASE TokenLost
  BY <1>17 DEF TokenLost
<1>18. CASE TokenDone
  BY <1>18 DEF TokenDone
<1>19. CASE FinishDeadline
  BY <1>19 DEF FinishDeadline
<1>20. CASE FinishDisconnected
  BY <1>20 DEF FinishDisconnected
<1>21. CASE FinishFailed
  BY <1>21 DEF FinishFailed
<1>22. CASE FinishGenerated
  BY <1>22 DEF FinishGenerated
<1>23. CASE FlushFails
  BY <1>23 DEF FlushFails
<1>24. CASE StreamStillOpen
  BY <1>24 DEF StreamStillOpen
<1>25. CASE EngineClaims
  BY <1>25 DEF EngineClaims, ErrorResponse
<1>26. CASE FinalizeFails
  BY <1>26 DEF FinalizeFails, ErrorResponse
<1>27. CASE FinalizeResponse
  BY <1>27 DEF FinalizeResponse
<1>28. CASE ResponseUnwritten
  BY <1>28 DEF ResponseUnwritten
<1>29. CASE DropSink
  BY <1>29 DEF DropSink, TerminalCause
<1>30. CASE LoopStops
  BY <1>30 DEF LoopStops
<1>31. CASE ClientCancels
  BY <1>31 DEF ClientCancels
<1> QED
  BY <1>1, <1>2, <1>3, <1>4, <1>5, <1>6, <1>7, <1>8, <1>9, <1>10, <1>11,
     <1>12, <1>13, <1>14, <1>15, <1>16, <1>17, <1>18, <1>19, <1>20, <1>21,
     <1>22, <1>23, <1>24, <1>25, <1>26, <1>27, <1>28, <1>29, <1>30, <1>31
     DEF Aside

\* The outcome of a request keeps its type.
LEMMA AsideWork ==
  ASSUME WorkTypes, Aside
  PROVE  WorkTypes'
<1> USE DEF WorkTypes, work, FinishAs, SessionEnds
<1>1. CASE AnswerPlain
  BY <1>1 DEF AnswerPlain
<1>2. CASE AdmitChat
  BY <1>2 DEF AdmitChat
<1>3. CASE ExpireTask
  BY <1>3 DEF ExpireTask
<1>4. CASE CancelUnresponsive
  BY <1>4 DEF CancelUnresponsive, MarkDisconnect
<1>5. CASE TickBatch
  BY <1>5 DEF TickBatch
<1>6. CASE WriteHeaders
  BY <1>6 DEF WriteHeaders
<1>7. CASE HeadersWritten
  BY <1>7 DEF HeadersWritten
<1>8. CASE HeadersFail
  BY <1>8 DEF HeadersFail, MarkDisconnect
<1>9. CASE PeerClosed
  BY <1>9 DEF PeerClosed, MarkDisconnect
<1>10. CASE StartCompute
  BY <1>10 DEF StartCompute
<1>11. CASE PrefillChunk
  BY <1>11 DEF PrefillChunk
<1>12. CASE RuntimeCancelled
  BY <1>12 DEF RuntimeCancelled
<1>13. CASE RuntimeFails
  BY <1>13 DEF RuntimeFails
<1>14. CASE EmitBoundary
  BY <1>14, Zenon DEF EmitBoundary
<1>15. CASE EmitContent
  BY <1>15 DEF EmitContent
<1>16. CASE ContentLost
  BY <1>16 DEF ContentLost
<1>17. CASE TokenLost
  BY <1>17 DEF TokenLost
<1>18. CASE TokenDone
  BY <1>18 DEF TokenDone
<1>19. CASE FinishDeadline
  BY <1>19 DEF FinishDeadline
<1>20. CASE FinishDisconnected
  BY <1>20 DEF FinishDisconnected
<1>21. CASE FinishFailed
  BY <1>21 DEF FinishFailed
<1>22. CASE FinishGenerated
  BY <1>22 DEF FinishGenerated
<1>23. CASE FlushFails
  BY <1>23 DEF FlushFails
<1>24. CASE StreamStillOpen
  BY <1>24 DEF StreamStillOpen
<1>25. CASE EngineClaims
  BY <1>25 DEF EngineClaims, ErrorResponse
<1>26. CASE FinalizeFails
  BY <1>26 DEF FinalizeFails, ErrorResponse
<1>27. CASE FinalizeResponse
  BY <1>27 DEF FinalizeResponse
<1>28. CASE ResponseUnwritten
  BY <1>28 DEF ResponseUnwritten
<1>29. CASE DropSink
  BY <1>29 DEF DropSink, TerminalCause
<1>30. CASE LoopStops
  BY <1>30 DEF LoopStops
<1>31. CASE ClientCancels
  BY <1>31 DEF ClientCancels
<1> QED
  BY <1>1, <1>2, <1>3, <1>4, <1>5, <1>6, <1>7, <1>8, <1>9, <1>10, <1>11,
     <1>12, <1>13, <1>14, <1>15, <1>16, <1>17, <1>18, <1>19, <1>20, <1>21,
     <1>22, <1>23, <1>24, <1>25, <1>26, <1>27, <1>28, <1>29, <1>30, <1>31
     DEF Aside

(* Where a step outside of a write takes the engine. *)
Goes == epc' \in EnginePcs \ SinkPcs /\ script' = <<>> /\ ret' = NoReturn

Begins ==
    /\ epc' = "open?"
    /\ \/ WritingError' \/ WritingResponse' \/ WritingHead'
       \/ WritingMark' \/ WritingText' \/ WritingRest'

\* A step outside of a write goes on, or begins a write.
LEMMA AsideMoves ==
  ASSUME Aside
  PROVE  eframe' = NoFrame /\ (Goes \/ Begins)
<1> USE DEF Goes, Begins, EngineGoes, WriteThen, FinishAs, SessionEnds,
            WritingError, WritingResponse, WritingHead, WritingMark,
            WritingText, WritingRest, Writing, Return, ErrorTails, FinalTails,
            SinkPcs, EnginePcs
<1>1. CASE AnswerPlain
  BY <1>1 DEF AnswerPlain
<1>2. CASE AdmitChat
  BY <1>2 DEF AdmitChat
<1>3. CASE ExpireTask
  BY <1>3 DEF ExpireTask
<1>4. CASE CancelUnresponsive
  BY <1>4 DEF CancelUnresponsive, MarkDisconnect
<1>5. CASE TickBatch
  BY <1>5 DEF TickBatch
<1>6. CASE WriteHeaders
  BY <1>6 DEF WriteHeaders
<1>7. CASE HeadersWritten
  BY <1>7 DEF HeadersWritten
<1>8. CASE HeadersFail
  BY <1>8 DEF HeadersFail, MarkDisconnect
<1>9. CASE PeerClosed
  BY <1>9 DEF PeerClosed, MarkDisconnect
<1>10. CASE StartCompute
  BY <1>10 DEF StartCompute
<1>11. CASE PrefillChunk
  BY <1>11 DEF PrefillChunk
<1>12. CASE RuntimeCancelled
  BY <1>12 DEF RuntimeCancelled
<1>13. CASE RuntimeFails
  BY <1>13 DEF RuntimeFails
<1>14. CASE EmitBoundary
  BY <1>14 DEF EmitBoundary
<1>15. CASE EmitContent
  BY <1>15 DEF EmitContent
<1>16. CASE ContentLost
  BY <1>16 DEF ContentLost
<1>17. CASE TokenLost
  BY <1>17 DEF TokenLost
<1>18. CASE TokenDone
  BY <1>18 DEF TokenDone
<1>19. CASE FinishDeadline
  BY <1>19 DEF FinishDeadline
<1>20. CASE FinishDisconnected
  BY <1>20 DEF FinishDisconnected
<1>21. CASE FinishFailed
  BY <1>21 DEF FinishFailed
<1>22. CASE FinishGenerated
  BY <1>22 DEF FinishGenerated
<1>23. CASE FlushFails
  BY <1>23 DEF FlushFails
<1>24. CASE StreamStillOpen
  BY <1>24 DEF StreamStillOpen
<1>25. CASE EngineClaims
  BY <1>25 DEF EngineClaims, ErrorResponse
<1>26. CASE FinalizeFails
  BY <1>26 DEF FinalizeFails, ErrorResponse
<1>27. CASE FinalizeResponse
  BY <1>27 DEF FinalizeResponse
<1>28. CASE ResponseUnwritten
  BY <1>28 DEF ResponseUnwritten
<1>29. CASE DropSink
  BY <1>29 DEF DropSink, TerminalCause
<1>30. CASE LoopStops
  BY <1>30 DEF LoopStops
<1>31. CASE ClientCancels
  BY <1>31 DEF ClientCancels
<1> QED
  BY <1>1, <1>2, <1>3, <1>4, <1>5, <1>6, <1>7, <1>8, <1>9, <1>10, <1>11,
     <1>12, <1>13, <1>14, <1>15, <1>16, <1>17, <1>18, <1>19, <1>20, <1>21,
     <1>22, <1>23, <1>24, <1>25, <1>26, <1>27, <1>28, <1>29, <1>30, <1>31
     DEF Aside

FlagTypes ==
    /\ cancelled \in BOOLEAN /\ cancellation \in BOOLEAN
    /\ streaming \in BOOLEAN /\ senders \in BOOLEAN

CauseType ==
    cause \in {"none", "Completed", "ClientCancellation", "DeadlineExpired",
               "Disconnected", "ExecutionFailure", "TransportFailure"}

\* The flags stay Boolean.
LEMMA AsideFlags ==
  ASSUME FlagTypes, Aside
  PROVE  FlagTypes'
<1> USE DEF FlagTypes, shared, channel
<1>1. CASE AnswerPlain
  BY <1>1 DEF AnswerPlain
<1>2. CASE AdmitChat
  BY <1>2 DEF AdmitChat
<1>3. CASE ExpireTask
  BY <1>3 DEF ExpireTask
<1>4. CASE CancelUnresponsive
  BY <1>4 DEF CancelUnresponsive, MarkDisconnect
<1>5. CASE TickBatch
  BY <1>5 DEF TickBatch
<1>6. CASE WriteHeaders
  BY <1>6 DEF WriteHeaders
<1>7. CASE HeadersWritten
  BY <1>7 DEF HeadersWritten
<1>8. CASE HeadersFail
  BY <1>8 DEF HeadersFail, MarkDisconnect
<1>9. CASE PeerClosed
  BY <1>9 DEF PeerClosed, MarkDisconnect
<1>10. CASE StartCompute
  BY <1>10 DEF StartCompute
<1>11. CASE PrefillChunk
  BY <1>11 DEF PrefillChunk
<1>12. CASE RuntimeCancelled
  BY <1>12 DEF RuntimeCancelled
<1>13. CASE RuntimeFails
  BY <1>13 DEF RuntimeFails
<1>14. CASE EmitBoundary
  BY <1>14 DEF EmitBoundary
<1>15. CASE EmitContent
  BY <1>15 DEF EmitContent
<1>16. CASE ContentLost
  BY <1>16 DEF ContentLost
<1>17. CASE TokenLost
  BY <1>17 DEF TokenLost
<1>18. CASE TokenDone
  BY <1>18 DEF TokenDone
<1>19. CASE FinishDeadline
  BY <1>19 DEF FinishDeadline
<1>20. CASE FinishDisconnected
  BY <1>20 DEF FinishDisconnected
<1>21. CASE FinishFailed
  BY <1>21 DEF FinishFailed
<1>22. CASE FinishGenerated
  BY <1>22 DEF FinishGenerated
<1>23. CASE FlushFails
  BY <1>23 DEF FlushFails
<1>24. CASE StreamStillOpen
  BY <1>24 DEF StreamStillOpen
<1>25. CASE EngineClaims
  BY <1>25 DEF EngineClaims, ErrorResponse
<1>26. CASE FinalizeFails
  BY <1>26 DEF FinalizeFails, ErrorResponse
<1>27. CASE FinalizeResponse
  BY <1>27 DEF FinalizeResponse
<1>28. CASE ResponseUnwritten
  BY <1>28 DEF ResponseUnwritten
<1>29. CASE DropSink
  BY <1>29 DEF DropSink, TerminalCause
<1>30. CASE LoopStops
  BY <1>30 DEF LoopStops
<1>31. CASE ClientCancels
  BY <1>31 DEF ClientCancels
<1> QED
  BY <1>1, <1>2, <1>3, <1>4, <1>5, <1>6, <1>7, <1>8, <1>9, <1>10, <1>11,
     <1>12, <1>13, <1>14, <1>15, <1>16, <1>17, <1>18, <1>19, <1>20, <1>21,
     <1>22, <1>23, <1>24, <1>25, <1>26, <1>27, <1>28, <1>29, <1>30, <1>31
     DEF Aside

\* The recorded cause keeps its type: a task that ends has a status.
LEMMA AsideCause ==
  ASSUME CauseType, WorkTypes, Aside,
         epc = "drop" /\ task.kind # "plain" => status # "Queued"
  PROVE  CauseType'
<1>1. CASE DropSink
  BY <1>1 DEF CauseType, WorkTypes, DropSink, TerminalCause
<1>2. CASE ~DropSink
  <2>1. cause' = cause
    <3> USE DEF work
    <3>1. CASE AnswerPlain
      BY <3>1 DEF AnswerPlain
    <3>2. CASE AdmitChat
      BY <3>2 DEF AdmitChat
    <3>3. CASE ExpireTask
      BY <3>3 DEF ExpireTask
    <3>4. CASE CancelUnresponsive
      BY <3>4 DEF CancelUnresponsive, MarkDisconnect
    <3>5. CASE TickBatch
      BY <3>5 DEF TickBatch
    <3>6. CASE WriteHeaders
      BY <3>6 DEF WriteHeaders
    <3>7. CASE HeadersWritten
      BY <3>7 DEF HeadersWritten
    <3>8. CASE HeadersFail
      BY <3>8 DEF HeadersFail, MarkDisconnect
    <3>9. CASE PeerClosed
      BY <3>9 DEF PeerClosed, MarkDisconnect
    <3>10. CASE StartCompute
      BY <3>10 DEF StartCompute
    <3>11. CASE PrefillChunk
      BY <3>11 DEF PrefillChunk
    <3>12. CASE RuntimeCancelled
      BY <3>12 DEF RuntimeCancelled
    <3>13. CASE RuntimeFails
      BY <3>13 DEF RuntimeFails
    <3>14. CASE EmitBoundary
      BY <3>14 DEF EmitBoundary
    <3>15. CASE EmitContent
      BY <3>15 DEF EmitContent
    <3>16. CASE ContentLost
      BY <3>16 DEF ContentLost
    <3>17. CASE TokenLost
      BY <3>17 DEF TokenLost
    <3>18. CASE TokenDone
      BY <3>18 DEF TokenDone
    <3>19. CASE FinishDeadline
      BY <3>19 DEF FinishDeadline
    <3>20. CASE FinishDisconnected
      BY <3>20 DEF FinishDisconnected
    <3>21. CASE FinishFailed
      BY <3>21 DEF FinishFailed
    <3>22. CASE FinishGenerated
      BY <3>22 DEF FinishGenerated
    <3>23. CASE FlushFails
      BY <3>23 DEF FlushFails
    <3>24. CASE StreamStillOpen
      BY <3>24 DEF StreamStillOpen
    <3>25. CASE EngineClaims
      BY <3>25 DEF EngineClaims, ErrorResponse
    <3>26. CASE FinalizeFails
      BY <3>26 DEF FinalizeFails, ErrorResponse
    <3>27. CASE FinalizeResponse
      BY <3>27 DEF FinalizeResponse
    <3>28. CASE ResponseUnwritten
      BY <3>28 DEF ResponseUnwritten
    <3>29. CASE LoopStops
      BY <3>29 DEF LoopStops
    <3>30. CASE ClientCancels
      BY <3>30 DEF ClientCancels
    <3> QED
      BY <3>1, <3>2, <3>3, <3>4, <3>5, <3>6, <3>7, <3>8, <3>9, <3>10, <3>11,
         <3>12, <3>13, <3>14, <3>15, <3>16, <3>17, <3>18, <3>19, <3>20, <3>21,
         <3>22, <3>23, <3>24, <3>25, <3>26, <3>27, <3>28, <3>29, <3>30, <1>2 DEF
         Aside
  <2> QED
    BY <2>1 DEF CauseType
<1> QED
  BY <1>1, <1>2

\* TypeOK, by the parts the engine changes.
LEMMA AsideTypes ==
  ASSUME ResponseInv, Aside
  PROVE  TypeOK'
<1>1. EngineTypes'
  <2>1. CASE Goes
    <3>1. NoReturn \in [ok : EnginePcs, err : EnginePcs]
      BY DEF NoReturn, EnginePcs
    <3>2. <<>> \in Seq(Items)
      OBVIOUS
    <3> QED
      BY <2>1, <3>1, <3>2, AsideMoves, NoFrameType DEF Goes, EngineTypes
  <2>2. CASE Begins
    <3>1. script' \in Scripts
      BY <2>2 DEF Begins, Scripts, WritingError, WritingResponse, WritingHead,
                  WritingMark, WritingText, WritingRest, Writing, ErrorTails,
                  FinalTails
    <3>2. script' \in Seq(Items)
      BY <3>1, ScriptShape
    <3>3. ret' \in [ok : EnginePcs, err : EnginePcs]
      <4>1. \E ok, err \in EnginePcs : ret' = Return(ok, err)
        BY <2>2 DEF Begins, WritingError, WritingResponse, WritingHead,
                    WritingMark, WritingText, WritingRest, Writing, EnginePcs
      <4> QED
        BY <4>1 DEF Return
    <3>4. epc' \in EnginePcs
      BY <2>2 DEF Begins, EnginePcs
    <3> QED
      BY <3>2, <3>3, <3>4, AsideMoves, NoFrameType DEF EngineTypes
  <2> QED
    BY <2>1, <2>2, AsideMoves
<1>2. task' \in TaskType
  <2>1. task \in TaskType /\ (epc = "computing" => task.tokens < MaxTokens)
    BY DEF ResponseInv, TypeOK, TaskInv, TaskType
  <2> QED
    BY <2>1, AsideTask
<1>3. WorkTypes'
  BY AsideWork DEF ResponseInv, TypeOK, WorkTypes
<1>4. FlagTypes'
  BY AsideFlags DEF ResponseInv, TypeOK, FlagTypes
<1>5. CauseType'
  <2>1. epc = "drop" /\ task.kind # "plain" => status # "Queued"
    BY DEF ResponseInv, PhaseInv, Settled
  <2> QED
    BY <2>1, AsideCause DEF ResponseInv, TypeOK, WorkTypes, CauseType
<1>6. /\ UNCHANGED <<outside, pending, started, failure, gone, queue, wire,
                     headLost, writer, watcher>>
      /\ claimed' \in {claimed, "engine"}
  BY AsideEffect
<1> QED
  BY <1>1, <1>2, <1>3, <1>4, <1>5, <1>6
     DEF ResponseInv, TypeOK, EngineTypes, TaskType, WorkTypes, FlagTypes,
         CauseType, outside, writer, watcher
(* Where a step of a write takes the engine. *)
SinkStays ==
    /\ epc' \in {"reserve", "stamp", "send"} /\ UNCHANGED <<script, ret, result>>
    /\ \/ epc = "open?" /\ epc' = "reserve" /\ ~cancelled /\ UNCHANGED eframe
       \/ epc = "reserve" /\ epc' = "stamp" /\ UNCHANGED eframe
       \/ epc = "stamp" /\ SinkStamps

SinkContinues ==
    /\ epc = "send" /\ Len(script) # 1
    /\ epc' = "open?" /\ script' = Tail(script) /\ ret' = ret
    /\ eframe' = NoFrame /\ UNCHANGED result

SinkSucceeds ==
    /\ epc = "send" /\ Len(script) = 1
    /\ EngineGoes(ret.ok) /\ UNCHANGED result

SinkFails ==
    cancelled' /\ EngineGoes(ret.err) /\ result' \in {"closed", "overloaded"}

\* What is being written is one of the scripts.
LEMMA SinkScript ==
  ASSUME ResponseInv, epc \in SinkPcs
  PROVE  /\ script \in Scripts
         /\ ret = Return(ret.ok, ret.err)
         /\ ret.ok \in EnginePcs \ SinkPcs /\ ret.err \in EnginePcs \ SinkPcs
<1>0. \/ WritingError \/ WritingResponse \/ WritingHead
      \/ WritingMark \/ WritingText \/ WritingRest
  BY DEF ResponseInv, WriteInv
<1> USE DEF WritingError, WritingResponse, WritingHead, WritingMark,
            WritingText, WritingRest, Writing
<1>1. script \in Scripts
  BY <1>0 DEF Scripts, ErrorTails, FinalTails
<1>2. ret = Return(ret.ok, ret.err)
  BY <1>0 DEF Return
<1>3. ret.ok \in EnginePcs \ SinkPcs /\ ret.err \in EnginePcs \ SinkPcs
  <2>1. \E ok, err \in EnginePcs \ SinkPcs : ret = Return(ok, err)
    BY <1>0 DEF EnginePcs, SinkPcs
  <2> QED
    BY <2>1 DEF Return
<1> QED
  BY <1>1, <1>2, <1>3

\* A write stays at its frame, continues with the next, succeeds or fails.
LEMMA SinkMoves ==
  ASSUME ResponseInv, Sink
  PROVE  SinkStays \/ SinkContinues \/ SinkSucceeds \/ SinkFails
<1>1. epc \in SinkPcs
  BY SinkEffect
<1>2. [ok |-> ret.ok, err |-> ret.err] = ret
  BY <1>1, SinkScript DEF Return
<1>3. CASE SinkChecks
  <2>1. cancelled' = cancelled
    BY <1>3 DEF SinkChecks, shared
  <2> QED
    BY <1>3, <2>1 DEF SinkChecks, SinkGoes, SinkStays, SinkFails
<1>4. CASE SinkReserves
  BY <1>4 DEF SinkReserves, SinkGoes, SinkStays, SinkFails
<1>5. CASE SinkStamps
  BY <1>5 DEF SinkStamps, SinkStays, work
<1>6. CASE SinkSends
  BY <1>6, <1>2 DEF SinkSends, WriteThen, SinkContinues, SinkSucceeds, SinkFails
<1> QED
  BY <1>3, <1>4, <1>5, <1>6 DEF Sink

\* The engine's types after a step of a write.
LEMMA SinkEngineTypes ==
  ASSUME ResponseInv, Sink
  PROVE  EngineTypes'
<1>1. /\ epc \in SinkPcs /\ script \in Scripts
      /\ ret.ok \in EnginePcs /\ ret.err \in EnginePcs
  BY SinkEffect, SinkScript
<1>2. /\ script \in Seq(Items) /\ Head(script) \in Items
      /\ Len(script) # 1 => Tail(script) \in Scripts
  BY <1>1, ScriptShape
<1>3. ret \in [ok : EnginePcs, err : EnginePcs] /\ eframe \in Frame
  BY DEF ResponseInv, TypeOK
<1>4. CASE SinkStays
  <2>1. epc' \in EnginePcs
    BY <1>4 DEF SinkStays, EnginePcs
  <2>2. eframe' \in Frame
    <3>1. now \in 0..2
      BY DEF ResponseInv, TypeOK
    <3> DEFINE t == claimed # "none"
    <3>2. t \in BOOLEAN
      OBVIOUS
    <3>3. \/ eframe' = eframe
          \/ eframe' = [item |-> Head(script), terminal |-> t, queued_at |-> now]
      BY <1>4 DEF SinkStays, SinkStamps
    <3> HIDE DEF t
    <3> QED
      BY <3>1, <3>2, <3>3, <1>2, <1>3 DEF Frame
  <2> QED
    BY <2>1, <2>2, <1>2, <1>3, <1>4 DEF SinkStays, EngineTypes
<1>5. CASE SinkContinues
  <2>1. Tail(script) \in Seq(Items)
    BY <1>2, <1>5, ScriptShape DEF SinkContinues
  <2>2. "open?" \in EnginePcs
    BY DEF EnginePcs
  <2> QED
    BY <2>1, <2>2, <1>3, <1>5, NoFrameType DEF SinkContinues, EngineTypes
<1>6. CASE SinkSucceeds
  BY <1>1, <1>6, GoesTypes DEF SinkSucceeds
<1>7. CASE SinkFails
  BY <1>1, <1>7, GoesTypes DEF SinkFails
<1> QED
  BY <1>4, <1>5, <1>6, <1>7, SinkMoves
-------------------------------------------------------------------------------
(* The bytes of the frames in the channel. *)

BytesOf(q) == SumOver(Sizes(q), 1..Len(q))

\* A frame takes one or two units.
LEMMA SizeIsNat ==
  ASSUME NEW item
  PROVE  Size(item) \in Nat \ {0}
BY DEF Size

\* The bytes of the frames are a number; none are in an empty channel.
LEMMA BytesAreNat ==
  ASSUME NEW q \in Seq(Frame)
  PROVE  /\ BytesOf(q) \in Nat
         /\ IsFiniteSet(1..Len(q))
         /\ \A i \in 1..Len(q) : Sizes(q)[i] = Size(q[i].item) /\ Sizes(q)[i] \in Nat
<1>1. Len(q) \in Nat
  OBVIOUS
<1>2. IsFiniteSet(1..Len(q))
  BY <1>1, RangeSize
<1>3. \A i \in 1..Len(q) : Sizes(q)[i] = Size(q[i].item) /\ Sizes(q)[i] \in Nat
  BY SizeIsNat DEF Sizes
<1> QED
  BY <1>2, <1>3, SumIsNat DEF BytesOf

\* A frame that enters the channel adds its bytes.
LEMMA BytesOfAppend ==
  ASSUME NEW q \in Seq(Frame), NEW e \in Frame
  PROVE  BytesOf(Append(q, e)) = BytesOf(q) + Size(e.item)
<1> DEFINE r == Append(q, e)
           n == Len(q)
<1>1. /\ r \in Seq(Frame) /\ n \in Nat /\ Len(r) = n + 1 /\ r[n + 1] = e
      /\ \A i \in 1..n : r[i] = q[i]
  OBVIOUS
<1> HIDE DEF r, n
<1>2. /\ IsFiniteSet(1..n) /\ IsFiniteSet({n + 1})
      /\ 1..Len(r) = (1..n) \cup {n + 1} /\ (1..n) \cap {n + 1} = {}
  <2>1. IsFiniteSet(1..n) /\ IsFiniteSet({n + 1})
    BY BytesAreNat, FS_Singleton DEF n
  <2>2. 1..Len(r) = (1..n) \cup {n + 1} /\ (1..n) \cap {n + 1} = {}
    BY <1>1
  <2> QED
    BY <2>1, <2>2
<1>3. \A i \in 1..Len(r) : Sizes(r)[i] = Size(r[i].item) /\ Sizes(r)[i] \in Nat
  BY <1>1, BytesAreNat
<1>4. BytesOf(r) = SumOver(Sizes(r), 1..n) + SumOver(Sizes(r), {n + 1})
  <2>1. \A i \in (1..n) \cup {n + 1} : Sizes(r)[i] \in Nat
    BY <1>2, <1>3
  <2>2. SumOver(Sizes(r), (1..n) \cup {n + 1})
          = SumOver(Sizes(r), 1..n) + SumOver(Sizes(r), {n + 1})
    BY <2>1, <1>2, SumOfUnion
  <2> QED
    BY <2>2, <1>2 DEF BytesOf
<1>5. SumOver(Sizes(r), {n + 1}) = Size(e.item)
  <2>1. Sizes(r)[n + 1] = Size(e.item) /\ Sizes(r)[n + 1] \in Nat
    BY <1>1, <1>3
  <2> QED
    BY <2>1, SumOfOne
<1>6. SumOver(Sizes(r), 1..n) = BytesOf(q)
  <2>1. \A i \in 1..n : Sizes(q)[i] = Size(q[i].item)
    BY BytesAreNat DEF n
  <2>2. \A i \in 1..n : Sizes(r)[i] = Sizes(q)[i]
    BY <2>1, <1>1, <1>3
  <2> QED
    BY <2>2, SumSame DEF BytesOf, n
<1> QED
  BY <1>4, <1>5, <1>6 DEF r

\* A frame that leaves the channel takes its bytes along.
LEMMA BytesOfTail ==
  ASSUME NEW q \in Seq(Frame), q # <<>>
  PROVE  BytesOf(q) = Size(Head(q).item) + BytesOf(Tail(q))
<1> DEFINE r == Tail(q)
           n == Len(r)
           h == [i \in 1..n |-> i + 1]
<1>1. /\ r \in Seq(Frame) /\ n \in Nat /\ Len(q) = n + 1 /\ q[1] = Head(q)
      /\ \A i \in 1..n : r[i] = q[i + 1]
  OBVIOUS
<1> HIDE DEF r, n
<1>2. /\ IsFiniteSet(1..n) /\ IsFiniteSet({1}) /\ IsFiniteSet(2..(n + 1))
      /\ 1..Len(q) = {1} \cup 2..(n + 1) /\ {1} \cap 2..(n + 1) = {}
  <2>1. 1..Len(q) = {1} \cup 2..(n + 1) /\ {1} \cap 2..(n + 1) = {}
    BY <1>1
  <2>2. IsFiniteSet(1..Len(q)) /\ IsFiniteSet(1..n)
    BY <1>1, BytesAreNat DEF n
  <2>3. 2..(n + 1) \subseteq 1..Len(q)
    BY <2>1
  <2>4. IsFiniteSet(2..(n + 1)) /\ IsFiniteSet({1})
    BY <2>2, <2>3, FS_Subset, FS_Singleton
  <2> QED
    BY <2>1, <2>2, <2>4
<1>3. \A i \in 1..Len(q) : Sizes(q)[i] = Size(q[i].item) /\ Sizes(q)[i] \in Nat
  BY BytesAreNat
<1>4. \A i \in 1..n : Sizes(r)[i] = Size(r[i].item) /\ Sizes(r)[i] \in Nat
  BY <1>1, BytesAreNat DEF n
<1>5. BytesOf(q) = SumOver(Sizes(q), {1}) + SumOver(Sizes(q), 2..(n + 1))
  <2>1. \A i \in {1} \cup 2..(n + 1) : Sizes(q)[i] \in Nat
    BY <1>2, <1>3
  <2>2. SumOver(Sizes(q), {1} \cup 2..(n + 1))
          = SumOver(Sizes(q), {1}) + SumOver(Sizes(q), 2..(n + 1))
    BY <2>1, <1>2, SumOfUnion
  <2> QED
    BY <2>2, <1>2 DEF BytesOf
<1>6. SumOver(Sizes(q), {1}) = Size(Head(q).item)
  <2>1. Sizes(q)[1] = Size(Head(q).item) /\ Sizes(q)[1] \in Nat
    BY <1>1, <1>3
  <2> QED
    BY <2>1, SumOfOne
<1>7. SumOver(Sizes(r), 1..n) = SumOver(Sizes(q), 2..(n + 1))
  <2>1. h \in Bijection(1..n, 2..(n + 1))
    <3>1. h \in [1..n -> 2..(n + 1)]
      BY <1>1
    <3>2. \A i, j \in 1..n : h[i] = h[j] => i = j
      BY <1>1
    <3>3. ASSUME NEW z \in 2..(n + 1) PROVE \E i \in 1..n : h[i] = z
      <4>1. z - 1 \in 1..n /\ h[z - 1] = z
        BY <1>1
      <4> QED
        BY <4>1
    <3> QED
      BY <3>1, <3>2, <3>3 DEF Bijection, Injection, Surjection, IsInjective
  <2>2. \A i \in 1..n : Sizes(r)[i] \in Nat /\ Sizes(r)[i] = Sizes(q)[h[i]]
    <3> SUFFICES ASSUME NEW i \in 1..n
                 PROVE  Sizes(r)[i] \in Nat /\ Sizes(r)[i] = Sizes(q)[h[i]]
      OBVIOUS
    <3>1. h[i] = i + 1 /\ i + 1 \in 1..Len(q)
      BY <1>1
    <3>2. Sizes(q)[i + 1] = Size(q[i + 1].item)
      BY <3>1, <1>3
    <3> QED
      BY <3>1, <3>2, <1>1, <1>4
  <2> HIDE DEF h
  <2>3. IsFiniteSet(1..n)
    BY <1>2
  <2> DEFINE S == 1..n
             T == 2..(n + 1)
             f == Sizes(r)
             g == Sizes(q)
  <2>4. /\ h \in Bijection(S, T) /\ IsFiniteSet(S)
        /\ \A i \in S : f[i] \in Nat /\ f[i] = g[h[i]]
    BY <2>1, <2>2, <2>3
  <2> HIDE DEF S, T, f, g
  <2>5. SumOver(f, S) = SumOver(g, T)
    BY <2>4, SumReindex
  <2> QED
    BY <2>5 DEF S, T, f, g
<1>8. /\ SumOver(Sizes(q), {1}) \in Nat /\ SumOver(Sizes(r), 1..n) = BytesOf(r)
  BY <1>6, SizeIsNat DEF BytesOf, n
<1> QED
  BY <1>5, <1>6, <1>7, <1>8 DEF r
\* The parts of pending_bytes are numbers.
LEMMA BytePartsAreNat ==
  ASSUME TypeOK
  PROVE  /\ pending \in Nat /\ QueuedBytes \in Nat /\ WriterBytes \in Nat
         /\ EngineBytes \in Nat /\ QueuedBytes = BytesOf(queue)
         /\ queue \in Seq(Frame) /\ MaxBytes \in Nat
<1>1. pending \in Nat /\ queue \in Seq(Frame)
  BY DEF TypeOK
<1>2. QueuedBytes = BytesOf(queue)
  BY DEF QueuedBytes, BytesOf
<1>3. WriterBytes \in Nat /\ EngineBytes \in Nat
  BY SizeIsNat DEF WriterBytes, EngineBytes
<1> QED
  BY <1>1, <1>2, <1>3, BytesAreNat, BoundsAssumption

\* The bytes of a frame on its way into the channel: reserved, then released
\* again or handed over.
LEMMA SinkBytes ==
  ASSUME ResponseInv, Sink
  PROVE  BytesInv' /\ pending' \in Nat /\ queue' \in Seq(Frame)
<1> DEFINE Q == QueuedBytes
           W == WriterBytes
           E == EngineBytes
<1>1. /\ pending \in Nat /\ Q \in Nat /\ W \in Nat /\ E \in Nat
      /\ Q = BytesOf(queue) /\ queue \in Seq(Frame) /\ MaxBytes \in Nat
      /\ pending <= MaxBytes /\ pending >= Q + W + E
      /\ Live => pending = Q + W + E
  BY BytePartsAreNat DEF ResponseInv, BytesInv
<1>2. UNCHANGED <<wpc, wframe>> /\ epc \in SinkPcs
  BY SinkEffect DEF writer
<1>3. W' = W /\ (Live' <=> Live)
  BY <1>2 DEF WriterBytes, Live
<1>4. (queue' = queue => Q' = Q) /\ Q' = BytesOf(queue')
  BY DEF QueuedBytes, BytesOf
<1>5. SinkFails \/ SinkContinues \/ SinkSucceeds => E' = 0
  BY <1>2, SinkScript
     DEF SinkFails, SinkContinues, SinkSucceeds, EngineGoes, EngineBytes, SinkPcs
<1> HIDE DEF Q, W, E
<1>6. CASE SinkChecks
  <2>1. UNCHANGED <<pending, queue>>
    BY <1>6 DEF SinkChecks, shared, channel
  <2>2. E = 0 /\ E' = 0
    <3>1. epc = "open?" /\ (epc' = "reserve" \/ epc' = ret.err)
      BY <1>6 DEF SinkChecks, SinkGoes, EngineGoes
    <3> QED
      BY <1>2, <3>1, SinkScript DEF E, EngineBytes, SinkPcs
  <2> QED
    BY <1>1, <1>3, <1>4, <2>1, <2>2 DEF BytesInv, Q, W, E
<1>7. CASE SinkReserves
  <2>1. E = 0 /\ queue' = queue
    BY <1>7 DEF SinkReserves, E, EngineBytes, channel
  <2>2. CASE pending + Size(Head(script)) > MaxBytes
    <3>1. pending' = pending /\ epc' = ret.err
      BY <1>7, <2>2 DEF SinkReserves, EngineGoes
    <3>2. E' = 0
      BY <1>2, <3>1, SinkScript DEF E, EngineBytes, SinkPcs
    <3> QED
      BY <1>1, <1>3, <1>4, <2>1, <3>1, <3>2 DEF BytesInv, Q, W, E
  <2>3. CASE ~(pending + Size(Head(script)) > MaxBytes)
    <3>1. /\ pending' = pending + Size(Head(script))
          /\ epc' = "stamp" /\ script' = script
      BY <1>7, <2>3 DEF SinkReserves, SinkGoes
    <3>2. E' = Size(Head(script)) /\ Size(Head(script)) \in Nat
      BY <3>1, SizeIsNat DEF E, EngineBytes
    <3> QED
      BY <1>1, <1>3, <1>4, <2>1, <2>3, <3>1, <3>2 DEF BytesInv, Q, W, E
  <2> QED
    BY <2>2, <2>3
<1>8. CASE SinkStamps
  <2>1. E' = E /\ UNCHANGED <<pending, queue>>
    BY <1>8 DEF SinkStamps, E, EngineBytes, shared, channel
  <2> QED
    BY <1>1, <1>3, <1>4, <2>1 DEF BytesInv, Q, W, E
<1>9. CASE SinkSends
  <2>1. /\ eframe \in Frame /\ E = Size(eframe.item) /\ E \in Nat
    <3>1. epc = "send" /\ eframe.item = Head(script)
      BY <1>9 DEF SinkSends, ResponseInv, WriteInv
    <3>2. eframe \in Frame
      BY DEF ResponseInv, TypeOK
    <3> QED
      BY <3>1, <3>2, SizeIsNat DEF E, EngineBytes
  <2>2. E' = 0
    <3>1. epc' \in {"open?", ret.ok, ret.err}
      BY <1>9 DEF SinkSends, EngineGoes, WriteThen
    <3> QED
      BY <1>2, <3>1, SinkScript DEF E, EngineBytes, SinkPcs
  <2>3. CASE wpc # "done" /\ Len(queue) < Capacity
    <3>1. queue' = Append(queue, eframe) /\ pending' = pending
      BY <1>9, <2>3 DEF SinkSends
    <3>2. BytesOf(queue') = Q + E /\ queue' \in Seq(Frame)
      BY <1>1, <2>1, <3>1, BytesOfAppend
    <3>3. /\ pending' \in Nat /\ pending' <= MaxBytes
          /\ pending' >= Q' + W' + E'
          /\ Live' => pending' = Q' + W' + E'
      BY <1>1, <1>3, <1>4, <2>1, <2>2, <3>1, <3>2, SMTT(40)
    <3> QED
      BY <3>2, <3>3 DEF BytesInv, Q, W, E
  <2>4. CASE ~(wpc # "done" /\ Len(queue) < Capacity)
    <3>1. queue' = queue /\ pending' = pending - E
      BY <1>9, <2>1, <2>4 DEF SinkSends
    <3>2. /\ pending' \in Nat /\ pending' <= MaxBytes
          /\ pending' >= Q' + W' + E'
          /\ Live' => pending' = Q' + W' + E'
      BY <1>1, <1>3, <1>4, <2>1, <2>2, <3>1, SMTT(40)
    <3> QED
      BY <1>1, <3>1, <3>2 DEF BytesInv, Q, W, E
  <2> QED
    BY <2>3, <2>4
<1> QED
  BY <1>6, <1>7, <1>8, <1>9 DEF Sink

\* The bytes of a frame on its way to the socket: in the channel, in the
\* writer's hand, then released; a refused frame stays counted.
LEMMA WriterBytesKept ==
  ASSUME ResponseInv, Writer
  PROVE  BytesInv' /\ pending' \in Nat /\ queue' \in Seq(Frame)
<1> DEFINE Q == QueuedBytes
           W == WriterBytes
           E == EngineBytes
<1>1. /\ pending \in Nat /\ Q \in Nat /\ W \in Nat /\ E \in Nat
      /\ Q = BytesOf(queue) /\ queue \in Seq(Frame) /\ MaxBytes \in Nat
      /\ pending <= MaxBytes /\ pending >= Q + W + E
      /\ Live => pending = Q + W + E
  BY BytePartsAreNat DEF ResponseInv, BytesInv
<1>2. E' = E
  <2>1. UNCHANGED <<epc, script>>
    BY WriterEffect DEF engine
  <2> QED
    BY <2>1 DEF EngineBytes
<1>3. (queue' = queue => Q' = Q) /\ Q' = BytesOf(queue')
  BY DEF QueuedBytes, BytesOf
<1> USE DEF WriterGoes, WriterCloses
<1> HIDE DEF Q, E
<1>4. CASE NextFrame \/ ChooseWait \/ ReceiveNothing \/ FallbackChecks
            \/ GraceEnds \/ WriterClaims \/ CancelOutput
            \/ FallbackWritten \/ FallbackFails
  <2>1. /\ UNCHANGED <<pending, queue>> /\ wpc \notin {"write", "writing"}
        /\ wpc' \notin {"write", "writing"} /\ (Live' => Live)
    <3>1. CASE NextFrame \/ ChooseWait \/ ReceiveNothing
      BY <3>1 DEF NextFrame, ChooseWait, ReceiveNothing, Live, shared, channel
    <3>2. CASE FallbackChecks \/ GraceEnds \/ WriterClaims
      BY <3>2 DEF FallbackChecks, GraceEnds, WriterClaims, Live, shared, channel
    <3>3. CASE CancelOutput \/ FallbackWritten \/ FallbackFails
      BY <3>3 DEF CancelOutput, FallbackWritten, FallbackFails, Live, channel
    <3> QED
      BY <1>4, <3>1, <3>2, <3>3
  <2>2. W = 0 /\ W' = 0
    BY <2>1 DEF WriterBytes
  <2> QED
    BY <1>1, <1>2, <1>3, <2>1, <2>2 DEF BytesInv, Q, E
<1>5. CASE ReceiveFrame
  <2> DEFINE s == Size(Head(queue).item)
  <2>1. /\ queue # <<>> /\ queue' = Tail(queue) /\ wpc \in {"poll", "wait"}
    BY <1>5 DEF ReceiveFrame
  <2>2. BytesOf(queue) = s + BytesOf(queue') /\ queue' \in Seq(Frame) /\ s \in Nat
    BY <1>1, <2>1, BytesOfTail, SizeIsNat
  <2>3. W = 0 /\ Live
    BY <2>1 DEF WriterBytes, Live
  <2>4. Q' \in Nat
    BY <1>3, <2>2, BytesAreNat
  <2>5. CASE QueuedLate(Head(queue))
    <3>1. pending' = pending - s /\ wpc' \in {"fallback", "check"}
      BY <1>5, <2>5 DEF ReceiveFrame
    <3>2. W' = 0
      BY <3>1 DEF WriterBytes
    <3> HIDE DEF s, W
    <3>3. PICK k \in Nat : Q' = k
      BY <2>4
    <3>4. /\ pending = Q + W + E /\ Q = s + k /\ W = 0 /\ s \in Nat
          /\ E \in Nat /\ MaxBytes \in Nat /\ pending <= MaxBytes
      BY <1>1, <1>3, <2>2, <2>3, <3>3
    <3>5. pending' = k + E /\ pending' \in Nat /\ pending' <= MaxBytes
      BY <3>1, <3>4
    <3>6. queue' \in Seq(Frame)
      BY <2>2
    <3>7. pending' = Q' + W' + E'
      BY <1>2, <3>2, <3>3, <3>4, <3>5
    <3> QED
      BY <3>5, <3>6, <3>7 DEF BytesInv, Q, W, E
  <2>6. CASE ~QueuedLate(Head(queue))
    <3>1. pending' = pending /\ wpc' = "write" /\ wframe' = Head(queue)
      BY <1>5, <2>6 DEF ReceiveFrame
    <3>2. W' = s
      BY <3>1 DEF WriterBytes
    <3> QED
      BY <1>1, <1>2, <1>3, <2>2, <2>3, <2>4, <3>1, <3>2 DEF BytesInv, Q, E
  <2> QED
    BY <2>5, <2>6
<1>6. CASE BeginFrame
  <2>1. /\ UNCHANGED <<pending, queue, wframe>>
        /\ wpc = "write" /\ wpc' = "writing"
    BY <1>6 DEF BeginFrame, shared, channel
  <2>2. W' = W /\ Live
    BY <2>1 DEF WriterBytes, Live
  <2> QED
    BY <1>1, <1>2, <1>3, <2>1, <2>2 DEF BytesInv, Q, E
<1>7. CASE FrameWritten
  <2>1. /\ queue' = queue /\ pending' = pending - Size(wframe.item)
        /\ wpc = "writing" /\ wpc' = "check"
    BY <1>7 DEF FrameWritten
  <2>2. W = Size(wframe.item) /\ W' = 0 /\ Live
    BY <2>1 DEF WriterBytes, Live
  <2> HIDE DEF W
  <2>3. pending = Q + W + E /\ pending' = pending - W
    BY <1>1, <2>1, <2>2
  <2>4. pending' = Q + E /\ pending' \in Nat /\ pending' <= MaxBytes
    BY <1>1, <2>3
  <2>5. Q' = Q /\ W' = 0 /\ queue' \in Seq(Frame)
    BY <1>1, <1>3, <2>1, <2>2
  <2> QED
    BY <1>1, <1>2, <2>4, <2>5, SMTT(40) DEF BytesInv, Q, W, E
<1>8. CASE FrameFails
  <2>1. /\ UNCHANGED <<pending, queue>> /\ wpc' = "cancel"
    BY <1>8 DEF FrameFails
  <2>2. W' = 0 /\ ~Live'
    BY <2>1 DEF WriterBytes, Live
  <2> QED
    BY <1>1, <1>2, <1>3, <2>1, <2>2 DEF BytesInv, Q, E
<1> QED
  BY <1>4, <1>5, <1>6, <1>7, <1>8 DEF Writer

\* The other parties leave the bytes alone.
LEMMA OtherBytes ==
  ASSUME ResponseInv, Tick \/ PeerChanges \/ Interrupt \/ Watcher \/ Aside
  PROVE  BytesInv'
<1>1. UNCHANGED <<pending, queue, wpc, wframe>>
  BY WorldEffect, WatcherEffect, AsideEffect DEF shared, channel, writer
<1>2. UNCHANGED <<QueuedBytes, WriterBytes, Live>>
  BY <1>1 DEF QueuedBytes, WriterBytes, Live
<1>3. EngineBytes' = EngineBytes
  <2>1. CASE Aside
    BY <2>1, AsideEffect DEF EngineBytes, SinkPcs
  <2>2. CASE ~Aside
    <3>1. UNCHANGED <<epc, script>>
      BY <2>2, WorldEffect, WatcherEffect DEF engine
    <3> QED
      BY <3>1 DEF EngineBytes
  <2> QED
    BY <2>1, <2>2
<1> QED
  BY <1>1, <1>2, <1>3 DEF ResponseInv, BytesInv
-------------------------------------------------------------------------------
(* Types again: the writer, the sink and the others. *)

WriterTypes ==
    /\ wpc \in {"check", "mode", "poll", "wait", "write", "writing", "fallback",
                "grace", "claim", "respond", "cancel", "done"}
    /\ wnow \in 0..2 /\ wlimit \in 0..2 /\ wframe \in Frame
    /\ watch \in {"on", "noted", "off"} /\ watchStop \in BOOLEAN

SharedTypes ==
    /\ cancelled \in BOOLEAN /\ cancellation \in BOOLEAN
    /\ claimed \in {"none", "engine", "writer"} /\ started \in BOOLEAN
    /\ failure \in {"None", "EnqueueRejected", "SocketWrite"}
    /\ wire \in Seq(Shown) /\ headLost \in BOOLEAN

\* The writer keeps the types of its own state.
LEMMA WriterKeepsOwnTypes ==
  ASSUME ResponseInv, Writer
  PROVE  WriterTypes'
<1>1. WriterTypes /\ now \in 0..2 /\ queue \in Seq(Frame)
  BY DEF ResponseInv, TypeOK, WriterTypes
<1> USE NoFrameType DEF WriterTypes, WriterGoes, WriterCloses, ForgetLocals,
        watcher, writer
<1>2. CASE NextFrame
  <2>1. CASE WriterCloses
    BY <1>1, <2>1
  <2>2. CASE ~WriterCloses
    BY <1>1, <1>2, <2>2 DEF NextFrame
  <2> QED
    BY <2>1, <2>2
<1>3. CASE ChooseWait
  BY <1>1, <1>3 DEF ChooseWait
<1>4. CASE ReceiveFrame
  <2>1. Head(queue) \in Frame
    BY <1>1, <1>4 DEF ReceiveFrame
  <2> QED
    BY <1>1, <1>4, <2>1 DEF ReceiveFrame
<1>5. CASE ReceiveNothing
  <2>1. CASE WriterCloses
    BY <1>1, <2>1
  <2>2. CASE ~WriterCloses
    BY <1>1, <1>5, <2>2 DEF ReceiveNothing
  <2> QED
    BY <2>1, <2>2
<1>6. CASE BeginFrame
  BY <1>1, <1>6 DEF BeginFrame, Deadline, TerminalDeadline
<1>7. CASE FrameWritten
  BY <1>1, <1>7 DEF FrameWritten
<1>8. CASE FrameFails
  BY <1>1, <1>8 DEF FrameFails
<1>9. CASE CancelOutput
  BY <1>1, <1>9 DEF CancelOutput
<1>10. CASE FallbackChecks
  <2>1. CASE WriterCloses
    BY <1>1, <2>1
  <2>2. CASE ~WriterCloses
    BY <1>1, <1>10, <2>2 DEF FallbackChecks
  <2> QED
    BY <2>1, <2>2
<1>11. CASE GraceEnds
  BY <1>1, <1>11 DEF GraceEnds
<1>12. CASE WriterClaims
  BY <1>1, <1>12 DEF WriterClaims
<1>13. CASE FallbackWritten
  BY <1>1, <1>13 DEF FallbackWritten
<1>14. CASE FallbackFails
  BY <1>1, <1>14 DEF FallbackFails
<1> QED
  BY <1>2, <1>3, <1>4, <1>5, <1>6, <1>7, <1>8, <1>9, <1>10, <1>11, <1>12,
     <1>13, <1>14 DEF Writer

\* What the writer appends to the wire is something a client can be shown.
LEMMA ShownTypes ==
  ASSUME TypeOK
  PROVE  /\ Torn \in Shown /\ DeadlineResponse \in Shown
         /\ [item |-> wframe.item, terminal |-> wframe.terminal] \in Shown
<1>1. Torn \in Shown
  BY DEF Torn, Shown
<1>2. DeadlineResponse \in Shown
  BY DEF DeadlineResponse, Shown, Items
<1>3. wframe.item \in Items /\ wframe.terminal \in BOOLEAN
  BY DEF TypeOK, Frame
<1> QED
  BY <1>1, <1>2, <1>3 DEF Shown

\* It keeps the types of what it shares.
LEMMA WriterKeepsSharedTypes ==
  ASSUME ResponseInv, Writer
  PROVE  SharedTypes'
<1>1. SharedTypes /\ TypeOK
  BY DEF ResponseInv, TypeOK, SharedTypes
<1> USE DEF SharedTypes, shared, channel
<1>2. CASE NextFrame \/ ChooseWait \/ ReceiveNothing \/ BeginFrame
            \/ FallbackChecks \/ GraceEnds
  BY <1>1, <1>2 DEF NextFrame, ChooseWait, ReceiveNothing, BeginFrame,
                    FallbackChecks, GraceEnds
<1>3. CASE ReceiveFrame
  BY <1>1, <1>3 DEF ReceiveFrame
<1>4. CASE FrameWritten
  BY <1>1, <1>4, ShownTypes DEF FrameWritten
<1>5. CASE FrameFails
  BY <1>1, <1>5, ShownTypes DEF FrameFails
<1>6. CASE CancelOutput
  BY <1>1, <1>6 DEF CancelOutput
<1>7. CASE WriterClaims
  BY <1>1, <1>7 DEF WriterClaims
<1>8. CASE FallbackWritten
  BY <1>1, <1>8, ShownTypes DEF FallbackWritten
<1>9. CASE FallbackFails
  BY <1>1, <1>9, ShownTypes DEF FallbackFails
<1> QED
  BY <1>2, <1>3, <1>4, <1>5, <1>6, <1>7, <1>8, <1>9 DEF Writer

\* TypeOK, party by party.
LEMMA TypesKept ==
  ASSUME ResponseInv, Next
  PROVE  TypeOK'
<1>1. TypeOK
  BY DEF ResponseInv
<1>2. CASE Tick \/ PeerChanges \/ Interrupt
  <2>1. now' \in 0..2 /\ peer' \in {"open", "eof", "reset"} /\ stop' \in BOOLEAN
    <3>1. CASE Tick
      BY <1>1, <3>1 DEF Tick, TerminalDeadline, TypeOK
    <3>2. CASE PeerChanges
      BY <1>1, <3>2 DEF PeerChanges, TypeOK
    <3>3. CASE Interrupt
      BY <1>1, <3>3 DEF Interrupt, TypeOK
    <3> QED
      BY <1>2, <3>1, <3>2, <3>3
  <2>2. UNCHANGED <<shared, channel, writer, watcher, engine>>
    BY <1>2, WorldEffect
  <2> QED
    BY <1>1, <2>1, <2>2
       DEF TypeOK, shared, channel, writer, watcher, engine, work
<1>3. CASE Watcher
  <2>1. /\ cancelled' \in BOOLEAN /\ cancellation' \in BOOLEAN
        /\ gone' \in BOOLEAN
        /\ watch' \in {"on", "noted", "off"} /\ watchStop' \in BOOLEAN
    BY <1>1, <1>3 DEF Watcher, WatcherEnds, RecordClientDisconnect,
       CancelAfterDisconnect, TypeOK, shared
  <2>2. UNCHANGED <<outside, pending, claimed, started, streaming, failure,
                    channel, writer, engine>>
    BY <1>3, WatcherEffect
  <2> QED
    BY <1>1, <2>1, <2>2 DEF TypeOK, outside, channel, writer, engine, work
<1>4. CASE Writer
  <2>1. pending' \in Nat /\ queue' \in Seq(Frame)
    BY <1>4, WriterBytesKept
  <2>2. WriterTypes' /\ SharedTypes'
    BY <1>4, WriterKeepsOwnTypes, WriterKeepsSharedTypes
  <2>3. UNCHANGED <<outside, streaming, gone, senders, engine>>
    BY <1>4, WriterEffect
  <2> QED
    BY <1>1, <2>1, <2>2, <2>3
       DEF TypeOK, WriterTypes, SharedTypes, outside, engine, work
<1>5. CASE Sink
  <2>1. pending' \in Nat /\ queue' \in Seq(Frame) /\ EngineTypes'
    BY <1>5, SinkBytes, SinkEngineTypes
  <2>2. /\ cancelled' \in BOOLEAN
        /\ failure' \in {"None", "EnqueueRejected", "SocketWrite"}
        /\ result' \in {"ok", "closed", "overloaded"}
    BY <1>1, <1>5 DEF Sink, SinkChecks, SinkReserves, SinkStamps, SinkSends,
       TypeOK, shared, work
  <2>3. UNCHANGED <<outside, cancellation, claimed, started, streaming, gone,
                    senders, wire, headLost, writer, watcher, task, session,
                    status, cause>>
    BY <1>5, SinkEffect
  <2> QED
    BY <1>1, <2>1, <2>2, <2>3
       DEF TypeOK, EngineTypes, outside, writer, watcher
<1>6. CASE Aside
  BY <1>6, AsideTypes
<1> QED
  BY <1>2, <1>3, <1>4, <1>5, <1>6, NextSplit
-------------------------------------------------------------------------------
(* The control of the engine. *)

\* Where each write returns.
LEMMA ReturnFields ==
  /\ Return("drop", "drop").ok = "drop" /\ Return("drop", "drop").err = "drop"
  /\ Return("drop", "unwritten").ok = "drop" /\ Return("drop", "unwritten").err = "unwritten"
  /\ Return("headed", "unheaded").ok = "headed" /\ Return("headed", "unheaded").err = "unheaded"
  /\ Return("content", "token lost").ok = "content" /\ Return("content", "token lost").err = "token lost"
  /\ Return("token", "content lost").ok = "token" /\ Return("token", "content lost").err = "content lost"
  /\ Return("flushed", "unflushed").ok = "flushed" /\ Return("flushed", "unflushed").err = "unflushed"
BY DEF Return

\* The ways a write goes on are told apart by where it returns.
LEMMA ReturnsDiffer ==
  ASSUME NEW r
  PROVE  /\ r = Return("drop", "drop") =>
              /\ r # Return("drop", "unwritten")
              /\ r # Return("headed", "unheaded")
              /\ r # Return("content", "token lost")
              /\ r # Return("token", "content lost")
              /\ r # Return("flushed", "unflushed")
         /\ r = Return("drop", "unwritten") =>
              /\ r # Return("headed", "unheaded")
              /\ r # Return("content", "token lost")
              /\ r # Return("token", "content lost")
              /\ r # Return("flushed", "unflushed")
         /\ r = Return("headed", "unheaded") =>
              /\ r # Return("content", "token lost")
              /\ r # Return("token", "content lost")
              /\ r # Return("flushed", "unflushed")
         /\ r = Return("content", "token lost") =>
              /\ r # Return("token", "content lost")
              /\ r # Return("flushed", "unflushed")
         /\ r = Return("token", "content lost") =>
              r # Return("flushed", "unflushed")
BY ReturnFields

\* The world, the watcher and the writer do not move the engine.
LEMMA OthersControl ==
  ASSUME ResponseInv, Tick \/ PeerChanges \/ Interrupt \/ Watcher \/ Writer
  PROVE  WriteInv' /\ PhaseInv' /\ TaskInv'
<1>1. /\ UNCHANGED <<streaming, epc, script, eframe, ret, task, session, status,
                     result>>
      /\ stop => stop'
      /\ claimed' = claimed \/ (claimed = "none" /\ claimed' = "writer")
  BY WorldEffect, WatcherEffect, WriterEffect
     DEF engine, work, shared, outside
<1>2. UNCHANGED <<WritingError, WritingResponse, WritingHead, WritingMark,
                  WritingText, WritingRest>>
  BY <1>1 DEF WritingError, WritingResponse, WritingHead, WritingMark,
              WritingText, WritingRest, Writing
<1>3. UNCHANGED <<Serving, Finishing, Settled, Answering>>
  BY <1>1, <1>2 DEF Serving, Finishing, Settled, Answering
<1>4. WriteInv'
  BY <1>1, <1>2 DEF ResponseInv, WriteInv
<1>5. PhaseInv'
  BY <1>1, <1>2, <1>3 DEF ResponseInv, PhaseInv
<1>6. TaskInv'
  BY <1>1, <1>2 DEF ResponseInv, TaskInv
<1> QED
  BY <1>4, <1>5, <1>6

\* A write keeps to its script, then returns where it should.
LEMMA SinkPhases ==
  ASSUME ResponseInv, Sink
  PROVE  \/ WritingError /\ (WritingError' \/ epc' = "drop")
         \/ /\ WritingResponse
            /\ \/ (WritingResponse' \/ epc' = "drop") /\ result' = result
               \/ epc' = "unwritten"
         \/ /\ WritingHead
            /\ WritingHead' \/ epc' = "headed" \/ (epc' = "unheaded" /\ cancelled')
         \/ WritingMark /\ (WritingMark' \/ epc' \in {"content", "token lost"})
         \/ WritingText /\ (WritingText' \/ epc' \in {"token", "content lost"})
         \/ /\ WritingRest
            /\ \/ (WritingRest' \/ epc' = "flushed") /\ result' = result
               \/ epc' = "unflushed"
<1>1. /\ epc \in SinkPcs
      /\ \/ WritingError \/ WritingResponse \/ WritingHead
         \/ WritingMark \/ WritingText \/ WritingRest
  BY SinkEffect DEF ResponseInv, WriteInv
<1>2. script \in Scripts
  BY <1>1, SinkScript
<1> USE DEF WritingError, WritingResponse, WritingHead, WritingMark,
            WritingText, WritingRest, Writing
<1>3. CASE SinkStays
  <2>1. epc' \in SinkPcs /\ UNCHANGED <<script, ret, result>>
    BY <1>3 DEF SinkStays, SinkPcs
  <2> QED
    BY <1>1, <2>1
<1>4. CASE SinkContinues
  <2>1. /\ epc' \in SinkPcs /\ script' = Tail(script) /\ ret' = ret
        /\ result' = result /\ Len(script) # 1
    BY <1>4 DEF SinkContinues, SinkPcs
  <2>2. /\ script \in ErrorTails => script' \in ErrorTails
        /\ script \in FinalTails => script' \in FinalTails
        /\ script # <<"full">> /\ script # <<"mark">> /\ script # <<"text">>
        /\ script # <<"role">>
        /\ script = <<"head", "role">> => script' = <<"role">>
    BY <1>2, <2>1, ScriptShape
  <2> QED
    BY <1>1, <2>1, <2>2
<1>5. CASE SinkSucceeds
  BY <1>1, <1>5, ReturnFields DEF SinkSucceeds, EngineGoes
<1>6. CASE SinkFails
  BY <1>1, <1>6, ReturnFields DEF SinkFails, EngineGoes
<1> QED
  BY <1>3, <1>4, <1>5, <1>6, SinkMoves

\* A write of one frame does not continue.
LEMMA OneFrame ==
  ASSUME ResponseInv, Sink, script = <<"full">>
  PROVE  script' = <<"full">> \/ epc' \notin SinkPcs
<1>1. Len(script) = 1
  OBVIOUS
<1>2. SinkStays \/ SinkSucceeds \/ SinkFails
  BY <1>1, SinkMoves DEF SinkContinues
<1> QED
  BY <1>2, SinkEffect, SinkScript DEF SinkStays, SinkSucceeds, SinkFails, EngineGoes
(* The engine is in one write at a time. *)
Exclusive ==
    /\ WritingError => ~WritingResponse /\ ~WritingHead /\ ~WritingMark
                         /\ ~WritingText /\ ~WritingRest
    /\ WritingResponse => ~WritingHead /\ ~WritingMark /\ ~WritingText
                            /\ ~WritingRest
    /\ WritingHead => ~WritingMark /\ ~WritingText /\ ~WritingRest
    /\ WritingMark => ~WritingText /\ ~WritingRest
    /\ WritingText => ~WritingRest
    /\ WritingError \/ WritingResponse \/ WritingHead \/ WritingMark
         \/ WritingText \/ WritingRest => epc \in SinkPcs

\* It holds in every state, and so in the next one.
LEMMA WritesExclude == Exclusive /\ Exclusive'
BY ReturnsDiffer
   DEF Exclusive, WritingError, WritingResponse, WritingHead, WritingMark,
       WritingText, WritingRest, Writing

\* A step of a write keeps to the table of writes.
LEMMA SinkWriteInv ==
  ASSUME ResponseInv, Sink
  PROVE  WriteInv'
<1>1. epc' \in SinkPcs =>
        \/ WritingError' \/ WritingResponse' \/ WritingHead'
        \/ WritingMark' \/ WritingText' \/ WritingRest'
  BY SinkPhases DEF SinkPcs
<1>2. ASSUME epc' = "send"
      PROVE  eframe'.item = Head(script') /\ (eframe'.terminal => claimed' # "none")
  <2>1. SinkStays
    BY <1>2, SinkMoves, SinkEffect, SinkScript
       DEF SinkContinues, SinkSucceeds, SinkFails, EngineGoes, SinkPcs
  <2>2. SinkStamps /\ UNCHANGED <<script, claimed>>
    BY <1>2, <2>1, SinkEffect DEF SinkStays
  <2>3. eframe' = [item |-> Head(script), terminal |-> claimed # "none",
                   queued_at |-> now]
    BY <2>2 DEF SinkStamps
  <2> QED
    BY <2>2, <2>3
<1> QED
  BY <1>1, <1>2 DEF WriteInv

\* A step of a write keeps to the phases.
LEMMA SinkPhaseInv ==
  ASSUME ResponseInv, Sink
  PROVE  PhaseInv'
<1>1. PhaseInv /\ epc \in SinkPcs /\ UNCHANGED <<claimed, streaming, task, session, status>>
  BY SinkEffect DEF ResponseInv
<1>2. script = <<"full">> => script' = <<"full">> \/ epc' \notin SinkPcs
  BY OneFrame
<1> USE WritesExclude
    DEF Exclusive, PhaseInv, Serving, Finishing, Settled, Answering, SinkPcs
<1>3. CASE WritingError /\ (WritingError' \/ epc' = "drop")
  BY <1>1, <1>2, <1>3
<1>4. CASE /\ WritingResponse
           /\ \/ (WritingResponse' \/ epc' = "drop") /\ result' = result
              \/ epc' = "unwritten"
  BY <1>1, <1>4
<1>5. CASE /\ WritingHead
           /\ WritingHead' \/ epc' = "headed" \/ (epc' = "unheaded" /\ cancelled')
  BY <1>1, <1>5
<1>6. CASE WritingMark /\ (WritingMark' \/ epc' \in {"content", "token lost"})
  BY <1>1, <1>6
<1>7. CASE WritingText /\ (WritingText' \/ epc' \in {"token", "content lost"})
  BY <1>1, <1>7
<1>8. CASE /\ WritingRest
           /\ \/ (WritingRest' \/ epc' = "flushed") /\ result' = result
              \/ epc' = "unflushed"
  BY <1>1, <1>8
<1> QED
  BY <1>3, <1>4, <1>5, <1>6, <1>7, <1>8, SinkPhases

\* A step of a write leaves the task alone.
LEMMA SinkTaskInv ==
  ASSUME ResponseInv, Sink
  PROVE  TaskInv'
<1>1. TaskInv /\ epc \in SinkPcs /\ UNCHANGED <<streaming, task>>
  BY SinkEffect DEF ResponseInv
<1>2. script = <<"full">> => script' = <<"full">> \/ epc' \notin SinkPcs
  BY OneFrame
<1>3. /\ WritingHead' => WritingHead
      /\ epc' \in {"headed", "unheaded"} => WritingHead
      /\ epc' = "content" => WritingMark
      /\ epc' = "token" => WritingText
      /\ epc' \notin {"queued", "loop", "filter", "tick", "headers", "run",
                      "computing"}
  BY SinkPhases, WritesExclude DEF Exclusive, SinkPcs
<1>4. ASSUME epc' \in SinkPcs, Head(script') \in Chunks, ~WritingHead'
      PROVE  task.headers
  <2>1. ~WritingHead
    BY <1>4, SinkPhases, WritesExclude DEF Exclusive, SinkPcs
  <2>2. Head(script) \in Chunks
    <3>1. script \in Scripts
      BY <1>1, SinkScript
    <3>2. CASE script' = script
      BY <1>4, <3>2
    <3>3. CASE script' = Tail(script) /\ Len(script) # 1
      <4>1. /\ script # <<"full">> /\ script # <<"mark">>
            /\ script # <<"text">> /\ script # <<"role">>
        BY <3>3
      <4>2. script \in ErrorTails \cup FinalTails
        BY <1>1, <2>1, <4>1 DEF ResponseInv, WriteInv, WritingError,
           WritingResponse, WritingMark, WritingText, WritingRest, Writing
      <4> QED
        BY <3>1, <4>2, ScriptShape
    <3> QED
      BY <1>4, <3>2, <3>3, SinkMoves, SinkScript, SinkEffect
         DEF SinkStays, SinkContinues, SinkSucceeds, SinkFails, EngineGoes
  <2> QED
    BY <1>1, <2>1, <2>2 DEF TaskInv
<1>5. WritingHead \/ WritingMark => task.kind = "stream"
  <2>1. WritingHead \/ WritingMark => script # <<"full">>
    <3>1. /\ <<"head", "role">> # <<"full">> /\ <<"role">> # <<"full">>
          /\ <<"mark">> # <<"full">>
      OBVIOUS
    <3> QED
      BY <3>1 DEF WritingHead, WritingMark, Writing
  <2> QED
    BY <1>1, <2>1, WritesExclude DEF TaskInv, Exclusive
<1>6. WritingMark \/ WritingText => task.headers
  <2>1. WritingMark \/ WritingText =>
          script \in {<<"mark">>, <<"text">>} /\ ~WritingHead
    BY WritesExclude DEF WritingMark, WritingText, Writing, Exclusive
  <2>2. Head(<<"mark">>) \in Chunks /\ Head(<<"text">>) \in Chunks
    BY DEF Chunks
  <2> QED
    BY <1>1, <2>1, <2>2 DEF TaskInv
<1> QED
  BY <1>1, <1>2, <1>3, <1>4, <1>5, <1>6 DEF TaskInv, SinkPcs

\* A write begins as the table says.
LEMMA AsideWriteInv ==
  ASSUME Aside
  PROVE  WriteInv'
<1>1. epc' # "send" /\ (epc' \in SinkPcs => Begins)
  BY AsideMoves, AsideEffect DEF Goes
<1> QED
  BY <1>1 DEF WriteInv, Begins

(* The engine is in no write. *)
Idle ==
    /\ ~WritingError /\ ~WritingResponse /\ ~WritingHead
    /\ ~WritingMark /\ ~WritingText /\ ~WritingRest

\* Outside of a write it is in no write.
LEMMA IdleOutside ==
  /\ epc \notin SinkPcs => Idle
  /\ epc' \notin SinkPcs => Idle'
BY WritesExclude DEF Exclusive, Idle

\* What the engine's steps change of the task.
LEMMA TaskFields ==
  ASSUME task \in TaskType, Aside
  PROVE  /\ task'.kind = task.kind
         /\ task'.headers = task.headers \/ (HeadersWritten /\ task'.headers)
         /\ task'.prefilled = task.prefilled \/ PrefillChunk
         /\ \/ task'.tokens = task.tokens
            \/ EmitBoundary /\ task'.tokens = task.tokens + 1
<1> USE DEF TaskType, work
<1>1. CASE AnswerPlain
  BY <1>1 DEF AnswerPlain
<1>2. CASE AdmitChat
  BY <1>2 DEF AdmitChat
<1>3. CASE ExpireTask
  BY <1>3 DEF ExpireTask
<1>4. CASE CancelUnresponsive
  BY <1>4 DEF CancelUnresponsive, MarkDisconnect
<1>5. CASE TickBatch
  BY <1>5 DEF TickBatch
<1>6. CASE WriteHeaders
  BY <1>6 DEF WriteHeaders
<1>7. CASE HeadersWritten
  BY <1>7 DEF HeadersWritten
<1>8. CASE HeadersFail
  BY <1>8 DEF HeadersFail, MarkDisconnect
<1>9. CASE PeerClosed
  BY <1>9 DEF PeerClosed, MarkDisconnect
<1>10. CASE StartCompute
  BY <1>10 DEF StartCompute
<1>11. CASE PrefillChunk
  BY <1>11 DEF PrefillChunk
<1>12. CASE RuntimeCancelled
  BY <1>12 DEF RuntimeCancelled
<1>13. CASE RuntimeFails
  BY <1>13 DEF RuntimeFails
<1>14. CASE EmitBoundary
  BY <1>14 DEF EmitBoundary
<1>15. CASE EmitContent
  BY <1>15 DEF EmitContent
<1>16. CASE ContentLost
  BY <1>16 DEF ContentLost
<1>17. CASE TokenLost
  BY <1>17 DEF TokenLost
<1>18. CASE TokenDone
  BY <1>18 DEF TokenDone
<1>19. CASE FinishDeadline
  BY <1>19 DEF FinishDeadline
<1>20. CASE FinishDisconnected
  BY <1>20 DEF FinishDisconnected
<1>21. CASE FinishFailed
  BY <1>21 DEF FinishFailed
<1>22. CASE FinishGenerated
  BY <1>22 DEF FinishGenerated
<1>23. CASE FlushFails
  BY <1>23 DEF FlushFails
<1>24. CASE StreamStillOpen
  BY <1>24 DEF StreamStillOpen
<1>25. CASE EngineClaims
  BY <1>25 DEF EngineClaims, ErrorResponse
<1>26. CASE FinalizeFails
  BY <1>26 DEF FinalizeFails, ErrorResponse
<1>27. CASE FinalizeResponse
  BY <1>27 DEF FinalizeResponse
<1>28. CASE ResponseUnwritten
  BY <1>28 DEF ResponseUnwritten
<1>29. CASE DropSink
  BY <1>29 DEF DropSink, TerminalCause
<1>30. CASE LoopStops
  BY <1>30 DEF LoopStops
<1>31. CASE ClientCancels
  BY <1>31 DEF ClientCancels
<1> QED
  BY <1>1, <1>2, <1>3, <1>4, <1>5, <1>6, <1>7, <1>8, <1>9, <1>10, <1>11,
     <1>12, <1>13, <1>14, <1>15, <1>16, <1>17, <1>18, <1>19, <1>20, <1>21,
     <1>22, <1>23, <1>24, <1>25, <1>26, <1>27, <1>28, <1>29, <1>30, <1>31
     DEF Aside

\* Which step begins which write.
LEMMA WhoWrites ==
  /\ AnswerPlain /\ epc' = "open?" => WritingError'
  /\ WriteHeaders /\ epc' = "open?" => WritingHead'
  /\ EmitBoundary /\ epc' = "open?" => WritingMark'
  /\ EmitContent /\ epc' = "open?" => WritingText'
  /\ FinishGenerated /\ epc' = "open?" => WritingRest'
  /\ EngineClaims /\ epc' = "open?" => WritingError'
  /\ FinalizeFails /\ epc' = "open?" => WritingError'
  /\ FinalizeResponse /\ epc' = "open?" => WritingResponse'
<1> USE DEF Writing, WriteThen, EngineGoes, Return, SinkPcs, ErrorTails,
            FinalTails
<1>1. AnswerPlain /\ epc' = "open?" => WritingError'
  BY DEF AnswerPlain, WritingError
<1>2. WriteHeaders /\ epc' = "open?" => WritingHead'
  BY DEF WriteHeaders, WritingHead
<1>3. EmitBoundary /\ epc' = "open?" => WritingMark'
  BY DEF EmitBoundary, WritingMark
<1>4. EmitContent /\ epc' = "open?" => WritingText'
  BY DEF EmitContent, WritingText
<1>5. FinishGenerated /\ epc' = "open?" => WritingRest'
  BY DEF FinishGenerated, WritingRest
<1>6. EngineClaims /\ epc' = "open?" => WritingError'
  BY DEF EngineClaims, ErrorResponse, WritingError
<1>7. FinalizeFails /\ epc' = "open?" => WritingError'
  BY DEF FinalizeFails, ErrorResponse, WritingError
<1>8. FinalizeResponse /\ epc' = "open?" => WritingResponse'
  BY DEF FinalizeResponse, WritingResponse
<1> QED
  BY <1>1, <1>2, <1>3, <1>4, <1>5, <1>6, <1>7, <1>8

\* The engine's own steps keep to the phases.
LEMMA AsidePhaseInv ==
  ASSUME ResponseInv, Aside
  PROVE  PhaseInv'
<1>1. /\ PhaseInv /\ Idle /\ epc \notin SinkPcs /\ task'.kind = task.kind
  <2>1. task \in TaskType
    BY DEF ResponseInv, TypeOK, TaskType
  <2> QED
    BY <2>1, AsideEffect, IdleOutside, TaskFields DEF ResponseInv
<1> USE <1>1, IdleOutside DEF Idle, PhaseInv, Serving, Finishing, Settled, Answering,
        SinkPcs, EngineGoes, FinishAs, SessionEnds, shared, work, outside
<1>2. CASE AnswerPlain
  <2>1. CASE epc' = "open?"
    <3>1. WritingError'
      BY <1>2, <2>1, WhoWrites
    <3> QED
      BY <1>2, <2>1, <3>1, WritesExclude DEF AnswerPlain, WriteThen, Exclusive
  <2>2. CASE epc' # "open?"
    BY <1>2, <2>2 DEF AnswerPlain, WriteThen
  <2> QED
    BY <2>1, <2>2
<1>3. CASE AdmitChat
  BY <1>3 DEF AdmitChat
<1>4. CASE ExpireTask
  <2>1. /\ epc = "loop" /\ ((epc' = "finish" /\ status' = "Cancelled" /\ result' = "ok") \/ epc' = "filter")
        /\ UNCHANGED <<session, claimed, streaming, stop>>
    BY <1>4, Zenon DEF ExpireTask, WriteThen
  <2> QED
    BY <2>1
<1>5. CASE CancelUnresponsive
  <2>1. /\ epc = "filter" /\ ((epc' = "finish" /\ status' = "Cancelled" /\ result' = "ok") \/ epc' = "tick")
        /\ UNCHANGED <<session, claimed, streaming, stop>>
    BY <1>5, Zenon DEF CancelUnresponsive, WriteThen
  <2> QED
    BY <2>1
<1>6. CASE TickBatch
  <2>1. /\ epc = "tick" /\ ((epc' = "finish" /\ status' = "DeadlineExpired" /\ result' = "ok") \/ epc' = "headers")
        /\ UNCHANGED <<session, claimed, streaming, stop>>
    BY <1>6, Zenon DEF TickBatch, WriteThen
  <2> QED
    BY <2>1
<1>7. CASE WriteHeaders
  <2>1. CASE epc' = "open?"
    <3>1. WritingHead'
      BY <1>7, <2>1, WhoWrites
    <3> QED
      BY <1>7, <2>1, <3>1, WritesExclude DEF WriteHeaders, WriteThen, Exclusive
  <2>2. CASE epc' # "open?"
    BY <1>7, <2>2 DEF WriteHeaders, WriteThen
  <2> QED
    BY <2>1, <2>2
<1>8. CASE HeadersWritten
  BY <1>8 DEF HeadersWritten
<1>9. CASE HeadersFail
  BY <1>9 DEF HeadersFail
<1>10. CASE PeerClosed
  BY <1>10 DEF PeerClosed
<1>11. CASE StartCompute
  BY <1>11 DEF StartCompute
<1>12. CASE PrefillChunk
  BY <1>12 DEF PrefillChunk
<1>13. CASE RuntimeCancelled
  BY <1>13 DEF RuntimeCancelled
<1>14. CASE RuntimeFails
  BY <1>14 DEF RuntimeFails
<1>15. CASE EmitBoundary
  <2>1. /\ epc = "computing" /\ (WritingMark' \/ epc' = "token")
        /\ UNCHANGED <<session, claimed, streaming, stop, status, result>>
    BY <1>15, WhoWrites, Zenon DEF EmitBoundary, WriteThen
  <2> QED
    BY <2>1, WritesExclude DEF Exclusive
<1>16. CASE EmitContent
  <2>1. CASE epc' = "open?"
    <3>1. WritingText'
      BY <1>16, <2>1, WhoWrites
    <3> QED
      BY <1>16, <2>1, <3>1, WritesExclude DEF EmitContent, WriteThen, Exclusive
  <2>2. CASE epc' # "open?"
    BY <1>16, <2>2 DEF EmitContent, WriteThen
  <2> QED
    BY <2>1, <2>2
<1>17. CASE ContentLost
  <2>1. /\ epc = "content lost" /\ (epc' = "token lost")
        /\ UNCHANGED <<session, claimed, streaming, stop, status, result>>
    BY <1>17, Zenon DEF ContentLost, WriteThen
  <2> QED
    BY <2>1
<1>18. CASE TokenLost
  <2>1. /\ epc = "token lost" /\ (epc' = "finish" /\ status' = "Cancelled" /\ result' = "ok")
        /\ UNCHANGED <<session, claimed, streaming, stop>>
    BY <1>18, Zenon DEF TokenLost, WriteThen
  <2> QED
    BY <2>1
<1>19. CASE TokenDone
  BY <1>19 DEF TokenDone
<1>20. CASE FinishDeadline
  BY <1>20 DEF FinishDeadline
<1>21. CASE FinishDisconnected
  BY <1>21 DEF FinishDisconnected
<1>22. CASE FinishFailed
  BY <1>22 DEF FinishFailed
<1>23. CASE FinishGenerated
  <2>1. CASE epc' = "open?"
    <3>1. WritingRest'
      BY <1>23, <2>1, WhoWrites
    <3> QED
      BY <1>23, <2>1, <3>1, WritesExclude DEF FinishGenerated, WriteThen, Exclusive
  <2>2. CASE epc' # "open?"
    BY <1>23, <2>2 DEF FinishGenerated, WriteThen
  <2> QED
    BY <2>1, <2>2
<1>24. CASE FlushFails
  BY <1>24 DEF FlushFails
<1>25. CASE StreamStillOpen
  BY <1>25 DEF StreamStillOpen
<1>26. CASE EngineClaims
  <2>1. CASE epc' = "open?"
    <3>1. WritingError'
      BY <1>26, <2>1, WhoWrites
    <3> QED
      BY <1>26, <2>1, <3>1, WritesExclude DEF EngineClaims, WriteThen, Exclusive
  <2>2. CASE epc' # "open?"
    BY <1>26, <2>2 DEF EngineClaims, WriteThen
  <2> QED
    BY <2>1, <2>2
<1>27. CASE FinalizeFails
  <2>1. CASE epc' = "open?"
    <3>1. WritingError'
      BY <1>27, <2>1, WhoWrites
    <3> QED
      BY <1>27, <2>1, <3>1, WritesExclude DEF FinalizeFails, WriteThen, Exclusive
  <2>2. CASE epc' # "open?"
    BY <1>27, <2>2 DEF FinalizeFails, WriteThen
  <2> QED
    BY <2>1, <2>2
<1>28. CASE FinalizeResponse
  <2>1. CASE epc' = "open?"
    <3>1. WritingResponse'
      BY <1>28, <2>1, WhoWrites
    <3> QED
      BY <1>28, <2>1, <3>1, WritesExclude DEF FinalizeResponse, WriteThen, Exclusive
  <2>2. CASE epc' # "open?"
    BY <1>28, <2>2 DEF FinalizeResponse, WriteThen
  <2> QED
    BY <2>1, <2>2
<1>29. CASE ResponseUnwritten
  BY <1>29 DEF ResponseUnwritten
<1>30. CASE DropSink
  BY <1>30 DEF DropSink, TerminalCause
<1>31. CASE LoopStops
  BY <1>31 DEF LoopStops
<1>32. CASE ClientCancels
  BY <1>32 DEF ClientCancels
<1> QED
  BY <1>2, <1>3, <1>4, <1>5, <1>6, <1>7, <1>8, <1>9, <1>10, <1>11, <1>12,
     <1>13, <1>14, <1>15, <1>16, <1>17, <1>18, <1>19, <1>20, <1>21, <1>22,
     <1>23, <1>24, <1>25, <1>26, <1>27, <1>28, <1>29, <1>30, <1>31, <1>32
     DEF Aside

(* The steps of the engine that neither write nor touch the stream.       *)
From(here, there) == epc \in here /\ epc' \in there

QuietPath ==
    \/ From({"queued"}, {"loop", "done"})
    \/ From({"loop"}, {"finish", "filter", "done"})
    \/ From({"filter"}, {"finish", "tick"})
    \/ From({"tick"}, {"finish", "headers"})
    \/ From({"run"}, {"finish", "computing"})
    \/ From({"unheaded", "computing", "token lost", "token"}, {"finish"})
    \/ From({"content lost"}, {"token lost"})
    \/ From({"finish"}, {"claim error", "drop"})
    \/ From({"flushed"}, {"drop", "claim"})
    \/ From({"unflushed", "unwritten"}, {"drop"})
    \/ From({"drop"}, {"done"})
    \/ From({"token"}, {"run", "loop"}) /\ task.tokens < MaxTokens

Quiet ==
    /\ QuietPath
    /\ streaming' = streaming /\ claimed' = claimed
    /\ task'.headers = task.headers /\ task'.prefilled = task.prefilled
    /\ task'.tokens = task.tokens

\* Every other step of the engine is quiet.
LEMMA AsideQuiet ==
  ASSUME task \in TaskType, Aside
  PROVE  \/ AnswerPlain \/ WriteHeaders \/ HeadersWritten \/ PrefillChunk
         \/ EmitBoundary \/ EmitContent \/ FinishGenerated \/ EngineClaims
         \/ FinalizeFails \/ FinalizeResponse
         \/ Quiet
<1>1. CASE AdmitChat
  <2>1. epc = "queued" /\ (epc' = "loop")
    BY <1>1, Zenon DEF AdmitChat, EngineGoes, FinishAs, SessionEnds
  <2>2. streaming' = streaming /\ claimed' = claimed
    BY <1>1, Zenon DEF AdmitChat, shared
  <2>3. /\ task'.headers = task.headers /\ task'.prefilled = task.prefilled
        /\ task'.tokens = task.tokens
    BY <1>1 DEF AdmitChat, work, TaskType
  <2> QED
    BY <2>1, <2>2, <2>3 DEF Quiet, QuietPath, From
<1>2. CASE ExpireTask
  <2>1. epc = "loop" /\ (epc' \in {"finish", "filter"})
    BY <1>2, Zenon DEF ExpireTask, EngineGoes, FinishAs, SessionEnds
  <2>2. streaming' = streaming /\ claimed' = claimed
    BY <1>2, Zenon DEF ExpireTask, shared
  <2>3. /\ task'.headers = task.headers /\ task'.prefilled = task.prefilled
        /\ task'.tokens = task.tokens
    BY <1>2 DEF ExpireTask, work, TaskType
  <2> QED
    BY <2>1, <2>2, <2>3 DEF Quiet, QuietPath, From
<1>3. CASE CancelUnresponsive
  <2>1. epc = "filter" /\ (epc' \in {"finish", "tick"})
    BY <1>3, Zenon DEF CancelUnresponsive, EngineGoes, FinishAs, SessionEnds
  <2>2. streaming' = streaming /\ claimed' = claimed
    BY <1>3, Zenon DEF CancelUnresponsive, shared
  <2>3. /\ task'.headers = task.headers /\ task'.prefilled = task.prefilled
        /\ task'.tokens = task.tokens
    BY <1>3 DEF CancelUnresponsive, work, TaskType, MarkDisconnect
  <2> QED
    BY <2>1, <2>2, <2>3 DEF Quiet, QuietPath, From
<1>4. CASE TickBatch
  <2>1. epc = "tick" /\ (epc' \in {"finish", "headers"})
    BY <1>4, Zenon DEF TickBatch, EngineGoes, FinishAs, SessionEnds
  <2>2. streaming' = streaming /\ claimed' = claimed
    BY <1>4, Zenon DEF TickBatch, shared
  <2>3. /\ task'.headers = task.headers /\ task'.prefilled = task.prefilled
        /\ task'.tokens = task.tokens
    BY <1>4 DEF TickBatch, work, TaskType
  <2> QED
    BY <2>1, <2>2, <2>3 DEF Quiet, QuietPath, From
<1>5. CASE HeadersFail
  <2>1. epc = "unheaded" /\ (epc' = "finish")
    BY <1>5, Zenon DEF HeadersFail, EngineGoes, FinishAs, SessionEnds
  <2>2. streaming' = streaming /\ claimed' = claimed
    BY <1>5, Zenon DEF HeadersFail, shared
  <2>3. /\ task'.headers = task.headers /\ task'.prefilled = task.prefilled
        /\ task'.tokens = task.tokens
    BY <1>5 DEF HeadersFail, work, TaskType, MarkDisconnect
  <2> QED
    BY <2>1, <2>2, <2>3 DEF Quiet, QuietPath, From
<1>6. CASE PeerClosed
  <2>1. epc = "run" /\ (epc' = "finish")
    BY <1>6, Zenon DEF PeerClosed, EngineGoes, FinishAs, SessionEnds
  <2>2. streaming' = streaming /\ claimed' = claimed
    BY <1>6, Zenon DEF PeerClosed, shared
  <2>3. /\ task'.headers = task.headers /\ task'.prefilled = task.prefilled
        /\ task'.tokens = task.tokens
    BY <1>6 DEF PeerClosed, work, TaskType, MarkDisconnect
  <2> QED
    BY <2>1, <2>2, <2>3 DEF Quiet, QuietPath, From
<1>7. CASE StartCompute
  <2>1. epc = "run" /\ (epc' = "computing")
    BY <1>7, Zenon DEF StartCompute, EngineGoes, FinishAs, SessionEnds
  <2>2. streaming' = streaming /\ claimed' = claimed
    BY <1>7, Zenon DEF StartCompute, shared
  <2>3. /\ task'.headers = task.headers /\ task'.prefilled = task.prefilled
        /\ task'.tokens = task.tokens
    BY <1>7 DEF StartCompute, work, TaskType
  <2> QED
    BY <2>1, <2>2, <2>3 DEF Quiet, QuietPath, From
<1>8. CASE RuntimeCancelled
  <2>1. epc = "computing" /\ (epc' = "finish")
    BY <1>8, Zenon DEF RuntimeCancelled, EngineGoes, FinishAs, SessionEnds
  <2>2. streaming' = streaming /\ claimed' = claimed
    BY <1>8, Zenon DEF RuntimeCancelled, shared
  <2>3. /\ task'.headers = task.headers /\ task'.prefilled = task.prefilled
        /\ task'.tokens = task.tokens
    BY <1>8 DEF RuntimeCancelled, work, TaskType
  <2> QED
    BY <2>1, <2>2, <2>3 DEF Quiet, QuietPath, From
<1>9. CASE RuntimeFails
  <2>1. epc = "computing" /\ (epc' = "finish")
    BY <1>9, Zenon DEF RuntimeFails, EngineGoes, FinishAs, SessionEnds
  <2>2. streaming' = streaming /\ claimed' = claimed
    BY <1>9, Zenon DEF RuntimeFails, shared
  <2>3. /\ task'.headers = task.headers /\ task'.prefilled = task.prefilled
        /\ task'.tokens = task.tokens
    BY <1>9 DEF RuntimeFails, work, TaskType
  <2> QED
    BY <2>1, <2>2, <2>3 DEF Quiet, QuietPath, From
<1>10. CASE ContentLost
  <2>1. epc = "content lost" /\ (epc' = "token lost")
    BY <1>10, Zenon DEF ContentLost, EngineGoes, FinishAs, SessionEnds
  <2>2. streaming' = streaming /\ claimed' = claimed
    BY <1>10, Zenon DEF ContentLost, shared
  <2>3. /\ task'.headers = task.headers /\ task'.prefilled = task.prefilled
        /\ task'.tokens = task.tokens
    BY <1>10 DEF ContentLost, work, TaskType
  <2> QED
    BY <2>1, <2>2, <2>3 DEF Quiet, QuietPath, From
<1>11. CASE TokenLost
  <2>1. epc = "token lost" /\ (epc' = "finish")
    BY <1>11, Zenon DEF TokenLost, EngineGoes, FinishAs, SessionEnds
  <2>2. streaming' = streaming /\ claimed' = claimed
    BY <1>11, Zenon DEF TokenLost, shared
  <2>3. /\ task'.headers = task.headers /\ task'.prefilled = task.prefilled
        /\ task'.tokens = task.tokens
    BY <1>11 DEF TokenLost, work, TaskType
  <2> QED
    BY <2>1, <2>2, <2>3 DEF Quiet, QuietPath, From
<1>12. CASE TokenDone
  <2>1. epc = "token" /\ (epc' = "finish" \/ (task.tokens < MaxTokens /\ epc' \in {"run", "loop"}))
    BY <1>12, Zenon DEF TokenDone, EngineGoes, FinishAs, SessionEnds
  <2>2. streaming' = streaming /\ claimed' = claimed
    BY <1>12, Zenon DEF TokenDone, shared
  <2>3. /\ task'.headers = task.headers /\ task'.prefilled = task.prefilled
        /\ task'.tokens = task.tokens
    BY <1>12 DEF TokenDone, work, TaskType
  <2> QED
    BY <2>1, <2>2, <2>3 DEF Quiet, QuietPath, From
<1>13. CASE FinishDeadline
  <2>1. epc = "finish" /\ (epc' = "claim error")
    BY <1>13, Zenon DEF FinishDeadline, EngineGoes, FinishAs, SessionEnds
  <2>2. streaming' = streaming /\ claimed' = claimed
    BY <1>13, Zenon DEF FinishDeadline, shared
  <2>3. /\ task'.headers = task.headers /\ task'.prefilled = task.prefilled
        /\ task'.tokens = task.tokens
    BY <1>13 DEF FinishDeadline, work, TaskType
  <2> QED
    BY <2>1, <2>2, <2>3 DEF Quiet, QuietPath, From
<1>14. CASE FinishDisconnected
  <2>1. epc = "finish" /\ (epc' = "drop")
    BY <1>14, Zenon DEF FinishDisconnected, EngineGoes, FinishAs, SessionEnds
  <2>2. streaming' = streaming /\ claimed' = claimed
    BY <1>14, Zenon DEF FinishDisconnected, shared
  <2>3. /\ task'.headers = task.headers /\ task'.prefilled = task.prefilled
        /\ task'.tokens = task.tokens
    BY <1>14 DEF FinishDisconnected, work, TaskType
  <2> QED
    BY <2>1, <2>2, <2>3 DEF Quiet, QuietPath, From
<1>15. CASE FinishFailed
  <2>1. epc = "finish" /\ (epc' = "claim error")
    BY <1>15, Zenon DEF FinishFailed, EngineGoes, FinishAs, SessionEnds
  <2>2. streaming' = streaming /\ claimed' = claimed
    BY <1>15, Zenon DEF FinishFailed, shared
  <2>3. /\ task'.headers = task.headers /\ task'.prefilled = task.prefilled
        /\ task'.tokens = task.tokens
    BY <1>15 DEF FinishFailed, work, TaskType
  <2> QED
    BY <2>1, <2>2, <2>3 DEF Quiet, QuietPath, From
<1>16. CASE FlushFails
  <2>1. epc = "unflushed" /\ (epc' = "drop")
    BY <1>16, Zenon DEF FlushFails, EngineGoes, FinishAs, SessionEnds
  <2>2. streaming' = streaming /\ claimed' = claimed
    BY <1>16, Zenon DEF FlushFails, shared
  <2>3. /\ task'.headers = task.headers /\ task'.prefilled = task.prefilled
        /\ task'.tokens = task.tokens
    BY <1>16 DEF FlushFails, work, TaskType
  <2> QED
    BY <2>1, <2>2, <2>3 DEF Quiet, QuietPath, From
<1>17. CASE StreamStillOpen
  <2>1. epc = "flushed" /\ (epc' \in {"drop", "claim"})
    BY <1>17, Zenon DEF StreamStillOpen, EngineGoes, FinishAs, SessionEnds
  <2>2. streaming' = streaming /\ claimed' = claimed
    BY <1>17, Zenon DEF StreamStillOpen, shared
  <2>3. /\ task'.headers = task.headers /\ task'.prefilled = task.prefilled
        /\ task'.tokens = task.tokens
    BY <1>17 DEF StreamStillOpen, work, TaskType
  <2> QED
    BY <2>1, <2>2, <2>3 DEF Quiet, QuietPath, From
<1>18. CASE ResponseUnwritten
  <2>1. epc = "unwritten" /\ (epc' = "drop")
    BY <1>18, Zenon DEF ResponseUnwritten, EngineGoes, FinishAs, SessionEnds
  <2>2. streaming' = streaming /\ claimed' = claimed
    BY <1>18, Zenon DEF ResponseUnwritten, shared
  <2>3. /\ task'.headers = task.headers /\ task'.prefilled = task.prefilled
        /\ task'.tokens = task.tokens
    BY <1>18 DEF ResponseUnwritten, work, TaskType
  <2> QED
    BY <2>1, <2>2, <2>3 DEF Quiet, QuietPath, From
<1>19. CASE DropSink
  <2>1. epc = "drop" /\ (epc' = "done")
    BY <1>19, Zenon DEF DropSink, EngineGoes, FinishAs, SessionEnds
  <2>2. streaming' = streaming /\ claimed' = claimed
    BY <1>19, Zenon DEF DropSink, shared
  <2>3. /\ task'.headers = task.headers /\ task'.prefilled = task.prefilled
        /\ task'.tokens = task.tokens
    BY <1>19 DEF DropSink, work, TaskType
  <2> QED
    BY <2>1, <2>2, <2>3 DEF Quiet, QuietPath, From
<1>20. CASE LoopStops
  <2>1. epc \in {"queued", "loop"} /\ (epc' = "done")
    BY <1>20, Zenon DEF LoopStops, EngineGoes, FinishAs, SessionEnds
  <2>2. streaming' = streaming /\ claimed' = claimed
    BY <1>20, Zenon DEF LoopStops, shared
  <2>3. /\ task'.headers = task.headers /\ task'.prefilled = task.prefilled
        /\ task'.tokens = task.tokens
    BY <1>20 DEF LoopStops, work, TaskType
  <2> QED
    BY <2>1, <2>2, <2>3 DEF Quiet, QuietPath, From
<1>21. CASE ClientCancels
  <2>1. epc = "loop" /\ (epc' = "finish")
    BY <1>21, Zenon DEF ClientCancels, EngineGoes, FinishAs, SessionEnds
  <2>2. streaming' = streaming /\ claimed' = claimed
    BY <1>21, Zenon DEF ClientCancels, shared
  <2>3. /\ task'.headers = task.headers /\ task'.prefilled = task.prefilled
        /\ task'.tokens = task.tokens
    BY <1>21 DEF ClientCancels, work, TaskType
  <2> QED
    BY <2>1, <2>2, <2>3 DEF Quiet, QuietPath, From
<1> QED
  BY <1>1, <1>2, <1>3, <1>4, <1>5, <1>6, <1>7, <1>8, <1>9, <1>10, <1>11,
     <1>12, <1>13, <1>14, <1>15, <1>16, <1>17, <1>18, <1>19, <1>20, <1>21
     DEF Aside

\* Going on outside of a write keeps the head before the chunks.
LEMMA TaskGoes ==
  ASSUME TaskInv, task'.kind = task.kind, task'.headers = task.headers,
         task'.prefilled = task.prefilled, streaming' = streaming,
         task.kind = "stream" /\ task'.tokens > 0 => task.headers,
         epc' \notin SinkPcs, epc' \notin {"headed", "unheaded", "content"},
         epc' \in {"queued", "loop", "filter", "tick", "headers", "headed",
                   "run", "computing"} => task'.tokens < MaxTokens,
         task.kind = "stream" /\ epc' \in {"run", "computing", "token"} =>
           task.headers
  PROVE  TaskInv'
<1>1. Idle'
  BY IdleOutside
<1> QED
  BY <1>1 DEF TaskInv, Idle

\* So does beginning a write other than that of the head.
LEMMA TaskBegins ==
  ASSUME TaskInv, task'.kind = task.kind, task'.headers = task.headers,
         task'.prefilled = task.prefilled, streaming' = streaming,
         task.kind = "stream" /\ task'.tokens > 0 => task.headers,
         epc' = "open?", ~WritingHead',
         task.kind # "stream" => script' = <<"full">>,
         script' = <<"full">> \/ task.headers
  PROVE  TaskInv'
<1>1. Head(<<"full">>) \notin Chunks
  BY DEF Chunks
<1> QED
  BY <1>1 DEF TaskInv

\* A quiet step keeps the head before the chunks.
LEMMA QuietTaskInv ==
  ASSUME TaskInv, Quiet, task'.kind = task.kind
  PROVE  TaskInv'
<1>1. /\ epc' \notin SinkPcs
      /\ epc' \notin {"headed", "unheaded", "content"}
  BY DEF Quiet, QuietPath, From, SinkPcs
<1>2. epc' \in {"queued", "loop", "filter", "tick", "headers", "headed", "run",
                "computing"} => task.tokens < MaxTokens
  BY DEF Quiet, QuietPath, From, TaskInv
<1>3. task.kind = "stream" /\ epc' \in {"run", "computing", "token"}
        => task.headers
  BY DEF Quiet, QuietPath, From, TaskInv
<1>4. task.kind = "stream" /\ task.tokens > 0 => task.headers
  BY DEF TaskInv
<1> QED
  BY <1>1, <1>2, <1>3, <1>4, TaskGoes DEF Quiet

\* The engine's own steps keep the head before the chunks.
LEMMA AsideTaskInv ==
  ASSUME ResponseInv, Aside
  PROVE  TaskInv'
<1>1. /\ TaskInv /\ epc \notin SinkPcs /\ task \in TaskType
      /\ task.tokens \in 0..MaxTokens /\ MaxTokens \in Nat
  <2>1. task \in TaskType
    BY DEF ResponseInv, TypeOK, TaskType
  <2>2. task.tokens \in 0..MaxTokens
    BY <2>1 DEF TaskType
  <2> QED
    BY <2>1, <2>2, AsideEffect, BoundsAssumption DEF ResponseInv
<1>2. /\ task'.kind = task.kind
      /\ task'.headers = task.headers \/ (HeadersWritten /\ task'.headers)
      /\ task'.prefilled = task.prefilled \/ PrefillChunk
      /\ \/ task'.tokens = task.tokens
         \/ EmitBoundary /\ task'.tokens = task.tokens + 1
  BY <1>1, TaskFields
<1>3. /\ task.kind = "stream" =>
           /\ task.tokens > 0 => task.headers
           /\ task.prefilled => task.headers
           /\ epc \in {"run", "computing", "content", "token"} => task.headers
      /\ task.kind # "stream" => ~task.headers /\ epc \notin {"headed", "content"}
  BY <1>1 DEF TaskInv
<1>4. CASE AnswerPlain
  <2>1. /\ epc' = "open?" /\ script' = <<"full">> /\ UNCHANGED <<task, streaming>>
    BY <1>4, Zenon DEF AnswerPlain, WriteThen, work, shared
  <2>2. ~WritingHead'
    BY <1>4, <2>1, WhoWrites, WritesExclude DEF Exclusive
  <2> QED
    BY <1>1, <1>3, <2>1, <2>2, TaskBegins
<1>5. CASE WriteHeaders
  <2>1. epc = "headers" /\ task' = task /\ task.tokens < MaxTokens
    BY <1>1, <1>5 DEF WriteHeaders, work, TaskInv
  <2>2. CASE task.kind = "stream" /\ ~task.headers
    <3>1. epc' = "open?" /\ streaming' = TRUE
      BY <1>5, <2>2, Zenon DEF WriteHeaders, WriteThen
    <3>2. WritingHead'
      BY <1>5, <3>1, WhoWrites
    <3> QED
      BY <1>1, <2>1, <2>2, <3>1, <3>2 DEF TaskInv
  <2>3. CASE ~(task.kind = "stream" /\ ~task.headers)
    <3>1. epc' = "run" /\ streaming' = streaming
      BY <1>5, <2>3, Zenon DEF WriteHeaders, EngineGoes
    <3>2. epc' \notin SinkPcs
      BY <3>1 DEF SinkPcs
    <3> QED
      BY <1>1, <1>3, <2>1, <2>3, <3>1, <3>2, TaskGoes
  <2> QED
    BY <2>2, <2>3
<1>6. CASE HeadersWritten
  <2>1. epc = "headed" /\ epc' = "run" /\ streaming' = streaming
    BY <1>6, Zenon DEF HeadersWritten, EngineGoes, shared
  <2>2. task' = [task EXCEPT !.headers = TRUE]
    BY <1>6 DEF HeadersWritten
  <2>3. task'.headers /\ task'.tokens = task.tokens
    BY <1>1, <2>2 DEF TaskType
  <2>4. Idle' /\ epc' \notin SinkPcs
    BY <2>1, IdleOutside DEF SinkPcs
  <2> QED
    BY <1>1, <1>2, <1>3, <2>1, <2>3, <2>4 DEF TaskInv, Idle
<1>7. CASE PrefillChunk
  <2>1. epc = "computing" /\ epc' = "loop" /\ streaming' = streaming
    BY <1>7, Zenon DEF PrefillChunk, EngineGoes, shared
  <2>2. task'.headers = task.headers /\ task'.tokens = task.tokens
    BY <1>1, <1>7 DEF PrefillChunk, TaskType
  <2>3. Idle' /\ epc' \notin SinkPcs
    BY <2>1, IdleOutside DEF SinkPcs
  <2> QED
    BY <1>1, <1>2, <1>3, <2>1, <2>2, <2>3 DEF TaskInv, Idle
<1>8. CASE EmitBoundary
  <2>1. /\ epc = "computing" /\ streaming' = streaming
        /\ \/ task.kind = "stream" /\ epc' = "open?"
           \/ task.kind # "stream" /\ epc' = "token"
    BY <1>8, Zenon DEF EmitBoundary, EngineGoes, WriteThen, shared
  <2>2. task'.headers = task.headers /\ task'.prefilled = task.prefilled
    BY <1>1, <1>8 DEF EmitBoundary, TaskType
  <2>3. CASE epc' = "open?"
    <3>1. ~WritingHead'
      BY <1>8, <2>3, WhoWrites, WritesExclude DEF Exclusive
    <3> QED
      BY <1>1, <1>2, <1>3, <2>1, <2>2, <2>3, <3>1, TaskBegins
  <2>4. CASE epc' = "token"
    <3>1. epc' \notin SinkPcs
      BY <2>4 DEF SinkPcs
    <3> QED
      BY <1>1, <1>2, <1>3, <2>1, <2>2, <2>4, <3>1, TaskGoes
  <2> QED
    BY <2>1, <2>3, <2>4
<1>9. CASE EmitContent
  <2>1. /\ epc = "content" /\ epc' \in {"open?", "token"}
        /\ UNCHANGED <<task, streaming>>
    BY <1>9, Zenon DEF EmitContent, EngineGoes, WriteThen, shared, work
  <2>2. CASE epc' = "open?"
    <3>1. ~WritingHead'
      BY <1>9, <2>2, WhoWrites, WritesExclude DEF Exclusive
    <3> QED
      BY <1>1, <1>3, <2>1, <2>2, <3>1, TaskBegins
  <2>3. CASE epc' = "token"
    <3>1. epc' \notin SinkPcs
      BY <2>3 DEF SinkPcs
    <3> QED
      BY <1>1, <1>3, <2>1, <2>3, <3>1, TaskGoes
  <2> QED
    BY <2>1, <2>2, <2>3
<1>10. CASE FinishGenerated
  <2>1. /\ UNCHANGED <<task, streaming>>
        /\ \/ epc' = "open?" /\ task.kind = "stream" /\ task.tokens > 0
           \/ epc' = "flushed"
    BY <1>10, Zenon DEF FinishGenerated, EngineGoes, WriteThen, shared, work
  <2>2. CASE epc' = "open?"
    <3>1. ~WritingHead'
      BY <1>10, <2>2, WhoWrites, WritesExclude DEF Exclusive
    <3> QED
      BY <1>1, <1>3, <2>1, <2>2, <3>1, TaskBegins
  <2>3. CASE epc' = "flushed"
    <3>1. epc' \notin SinkPcs
      BY <2>3 DEF SinkPcs
    <3> QED
      BY <1>1, <1>3, <2>1, <2>3, <3>1, TaskGoes
  <2> QED
    BY <2>1, <2>2, <2>3
<1>11. CASE EngineClaims
  <2>1. /\ UNCHANGED <<task, streaming>>
        /\ \/ epc' = "open?" /\ script' = ErrorResponse
           \/ epc' \in {"finalize", "drop"}
    BY <1>11, Zenon DEF EngineClaims, EngineGoes, WriteThen
  <2>2. CASE epc' = "open?"
    <3>1. ~WritingHead'
      BY <1>11, <2>2, WhoWrites, WritesExclude DEF Exclusive
    <3>2. script' = <<"full">> \/ task.headers
      BY <2>1, <2>2 DEF ErrorResponse
    <3> QED
      BY <1>1, <1>3, <2>1, <2>2, <3>1, <3>2, TaskBegins
  <2>3. CASE epc' # "open?"
    <3>1. epc' \notin SinkPcs
      BY <2>1, <2>3 DEF SinkPcs
    <3> QED
      BY <1>1, <1>3, <2>1, <2>3, <3>1, TaskGoes
  <2> QED
    BY <2>2, <2>3
<1>12. CASE FinalizeFails
  <2>1. /\ UNCHANGED <<task, streaming>>
        /\ epc' = "open?" /\ script' = ErrorResponse
    BY <1>12, Zenon DEF FinalizeFails, WriteThen, shared
  <2>2. ~WritingHead'
    BY <1>12, <2>1, WhoWrites, WritesExclude DEF Exclusive
  <2>3. script' = <<"full">> \/ task.headers
    BY <2>1 DEF ErrorResponse
  <2> QED
    BY <1>1, <1>3, <2>1, <2>2, <2>3, TaskBegins
<1>13. CASE FinalizeResponse
  <2>1. /\ UNCHANGED <<task, streaming>> /\ epc' = "open?" /\ task.prefilled
        /\ task.kind # "stream" => script' = <<"full">>
    BY <1>13, Zenon DEF FinalizeResponse, WriteThen, shared
  <2>2. ~WritingHead'
    BY <1>13, <2>1, WhoWrites, WritesExclude DEF Exclusive
  <2> QED
    BY <1>1, <1>3, <2>1, <2>2, TaskBegins
<1>14. CASE Quiet
  BY <1>1, <1>2, <1>14, QuietTaskInv
<1> QED
  BY <1>1, <1>4, <1>5, <1>6, <1>7, <1>8, <1>9, <1>10, <1>11, <1>12, <1>13,
     <1>14, AsideQuiet

-------------------------------------------------------------------------------
(* Frames on their way. *)

\* What appending a frame does.
LEMMA AppendFacts ==
  ASSUME NEW S, NEW s \in Seq(S), NEW e \in S
  PROVE  /\ Len(Append(s, e)) = Len(s) + 1 /\ Len(s) \in Nat
         /\ Append(s, e) # <<>>
         /\ \A i \in 1..Len(s) : Append(s, e)[i] = s[i]
         /\ Append(s, e)[Len(s) + 1] = e
         /\ s = <<>> <=> Len(s) = 0
OBVIOUS

\* What taking the first frame does.
LEMMA TailFacts ==
  ASSUME NEW S, NEW s \in Seq(S), s # <<>>
  PROVE  /\ Len(s) = Len(Tail(s)) + 1 /\ Len(Tail(s)) \in Nat
         /\ Head(s) = s[1] /\ Head(s) \in S
         /\ \A i \in 1..Len(Tail(s)) : Tail(s)[i] = s[i + 1]
         /\ Tail(s) = <<>> <=> Len(Tail(s)) = 0
<1>1. Tail(s) \in Seq(S) /\ Len(s) \in Nat /\ Len(s) # 0
  OBVIOUS
<1>2. Len(s) = Len(Tail(s)) + 1 /\ Head(s) = s[1] /\ Head(s) \in S
  BY <1>1
<1>3. \A i \in 1..Len(Tail(s)) : Tail(s)[i] = s[i + 1]
  BY <1>1
<1>4. Tail(s) = <<>> <=> Len(Tail(s)) = 0
  <2> DEFINE t == Tail(s)
  <2>1. t \in Seq(S)
    BY <1>1
  <2> HIDE DEF t
  <2>2. t = <<>> <=> Len(t) = 0
    BY <2>1
  <2> QED
    BY <2>2 DEF t
<1> QED
  BY <1>1, <1>2, <1>3, <1>4

(* The steps of the writer that move no frame. *)
WriterAside ==
    \/ NextFrame \/ ChooseWait \/ ReceiveNothing \/ BeginFrame \/ CancelOutput
    \/ FallbackChecks \/ GraceEnds \/ WriterClaims

\* They leave the frames where they are.
LEMMA WriterAsideEffect ==
  ASSUME WriterAside
  PROVE  /\ UNCHANGED <<pending, started, queue, wire, headLost>>
         /\ Hand' <=> Hand
         /\ Hand => wframe' = wframe
         /\ Live' => Live
         /\ wpc = "respond" => FALSE
         /\ wpc' = "respond" => claimed = "none" /\ claimed' = "writer"
         /\ \/ claimed' = claimed /\ wpc \notin {"done"}
            \/ claimed = "none" /\ claimed' = "writer" /\ wpc' = "respond"
         /\ claimed = "writer" /\ wpc = "cancel" => wpc' = "done"
<1> USE DEF Hand, Live, shared, channel, WriterGoes, WriterCloses
<1>1. CASE NextFrame
  BY <1>1 DEF NextFrame
<1>2. CASE ChooseWait
  BY <1>2 DEF ChooseWait
<1>3. CASE ReceiveNothing
  BY <1>3 DEF ReceiveNothing
<1>4. CASE BeginFrame
  BY <1>4 DEF BeginFrame
<1>5. CASE CancelOutput
  BY <1>5 DEF CancelOutput
<1>6. CASE FallbackChecks
  BY <1>6 DEF FallbackChecks
<1>7. CASE GraceEnds
  BY <1>7 DEF GraceEnds
<1>8. CASE WriterClaims
  BY <1>8 DEF WriterClaims
<1> QED
  BY <1>1, <1>2, <1>3, <1>4, <1>5, <1>6, <1>7, <1>8 DEF WriterAside

(* The writer takes a frame, or drops one that was queued too late. *)
Takes ==
    /\ queue # <<>> /\ queue' = Tail(queue)
    /\ wpc \in {"poll", "wait"}
    /\ UNCHANGED <<claimed, started, wire>>
    /\ \/ /\ QueuedLate(Head(queue)) /\ wpc' \in {"fallback", "check"}
          /\ headLost' = (headLost \/ Head(queue).item = "head")
       \/ /\ ~QueuedLate(Head(queue)) /\ headLost' = headLost
          /\ wpc' = "write" /\ wframe' = Head(queue)

(* It writes the frame it holds. *)
Shows ==
    /\ wpc = "writing" /\ wpc' = "check"
    /\ wire' = Append(wire, [item |-> wframe.item, terminal |-> wframe.terminal])
    /\ started' /\ UNCHANGED <<claimed, queue, headLost>>

(* Its last write: a frame or the deadline response fails, or is done.     *)
Breaks ==
    /\ wpc \in {"writing", "respond"} /\ wpc' = "cancel"
    /\ wire' \in {wire, Append(wire, Torn)}
    /\ UNCHANGED <<claimed, started, queue, headLost>>

Responds ==
    /\ wpc = "respond" /\ wpc' = "cancel"
    /\ wire' = Append(wire, DeadlineResponse)
    /\ UNCHANGED <<claimed, queue, headLost>>

\* The writer's steps, as far as frames are concerned.
LEMMA WriterMoves ==
  ASSUME Writer
  PROVE  WriterAside \/ Takes \/ Shows \/ Breaks \/ Responds
<1>1. CASE ReceiveFrame
  BY <1>1 DEF ReceiveFrame, Takes
<1>2. CASE FrameWritten
  BY <1>2 DEF FrameWritten, Shows, WriterGoes
<1>3. CASE FrameFails \/ FallbackFails
  BY <1>3 DEF FrameFails, FallbackFails, Breaks, WriterGoes
<1>4. CASE FallbackWritten
  BY <1>4 DEF FallbackWritten, Responds, WriterGoes
<1> QED
  BY <1>1, <1>2, <1>3, <1>4 DEF Writer, WriterAside

-------------------------------------------------------------------------------
(* The owner of the ending. *)

\* A terminal frame carries a claim that was made before it.
LEMMA OwnerKept ==
  ASSUME ResponseInv, Next
  PROVE  OwnerInv'
<1>1. /\ OwnerInv /\ queue \in Seq(Frame) /\ wire \in Seq(Shown)
      /\ TypeOK
  BY DEF ResponseInv, TypeOK
<1>2. CASE Tick \/ PeerChanges \/ Interrupt \/ Watcher \/ Aside
  <2>1. /\ UNCHANGED <<queue, wire, wpc, wframe>>
        /\ claimed' = claimed \/ (claimed = "none" /\ claimed' = "engine")
    BY <1>2, WorldEffect, WatcherEffect, AsideEffect
       DEF shared, channel, writer
  <2>2. Hand' <=> Hand
    BY <2>1 DEF Hand
  <2> QED
    BY <1>1, <2>1, <2>2 DEF OwnerInv
<1>3. CASE Sink
  <2>1. UNCHANGED <<wire, wpc, wframe, claimed>>
    BY <1>3, SinkEffect DEF writer
  <2>2. Hand' <=> Hand
    BY <2>1 DEF Hand
  <2>3. \A i \in 1..Len(queue') : queue'[i].terminal => claimed # "none"
    <3>1. CASE queue' = queue
      BY <1>1, <3>1 DEF OwnerInv
    <3>2. CASE queue' # queue
      <4>1. epc = "send" /\ queue' = Append(queue, eframe)
        BY <1>3, <3>2 DEF Sink, SinkChecks, SinkReserves, SinkStamps,
           SinkSends, channel
      <4>2. eframe \in Frame /\ (eframe.terminal => claimed # "none")
        BY <4>1 DEF ResponseInv, TypeOK, WriteInv
      <4> QED
        BY <1>1, <4>1, <4>2, AppendFacts DEF OwnerInv
    <3> QED
      BY <3>1, <3>2
  <2> QED
    BY <1>1, <2>1, <2>2, <2>3 DEF OwnerInv
<1>4. CASE WriterAside
  BY <1>1, <1>4, WriterAsideEffect DEF OwnerInv
<1>5. CASE Takes
  <2>1. \A i \in 1..Len(queue') : queue'[i].terminal => claimed # "none"
    BY <1>1, <1>5, TailFacts DEF Takes, OwnerInv
  <2>2. Head(queue).terminal => claimed # "none"
    BY <1>1, <1>5, TailFacts DEF Takes, OwnerInv
  <2> QED
    BY <1>1, <1>5, <2>1, <2>2 DEF Takes, OwnerInv, Hand
<1>6. CASE Shows
  <2>1. wframe.terminal => claimed # "none"
    BY <1>1, <1>6 DEF Shows, OwnerInv, Hand
  <2> DEFINE e == [item |-> wframe.item, terminal |-> wframe.terminal]
  <2>2. e \in Shown /\ e.terminal = wframe.terminal
    BY <1>1, ShownTypes
  <2>3. wire' = Append(wire, e)
    BY <1>6 DEF Shows
  <2> HIDE DEF e
  <2>4. \A i \in 1..Len(wire') : wire'[i].terminal => claimed # "none"
    BY <1>1, <2>1, <2>2, <2>3, AppendFacts DEF OwnerInv
  <2> QED
    BY <1>1, <1>6, <2>4 DEF Shows, OwnerInv, Hand
<1>7. CASE Breaks
  <2>1. Torn \in Shown /\ ~Torn.terminal
    BY <1>1, ShownTypes DEF Torn
  <2>2. \A i \in 1..Len(wire') : wire'[i].terminal => claimed # "none"
    <3>1. CASE wire' = wire
      BY <1>1, <3>1 DEF OwnerInv
    <3>2. CASE wire' = Append(wire, Torn)
      BY <1>1, <2>1, <3>2, AppendFacts DEF OwnerInv
    <3> QED
      BY <1>7, <3>1, <3>2 DEF Breaks
  <2> QED
    BY <1>1, <1>7, <2>2 DEF Breaks, OwnerInv, Hand
<1>8. CASE Responds
  <2>1. DeadlineResponse \in Shown /\ claimed = "writer"
    BY <1>1, <1>8, ShownTypes DEF Responds, OwnerInv
  <2> QED
    BY <1>1, <1>8, <2>1 DEF Responds, OwnerInv, Hand
<1> QED
  BY <1>2, <1>3, <1>4, <1>5, <1>6, <1>7, <1>8, NextSplit, WriterMoves

-------------------------------------------------------------------------------
(* The end of a response. *)

\* The engine begins no write once its last frame is out.
LEMMA AsideAfterEnd ==
  ASSUME ResponseInv, Aside, epc \in {"unwritten", "drop", "done"}
  PROVE  epc' \in {"drop", "done"} /\ claimed' = claimed
<1>1. task \in TaskType
  BY DEF ResponseInv, TypeOK, TaskType
<1>2. Quiet
  BY <1>1, AsideQuiet
     DEF AnswerPlain, WriteHeaders, HeadersWritten, PrefillChunk, EmitBoundary,
         EmitContent, FinishGenerated, EngineClaims, FinalizeFails,
         FinalizeResponse
<1> QED
  BY <1>2 DEF Quiet, QuietPath, From

\* A frame that ends the response is the last of its script; the engine owns
\* the ending, unless the request was answered on the spot.
LEMMA LastFrame ==
  ASSUME ResponseInv, Sink, epc = "send", eframe.item \in Ending
  PROVE  /\ epc' \in {"unwritten", "drop"}
         /\ task.kind # "plain" => claimed = "engine"
<1>1. /\ epc \in SinkPcs /\ script \in Scripts /\ Head(script) \in Ending
  BY SinkEffect, SinkScript DEF ResponseInv, WriteInv
<1>2. Len(script) = 1
  BY <1>1, ScriptShape
<1>3. SinkSucceeds \/ SinkFails
  BY <1>2, SinkMoves DEF SinkStays, SinkContinues
<1>4. WritingError \/ WritingResponse
  <2>1. /\ Head(<<"head", "role">>) \notin Ending /\ Head(<<"role">>) \notin Ending
        /\ Head(<<"mark">>) \notin Ending /\ Head(<<"text">>) \notin Ending
    BY DEF Ending
  <2>2. ~WritingHead /\ ~WritingMark /\ ~WritingText /\ ~WritingRest
    BY <1>1, <2>1 DEF WritingHead, WritingMark, WritingText, WritingRest, Writing
  <2> QED
    BY <1>1, <2>2 DEF ResponseInv, WriteInv
<1>5. ret.ok \in {"drop"} /\ ret.err \in {"drop", "unwritten"}
  BY <1>4, ReturnFields DEF WritingError, WritingResponse, Writing
<1>6. epc' \in {"unwritten", "drop"}
  BY <1>3, <1>5 DEF SinkSucceeds, SinkFails, EngineGoes
<1>7. task.kind # "plain" => claimed = "engine"
  BY <1>4 DEF ResponseInv, PhaseInv, Answering
<1> QED
  BY <1>6, <1>7

\* A step of a write that queues nothing leaves the channel alone.
LEMMA SinkQueue ==
  ASSUME ResponseInv, Sink
  PROVE  \/ queue' = queue
         \/ /\ epc = "send" /\ queue' = Append(queue, eframe)
            /\ eframe \in Frame /\ eframe.item = Head(script)
<1>1. eframe \in Frame /\ (epc = "send" => eframe.item = Head(script))
  BY DEF ResponseInv, TypeOK, WriteInv
<1> QED
  BY <1>1 DEF Sink, SinkChecks, SinkReserves, SinkStamps, SinkSends, channel

\* The engine's last frame stays behind everything else.
LEMMA EndKept ==
  ASSUME ResponseInv, Next
  PROVE  EndInv'
<1> SUFFICES ASSUME Live'
             PROVE  EndInv'
  BY DEF EndInv
<1>1. /\ EndInv /\ OwnerInv /\ TypeOK /\ queue \in Seq(Frame) /\ wire \in Seq(Shown)
  BY DEF ResponseInv, TypeOK
<1>2. CASE Tick \/ PeerChanges \/ Interrupt \/ Watcher
  <2>1. UNCHANGED <<queue, wire, wpc, wframe, claimed, started, epc, task>>
    BY <1>2, WorldEffect, WatcherEffect DEF shared, channel, writer, engine, work
  <2>2. UNCHANGED <<Hand, Live, EndSent>>
    BY <2>1 DEF Hand, Live, EndSent
  <2> QED
    BY <1>1, <2>1, <2>2 DEF EndInv
<1>3. CASE Aside
  <2>1. /\ UNCHANGED <<queue, wire, wpc, wframe, started>>
        /\ claimed = "engine" => claimed' = "engine"
        /\ task'.kind = task.kind
    <3>1. task \in TaskType
      BY <1>1 DEF TypeOK, TaskType
    <3> QED
      BY <1>3, <3>1, AsideEffect, TaskFields DEF writer
  <2>2. UNCHANGED <<Hand, Live, EndSent>>
    BY <2>1 DEF Hand, Live, EndSent
  <2> QED
    BY <1>1, <1>3, <2>1, <2>2, AsideAfterEnd DEF EndInv
<1>4. CASE Sink
  <2>1. /\ UNCHANGED <<wire, wpc, wframe, claimed, started, task>>
        /\ epc \in SinkPcs
    BY <1>4, SinkEffect DEF writer
  <2>2. UNCHANGED <<Hand, Live>>
    BY <2>1 DEF Hand, Live
  <2>3. ~EndSent
    BY <1>1, <2>1, <2>2 DEF EndInv, SinkPcs
  <2>4. CASE queue' = queue
    <3>1. ~EndSent'
      BY <2>1, <2>2, <2>3, <2>4 DEF EndSent
    <3> QED
      BY <1>1, <2>1, <2>2, <2>4, <3>1 DEF EndInv
  <2>5. CASE epc = "send" /\ queue' = Append(queue, eframe) /\ eframe \in Frame
    <3>1. /\ Len(queue') = Len(queue) + 1 /\ Len(queue) \in Nat
          /\ \A i \in 1..Len(queue) : queue'[i] = queue[i]
          /\ queue'[Len(queue) + 1] = eframe
      BY <1>1, <2>5, AppendFacts
    <3>2. \A i \in 1..Len(queue') : queue'[i].item \in Ending =>
            i = Len(queue') /\ eframe.item \in Ending
      BY <2>3, <3>1 DEF EndSent
    <3>3. EndSent' => eframe.item \in Ending
      BY <2>1, <2>2, <2>3, <3>2 DEF EndSent
    <3>4. EndSent' => /\ epc' \in {"unwritten", "drop", "done"}
                      /\ task.kind # "plain" => claimed = "engine"
      BY <1>4, <2>5, <3>3, LastFrame
    <3>5. /\ ~(Hand /\ wframe.item \in Ending)
          /\ \A i \in 1..Len(wire) : wire[i].item \notin Ending
      BY <2>3 DEF EndSent
    <3> QED
      BY <1>1, <2>1, <2>2, <3>2, <3>4, <3>5 DEF EndInv
  <2> QED
    BY <1>4, <2>4, <2>5, SinkQueue
<1>5. ASSUME Writer
      PROVE  /\ UNCHANGED <<epc, task>>
             /\ claimed' = claimed \/ (claimed = "none" /\ claimed' = "writer")
  BY <1>5, WriterEffect DEF engine, work
<1>6. CASE WriterAside
  <2>1. /\ UNCHANGED <<started, queue, wire>> /\ (Hand' <=> Hand)
        /\ Hand => wframe' = wframe
        /\ Live
    BY <1>6, WriterAsideEffect
  <2>2. EndSent' <=> EndSent
    BY <2>1 DEF EndSent
  <2>3. Writer
    BY <1>6 DEF WriterAside, Writer
  <2> QED
    BY <1>1, <1>5, <2>1, <2>2, <2>3 DEF EndInv
<1>7. CASE Takes /\ Writer
  <2>1. /\ Live /\ ~Hand
        /\ \A i \in 1..Len(queue) : queue[i].item \in Ending => i = Len(queue)
    BY <1>1, <1>7 DEF Takes, Live, Hand, EndInv
  <2>2. /\ Len(queue) = Len(queue') + 1 /\ Len(queue') \in Nat
        /\ Head(queue) = queue[1]
        /\ \A i \in 1..Len(queue') : queue'[i] = queue[i + 1]
        /\ queue' = <<>> <=> Len(queue') = 0
    BY <1>1, <1>7, TailFacts DEF Takes
  <2>3. /\ \A i \in 1..Len(queue') : queue'[i].item \in Ending => i = Len(queue')
        /\ Head(queue).item \in Ending => queue' = <<>>
    BY <2>1, <2>2
  <2>4. /\ (\E i \in 1..Len(queue') : queue'[i].item \in Ending) => EndSent
        /\ Head(queue).item \in Ending => EndSent
    BY <2>2 DEF EndSent
  <2>5. Hand' => wframe' = Head(queue)
    BY <1>7 DEF Takes, Hand
  <2>6. UNCHANGED <<claimed, started, wire>> /\ queue # <<>>
    BY <1>7 DEF Takes
  <2>7. EndSent' => EndSent
    BY <2>4, <2>5, <2>6 DEF EndSent
  <2>8. \A i \in 1..Len(wire) : wire[i].item \notin Ending
    BY <1>1, <2>1, <2>6 DEF EndInv
  <2> QED
    BY <1>1, <1>5, <1>7, <2>1, <2>3, <2>5, <2>6, <2>7, <2>8 DEF EndInv
<1>8. CASE Shows /\ Writer
  <2> DEFINE e == [item |-> wframe.item, terminal |-> wframe.terminal]
  <2>1. Live /\ Hand /\ ~Hand'
    BY <1>8 DEF Shows, Live, Hand
  <2>2. e \in Shown /\ e.item = wframe.item /\ wframe.item \in Items
    BY <1>1, ShownTypes DEF TypeOK, Frame
  <2>3. wire' = Append(wire, e) /\ UNCHANGED <<claimed, queue>> /\ started'
    BY <1>8 DEF Shows
  <2> HIDE DEF e
  <2>4. /\ Len(wire') = Len(wire) + 1 /\ Len(wire) \in Nat /\ wire' # <<>>
        /\ \A i \in 1..Len(wire) : wire'[i] = wire[i]
        /\ wire'[Len(wire) + 1] = e
    BY <1>1, <2>2, <2>3, AppendFacts
  <2>5. \A i \in 1..Len(wire) : wire[i].item \in Items \ Ending
    BY <1>1, <2>1 DEF EndInv
  <2>6. \A i \in 1..Len(wire') : wire'[i].item \in Items
    BY <2>2, <2>4, <2>5
  <2>7. (\E i \in 1..Len(wire') : wire'[i].item \in Ending) =>
          wframe.item \in Ending
    BY <2>2, <2>4, <2>5
  <2>8. EndSent' => EndSent
    BY <2>1, <2>3, <2>7 DEF EndSent
  <2>9. wframe.item \in Ending => queue = <<>>
    BY <1>1, <2>1 DEF EndInv
  <2> QED
    BY <1>1, <1>5, <1>8, <2>1, <2>3, <2>4, <2>6, <2>7, <2>8, <2>9 DEF EndInv
<1>9. CASE Breaks \/ Responds
  BY <1>9 DEF Breaks, Responds, Live
<1> QED
  BY <1>2, <1>3, <1>4, <1>6, <1>7, <1>8, <1>9, NextSplit, WriterMoves

-------------------------------------------------------------------------------
(* The beginning of a response. *)

(* The frames that are out: the first of them opens the response.          *)
FramesOpen ==
    /\ \A i \in 1..Len(queue) :
         queue[i].item \in Opening <=> i = 1 /\ ~Hand /\ wire = <<>> /\ ~headLost
    /\ Hand => (wframe.item \in Opening <=> wire = <<>> /\ ~headLost)
    /\ \A i \in 1..Len(wire) : wire[i].item \in Opening <=> i = 1 /\ ~headLost

(* What the engine may do next, given what is out. *)
EngineOpens ==
    /\ (epc \in SinkPcs /\ Head(script) \in Opening) =>
         ~Out \/ (cancelled /\ epc = "open?")
    /\ (epc \in SinkPcs /\ Head(script) \notin Opening) => Out
    /\ task.headers \/ epc = "headed" => Out
    /\ ~task.headers => \/ ~Out \/ cancelled \/ epc \in SinkPcs
                        \/ epc \in {"headed", "unwritten", "drop", "done"}
    /\ Out /\ claimed # "engine" => streaming

\* HeadInv in two parts.
LEMMA HeadParts ==
  /\ HeadInv <=> (Live /\ task.kind # "plain" => FramesOpen /\ EngineOpens)
  /\ HeadInv' <=>
       (Live' /\ task'.kind # "plain" => FramesOpen' /\ EngineOpens')
BY DEF HeadInv, FramesOpen, EngineOpens

\* A script opens the response with its first frame only.
LEMMA ScriptOpens ==
  ASSUME NEW s \in Scripts
  PROVE  /\ Head(s) \in Opening <=> s \in {<<"full">>, <<"head", "role">>}
         /\ Head(s) \notin Opening <=> Head(s) \in Chunks
         /\ Len(s) # 1 => Head(Tail(s)) \notin Opening
<1> USE DEF Scripts, ErrorTails, FinalTails, Chunks, Opening
<1>1. CASE s = <<"full">>
  BY <1>1
<1>2. CASE s = <<"role">>
  BY <1>2
<1>3. CASE s = <<"mark">>
  BY <1>3
<1>4. CASE s = <<"text">>
  BY <1>4
<1>5. CASE s = <<"end">>
  BY <1>5
<1>6. CASE s = <<"head", "role">>
  BY <1>6
<1>7. CASE s = <<"done", "end">>
  BY <1>7
<1>8. CASE s = <<"error", "done", "end">>
  BY <1>8
<1>9. CASE s = <<"final", "done", "end">>
  BY <1>9
<1> QED
  BY <1>1, <1>2, <1>3, <1>4, <1>5, <1>6, <1>7, <1>8, <1>9

\* The writer moves frames along in their order.
LEMMA WriterFrames ==
  ASSUME ResponseInv, Writer, Live', Live, task.kind # "plain", FramesOpen
  PROVE  FramesOpen' /\ (Out' <=> Out)
<1>1. queue \in Seq(Frame) /\ wire \in Seq(Shown) /\ TypeOK
  BY DEF ResponseInv, TypeOK
<1>2. CASE WriterAside
  <2>1. /\ UNCHANGED <<queue, wire, headLost>>
        /\ (Hand' <=> Hand) /\ (Hand => wframe' = wframe)
    BY <1>2, WriterAsideEffect
  <2> QED
    BY <2>1 DEF FramesOpen, Out
<1>3. CASE Takes
  <2>1. queue # <<>> /\ ~Hand /\ wire' = wire
    BY <1>3 DEF Takes, Hand
  <2>2. /\ Len(queue) = Len(queue') + 1 /\ Len(queue') \in Nat
        /\ Head(queue) = queue[1]
        /\ \A i \in 1..Len(queue') : queue'[i] = queue[i + 1]
    BY <1>1, <1>3, TailFacts DEF Takes
  <2>3. \A i \in 1..Len(queue') : queue'[i].item \notin Opening
    <3> SUFFICES ASSUME NEW i \in 1..Len(queue')
                 PROVE  queue[i + 1].item \notin Opening
      BY <2>2
    <3>1. i + 1 \in 1..Len(queue) /\ i + 1 # 1
      BY <2>2
    <3> QED
      BY <3>1 DEF FramesOpen
  <2>4. Head(queue).item \in Opening <=> wire = <<>> /\ ~headLost
    <3>1. 1 \in 1..Len(queue)
      BY <2>2
    <3> QED
      BY <2>1, <2>2, <3>1 DEF FramesOpen
  <2>5. Out
    BY <2>1 DEF Out
  <2>6. CASE ~QueuedLate(Head(queue))
    <3>1. Hand' /\ wframe' = Head(queue) /\ headLost' = headLost
      BY <1>3, <2>6 DEF Takes, Hand
    <3> QED
      BY <2>1, <2>3, <2>4, <2>5, <3>1 DEF FramesOpen, Out
  <2>7. CASE QueuedLate(Head(queue))
    <3>1. ~Hand' /\ headLost' = (headLost \/ Head(queue).item = "head")
      BY <1>3, <2>7 DEF Takes, Hand
    <3>2. Head(queue).item # "full"
      <4>1. 1 \in 1..Len(queue)
        BY <2>2
      <4> QED
        BY <2>2, <2>7, <4>1 DEF ResponseInv, FullInv, QueuedLate
    <3>3. wire # <<>> \/ headLost'
      BY <2>4, <3>1, <3>2 DEF Opening
    <3>4. headLost' = headLost \/ wire = <<>>
      BY <1>1, <2>4, <3>1 DEF Opening, TypeOK
    <3>5. wire = <<>> => Len(wire) = 0
      OBVIOUS
    <3>6. \A i \in 1..Len(wire) : wire[i].item \in Opening <=> i = 1 /\ ~headLost'
      BY <3>4, <3>5 DEF FramesOpen
    <3> QED
      BY <2>1, <2>3, <2>5, <3>1, <3>3, <3>6 DEF FramesOpen, Out
  <2> QED
    BY <2>6, <2>7
<1>4. CASE Shows
  <2> DEFINE e == [item |-> wframe.item, terminal |-> wframe.terminal]
  <2>1. Hand /\ ~Hand' /\ queue' = queue /\ headLost' = headLost
    BY <1>4 DEF Shows, Hand
  <2>2. e \in Shown /\ e.item = wframe.item
    BY <1>1, ShownTypes
  <2>3. wire' = Append(wire, e)
    BY <1>4 DEF Shows
  <2> HIDE DEF e
  <2>4. /\ Len(wire') = Len(wire) + 1 /\ Len(wire) \in Nat /\ wire' # <<>>
        /\ \A i \in 1..Len(wire) : wire'[i] = wire[i]
        /\ wire'[Len(wire) + 1] = e
        /\ wire = <<>> <=> Len(wire) = 0
    BY <1>1, <2>2, <2>3, AppendFacts
  <2>5. \A i \in 1..Len(wire') : wire'[i].item \in Opening <=> i = 1 /\ ~headLost
    <3> SUFFICES ASSUME NEW i \in 1..Len(wire')
                 PROVE  wire'[i].item \in Opening <=> i = 1 /\ ~headLost
      OBVIOUS
    <3>1. CASE i \in 1..Len(wire)
      BY <2>4, <3>1 DEF FramesOpen
    <3>2. CASE i = Len(wire) + 1
      BY <2>1, <2>2, <2>4, <3>2 DEF FramesOpen
    <3> QED
      BY <2>4, <3>1, <3>2
  <2>6. \A i \in 1..Len(queue) : queue[i].item \notin Opening
    BY <2>1 DEF FramesOpen
  <2> QED
    BY <2>1, <2>4, <2>5, <2>6 DEF FramesOpen, Out
<1>5. CASE Breaks \/ Responds
  BY <1>5 DEF Breaks, Responds, Live
<1> QED
  BY <1>2, <1>3, <1>4, <1>5, WriterMoves

\* The writer's and the others' steps leave the engine's options open.
LEMMA OthersHead ==
  ASSUME ResponseInv, Tick \/ PeerChanges \/ Interrupt \/ Watcher \/ Writer
  PROVE  HeadInv'
<1> SUFFICES ASSUME Live', task'.kind # "plain"
             PROVE  FramesOpen' /\ EngineOpens'
  BY HeadParts
<1>1. /\ UNCHANGED <<streaming, epc, script, task>>
      /\ cancelled => cancelled'
      /\ claimed' # "engine" => claimed # "engine"
  BY WorldEffect, WatcherEffect, WriterEffect DEF engine, work, shared
<1>2. CASE Tick \/ PeerChanges \/ Interrupt \/ Watcher
  <2>1. UNCHANGED <<queue, wire, wpc, wframe, headLost>>
    BY <1>2, WorldEffect, WatcherEffect DEF channel, writer
  <2>2. UNCHANGED <<Hand, Live, Out>>
    BY <2>1 DEF Hand, Live, Out
  <2>3. FramesOpen /\ EngineOpens
    BY <1>1, <2>1, <2>2, HeadParts DEF ResponseInv
  <2> QED
    BY <1>1, <2>1, <2>2, <2>3 DEF FramesOpen, EngineOpens
<1>3. CASE Writer
  <2>1. Live
    BY <1>3, WriterMoves, WriterAsideEffect
       DEF Live, Takes, Shows, Breaks, Responds
  <2>2. FramesOpen /\ EngineOpens
    BY <1>1, <2>1, HeadParts DEF ResponseInv
  <2>3. FramesOpen' /\ (Out' <=> Out)
    BY <1>1, <1>3, <2>1, <2>2, WriterFrames
  <2> QED
    BY <1>1, <2>2, <2>3 DEF EngineOpens
<1> QED
  BY <1>2, <1>3

\* A mark or a text is only written after the head.
LEMMA BeginsMarked ==
  ASSUME ResponseInv, WritingMark \/ WritingText \/ WritingRest
  PROVE  task.headers
<1>1. /\ epc \in SinkPcs /\ script \in {<<"mark">>, <<"text">>} /\ ~WritingHead
  BY WritesExclude
     DEF WritingMark, WritingText, WritingRest, Writing, Exclusive
<1>2. Head(<<"mark">>) \in Chunks /\ Head(<<"text">>) \in Chunks
  BY DEF Chunks
<1> QED
  BY <1>1, <1>2 DEF ResponseInv, TaskInv

\* A send that does not fail queues the frame.
LEMMA SentOrFailed ==
  ASSUME SinkSends, queue \in Seq(Frame), eframe \in Frame
  PROVE  Len(queue') = Len(queue) + 1 \/ SinkFails
BY DEF SinkSends, SinkFails

\* A write sends the opening frame first, and once.
LEMMA SinkHead ==
  ASSUME ResponseInv, Sink
  PROVE  HeadInv'
<1> SUFFICES ASSUME Live', task'.kind # "plain"
             PROVE  FramesOpen' /\ EngineOpens'
  BY HeadParts
<1>1. /\ UNCHANGED <<claimed, streaming, wire, wpc, wframe, headLost, task>>
      /\ epc \in SinkPcs /\ (cancelled => cancelled')
  BY SinkEffect DEF writer
<1>2. UNCHANGED <<Hand, Live>>
  BY <1>1 DEF Hand, Live
<1>3. FramesOpen /\ EngineOpens
  BY <1>1, <1>2, HeadParts DEF ResponseInv
<1>4. /\ script \in Scripts
      /\ ret.ok \notin SinkPcs /\ ret.err \notin SinkPcs
      /\ queue \in Seq(Frame)
  BY <1>1, SinkScript DEF ResponseInv, TypeOK
<1>5. \/ task.headers
      \/ WritingError \/ WritingResponse \/ WritingHead
  BY SinkPhases, BeginsMarked
<1>6. \/ claimed = "engine" \/ streaming
  BY <1>1, <1>5 DEF ResponseInv, PhaseInv, TaskInv, Answering
<1>7. CASE queue' = queue
  <2>1. (Out' <=> Out) /\ FramesOpen'
    BY <1>1, <1>2, <1>3, <1>7 DEF Out, FramesOpen
  <2>2. CASE SinkStays
    <3>1. epc' \in SinkPcs /\ epc' # "headed" /\ script' = script
      BY <2>2 DEF SinkStays, SinkPcs
    <3>2. Head(script) \in Opening => ~Out
      BY <1>1, <1>3, <2>2 DEF SinkStays, EngineOpens
    <3> QED
      BY <1>1, <1>3, <2>1, <3>1, <3>2 DEF EngineOpens
  <2>3. CASE SinkFails
    <3>1. cancelled' /\ epc' = ret.err
      BY <2>3 DEF SinkFails, EngineGoes
    <3>2. epc' \notin SinkPcs /\ epc' # "headed"
      <4>1. ret.err # "headed"
        BY <1>1, ReturnFields DEF ResponseInv, WriteInv, WritingError,
           WritingResponse, WritingHead, WritingMark, WritingText, WritingRest,
           Writing
      <4> QED
        BY <1>4, <3>1, <4>1
    <3> QED
      BY <1>1, <1>3, <2>1, <3>1, <3>2 DEF EngineOpens
  <2>4. CASE SinkContinues \/ SinkSucceeds
    <3>1. epc = "send" /\ SinkSends
      BY <2>4 DEF SinkContinues, SinkSucceeds, Sink, SinkChecks, SinkReserves,
         SinkStamps, SinkSends
    <3>2. Len(queue') = Len(queue) + 1 \/ SinkFails
      BY <1>4, <3>1, SentOrFailed DEF ResponseInv, TypeOK
    <3>3. SinkFails
      BY <1>4, <1>7, <3>2
    <3> QED
      BY <2>3, <3>3
  <2> QED
    BY <2>2, <2>3, <2>4, SinkMoves
<1>8. CASE /\ epc = "send" /\ queue' = Append(queue, eframe)
           /\ eframe \in Frame /\ eframe.item = Head(script)
  <2>1. /\ Len(queue') = Len(queue) + 1 /\ Len(queue) \in Nat /\ queue' # <<>>
        /\ \A i \in 1..Len(queue) : queue'[i] = queue[i]
        /\ queue'[Len(queue) + 1] = eframe
        /\ queue = <<>> <=> Len(queue) = 0
    BY <1>4, <1>8, AppendFacts
  <2>2. Out'
    BY <2>1 DEF Out
  <2>3. eframe.item \in Opening <=> ~Out
    BY <1>1, <1>3, <1>8 DEF EngineOpens
  <2>4. FramesOpen'
    <3>1. ASSUME NEW i \in 1..Len(queue')
          PROVE  queue'[i].item \in Opening <=>
                   i = 1 /\ ~Hand /\ wire = <<>> /\ ~headLost
      <4>1. CASE i \in 1..Len(queue)
        BY <1>3, <2>1, <4>1 DEF FramesOpen
      <4>2. CASE i = Len(queue) + 1
        BY <2>1, <2>3, <4>2 DEF Out
      <4> QED
        BY <2>1, <4>1, <4>2
    <3> QED
      BY <1>1, <1>2, <1>3, <3>1 DEF FramesOpen
  <2>5. /\ epc' \in SinkPcs => Head(script') \notin Opening
        /\ task.headers \/ cancelled' \/ epc' \in SinkPcs
             \/ epc' \in {"headed", "unwritten", "drop", "done"}
    <3>1. SinkContinues \/ SinkSucceeds \/ SinkFails
      BY <1>8, SinkMoves DEF SinkStays
    <3>2. CASE SinkContinues
      BY <1>4, <3>2, ScriptOpens DEF SinkContinues, SinkPcs
    <3>3. CASE SinkFails
      BY <1>4, <3>3 DEF SinkFails, EngineGoes
    <3>4. CASE SinkSucceeds
      <4>1. epc' = ret.ok
        BY <3>4 DEF SinkSucceeds, EngineGoes
      <4>2. task.headers \/ ret.ok \in {"headed", "drop"}
        BY <1>5, ReturnFields
           DEF WritingError, WritingResponse, WritingHead, Writing
      <4> QED
        BY <1>4, <4>1, <4>2
    <3> QED
      BY <3>1, <3>2, <3>3, <3>4
  <2> QED
    BY <1>1, <1>6, <2>2, <2>4, <2>5 DEF EngineOpens
<1> QED
  BY <1>7, <1>8, SinkQueue

\* Going on outside of a write keeps the engine's options.
LEMMA HeadGoes ==
  ASSUME EngineOpens, Out' <=> Out, cancelled => cancelled',
         claimed' # "engine" => claimed # "engine", streaming => streaming',
         task'.headers = task.headers, epc \notin SinkPcs, epc # "headed",
         epc' \notin SinkPcs, epc' # "headed",
         epc \in {"unwritten", "drop", "done"} =>
           epc' \in {"unwritten", "drop", "done"}
  PROVE  EngineOpens'
BY DEF EngineOpens

\* So does beginning a write that opens the response if nothing did.
LEMMA HeadBegins ==
  ASSUME EngineOpens, Out' <=> Out, cancelled => cancelled',
         claimed' # "engine" => claimed # "engine", streaming => streaming',
         task'.headers = task.headers, epc \notin SinkPcs,
         epc \notin {"headed", "unwritten", "drop", "done"},
         epc' = "open?", Head(script') \in Opening <=> ~task.headers
  PROVE  EngineOpens'
<1>1. "open?" \in SinkPcs
  BY DEF SinkPcs
<1> QED
  BY <1>1 DEF EngineOpens

\* The first frames of the engine's scripts.
LEMMA ScriptHeads ==
  /\ Head(<<"full">>) \in Opening /\ Head(<<"head", "role">>) \in Opening
  /\ Head(<<"mark">>) \notin Opening /\ Head(<<"text">>) \notin Opening
  /\ Head(<<"error", "done", "end">>) \notin Opening
  /\ Head(<<"final", "done", "end">>) \notin Opening
BY DEF Opening

\* The engine's own steps keep the opening of the response.
LEMMA AsideHead ==
  ASSUME ResponseInv, Aside
  PROVE  HeadInv'
<1> SUFFICES ASSUME Live', task'.kind # "plain"
             PROVE  FramesOpen' /\ EngineOpens'
  BY HeadParts
<1>1. /\ UNCHANGED <<queue, wire, wpc, wframe, headLost>>
      /\ epc \notin SinkPcs /\ (cancelled => cancelled')
      /\ claimed' # "engine" => claimed # "engine"
  BY AsideEffect DEF writer
<1>2. UNCHANGED <<Hand, Live>> /\ (Out' <=> Out)
  BY <1>1 DEF Hand, Live, Out
<1>3. task \in TaskType /\ TaskInv
  BY DEF ResponseInv, TypeOK, TaskType
<1>4. /\ task'.kind = task.kind
      /\ task'.headers = task.headers \/ (HeadersWritten /\ task'.headers)
  BY <1>3, TaskFields
<1>5. FramesOpen /\ EngineOpens
  BY <1>1, <1>2, <1>4, HeadParts DEF ResponseInv
<1>6. FramesOpen'
  BY <1>1, <1>2, <1>5 DEF FramesOpen
<1>7. /\ task.kind = "stream" =>
           /\ task.tokens > 0 => task.headers
           /\ task.prefilled => task.headers
           /\ epc \in {"run", "computing", "content", "token"} => task.headers
      /\ task.kind # "stream" => ~task.headers /\ epc \notin {"headed", "content"}
  BY <1>3 DEF TaskInv
<1>8. EngineOpens'
  <2>1. CASE AnswerPlain
    BY <1>4, <2>1, Zenon DEF AnswerPlain
  <2>2. CASE WriteHeaders
    <3>1. epc = "headers" /\ task' = task
      BY <2>2, Zenon DEF WriteHeaders, work
    <3>2. CASE task.kind = "stream" /\ ~task.headers
      <4>1. epc' = "open?" /\ streaming' = TRUE /\ script' = <<"head", "role">>
        BY <2>2, <3>2, Zenon DEF WriteHeaders, WriteThen
      <4> QED
        BY <1>1, <1>2, <1>5, <3>1, <3>2, <4>1, HeadBegins, ScriptHeads
    <3>3. CASE ~(task.kind = "stream" /\ ~task.headers)
      <4>1. epc' = "run" /\ streaming' = streaming
        BY <2>2, <3>3, Zenon DEF WriteHeaders, EngineGoes
      <4>2. epc' \notin SinkPcs
        BY <4>1 DEF SinkPcs
      <4> QED
        BY <1>1, <1>2, <1>5, <3>1, <4>1, <4>2, HeadGoes
    <3> QED
      BY <3>2, <3>3
  <2>3. CASE HeadersWritten
    <3>1. epc = "headed" /\ epc' = "run" /\ streaming' = streaming
      BY <2>3, Zenon DEF HeadersWritten, EngineGoes, shared
    <3>2. task'.headers = TRUE
      BY <1>3, <2>3 DEF HeadersWritten, TaskType
    <3>3. epc' \notin SinkPcs
      BY <3>1 DEF SinkPcs
    <3> QED
      BY <1>1, <1>2, <1>5, <3>1, <3>2, <3>3 DEF EngineOpens
  <2>4. CASE PrefillChunk
    <3>1. epc = "computing" /\ epc' = "loop" /\ streaming' = streaming
      BY <2>4, Zenon DEF PrefillChunk, EngineGoes, shared
    <3>2. task'.headers = task.headers
      BY <1>3, <2>4 DEF PrefillChunk, TaskType
    <3>3. epc' \notin SinkPcs
      BY <3>1 DEF SinkPcs
    <3> QED
      BY <1>1, <1>2, <1>5, <3>1, <3>2, <3>3, HeadGoes
  <2>5. CASE EmitBoundary
    <3>1. /\ epc = "computing" /\ streaming' = streaming
          /\ \/ task.kind = "stream" /\ epc' = "open?" /\ script' = <<"mark">>
             \/ task.kind # "stream" /\ epc' = "token"
      BY <2>5, Zenon DEF EmitBoundary, EngineGoes, WriteThen, shared
    <3>2. task'.headers = task.headers
      BY <1>3, <2>5 DEF EmitBoundary, TaskType
    <3>3. CASE epc' = "open?"
      BY <1>1, <1>2, <1>5, <1>7, <3>1, <3>2, <3>3, HeadBegins, ScriptHeads
    <3>4. CASE epc' = "token"
      <4>1. epc' \notin SinkPcs
        BY <3>4 DEF SinkPcs
      <4> QED
        BY <1>1, <1>2, <1>5, <3>1, <3>2, <3>4, <4>1, HeadGoes
    <3> QED
      BY <3>1, <3>3, <3>4
  <2>6. CASE EmitContent
    <3>1. /\ epc = "content" /\ UNCHANGED <<task, streaming>>
          /\ \/ epc' = "open?" /\ script' = <<"text">>
             \/ epc' = "token"
      BY <2>6, Zenon DEF EmitContent, EngineGoes, WriteThen, shared, work
    <3>2. task.headers
      BY <1>7, <3>1
    <3>3. CASE epc' = "open?"
      BY <1>1, <1>2, <1>5, <3>1, <3>2, <3>3, HeadBegins, ScriptHeads
    <3>4. CASE epc' = "token"
      <4>1. epc' \notin SinkPcs
        BY <3>4 DEF SinkPcs
      <4> QED
        BY <1>1, <1>2, <1>5, <3>1, <3>4, <4>1, HeadGoes
    <3> QED
      BY <3>1, <3>3, <3>4
  <2>7. CASE FinishGenerated
    <3>1. /\ epc = "finish" /\ UNCHANGED <<task, streaming>>
          /\ \/ /\ epc' = "open?" /\ script' = <<"text">>
                /\ task.kind = "stream" /\ task.tokens > 0
             \/ epc' = "flushed"
      BY <2>7, Zenon DEF FinishGenerated, EngineGoes, WriteThen, shared, work
    <3>2. CASE epc' = "open?"
      BY <1>1, <1>2, <1>5, <1>7, <3>1, <3>2, HeadBegins, ScriptHeads
    <3>3. CASE epc' = "flushed"
      <4>1. epc' \notin SinkPcs
        BY <3>3 DEF SinkPcs
      <4> QED
        BY <1>1, <1>2, <1>5, <3>1, <3>3, <4>1, HeadGoes
    <3> QED
      BY <3>1, <3>2, <3>3
  <2>8. CASE EngineClaims
    <3>1. /\ epc \in {"claim", "claim error"} /\ UNCHANGED <<task, streaming>>
          /\ \/ epc' = "open?" /\ script' = ErrorResponse
             \/ epc' \in {"finalize", "drop"}
      BY <2>8, Zenon DEF EngineClaims, EngineGoes, WriteThen
    <3>2. CASE epc' = "open?"
      <4>1. Head(script') \in Opening <=> ~task.headers
        BY <3>1, <3>2, ScriptHeads DEF ErrorResponse
      <4> QED
        BY <1>1, <1>2, <1>5, <3>1, <3>2, <4>1, HeadBegins
    <3>3. CASE epc' \in {"finalize", "drop"}
      <4>1. epc' \notin SinkPcs /\ epc \notin {"headed", "unwritten", "done"}
        BY <3>1, <3>3 DEF SinkPcs
      <4> QED
        BY <1>1, <1>2, <1>5, <3>1, <3>3, <4>1, HeadGoes
    <3> QED
      BY <3>1, <3>2, <3>3
  <2>9. CASE FinalizeFails
    <3>1. /\ epc = "finalize" /\ UNCHANGED <<task, streaming>>
          /\ epc' = "open?" /\ script' = ErrorResponse
      BY <2>9, Zenon DEF FinalizeFails, WriteThen, shared
    <3>2. Head(script') \in Opening <=> ~task.headers
      BY <3>1, ScriptHeads DEF ErrorResponse
    <3> QED
      BY <1>1, <1>2, <1>5, <3>1, <3>2, HeadBegins
  <2>10. CASE FinalizeResponse
    <3>1. /\ epc = "finalize" /\ UNCHANGED <<task, streaming>>
          /\ epc' = "open?" /\ task.prefilled
          /\ task.kind # "stream" => script' = <<"full">>
          /\ task.kind = "stream" => script' = <<"final", "done", "end">>
      BY <2>10, Zenon DEF FinalizeResponse, WriteThen, shared
    <3>2. Head(script') \in Opening <=> ~task.headers
      BY <1>7, <3>1, ScriptHeads
    <3> QED
      BY <1>1, <1>2, <1>5, <3>1, <3>2, HeadBegins
  <2>11. CASE Quiet
    <3>1. /\ streaming' = streaming /\ task'.headers = task.headers
      BY <2>11 DEF Quiet
    <3>2. /\ epc' \notin SinkPcs /\ epc' # "headed" /\ epc # "headed"
          /\ epc \in {"unwritten", "drop", "done"} => epc' \in {"drop", "done"}
      BY <2>11 DEF Quiet, QuietPath, From, SinkPcs
    <3> QED
      BY <1>1, <1>2, <1>5, <3>1, <3>2, HeadGoes
  <2> QED
    BY <1>3, <2>1, <2>2, <2>3, <2>4, <2>5, <2>6, <2>7, <2>8, <2>9, <2>10,
       <2>11, AsideQuiet
<1> QED
  BY <1>6, <1>8

-------------------------------------------------------------------------------
(* Late frames. *)

\* Outside of OutputSink::write and of the writer no frame is moved.
LEMMA FramesRest ==
  ASSUME ResponseInv, (Tick \/ PeerChanges \/ Interrupt) \/ Watcher \/ Aside
  PROVE  /\ UNCHANGED <<queue, wire, wpc, wframe, headLost>>
         /\ epc' = "send" => epc = "send" /\ eframe' = eframe
         /\ now' >= now /\ task'.kind = task.kind
         /\ (Hand' <=> Hand) /\ (Live' <=> Live)
<1>1. task \in TaskType /\ now \in Nat
  BY DEF ResponseInv, TypeOK, TaskType
<1>2. CASE (Tick \/ PeerChanges \/ Interrupt) \/ Watcher
  <2>1. UNCHANGED <<queue, wire, wpc, wframe, headLost, epc, eframe, task>>
    BY <1>2, WorldEffect, WatcherEffect DEF channel, writer, engine, work
  <2>2. now' >= now
    BY <1>1, <1>2, WatcherEffect DEF Tick, PeerChanges, Interrupt, outside
  <2> QED
    BY <2>1, <2>2 DEF Hand, Live
<1>3. CASE Aside
  <2>1. /\ UNCHANGED <<queue, wire, wpc, wframe, headLost, now>>
        /\ epc' # "send" /\ task'.kind = task.kind
    BY <1>1, <1>3, AsideEffect, TaskFields DEF outside, writer
  <2> QED
    BY <1>1, <2>1 DEF Hand, Live
<1> QED
  BY <1>2, <1>3

\* A write queues the frame it stamped, or leaves the channel alone.
LEMMA SinkFrames ==
  ASSUME ResponseInv, Sink
  PROVE  /\ UNCHANGED <<now, wire, wpc, wframe, headLost, task, claimed>>
         /\ (Hand' <=> Hand) /\ (Live' <=> Live)
         /\ epc' = "send" => epc = "stamp" /\ SinkStamps /\ queue' = queue
         /\ \/ queue' = queue
            \/ epc = "send" /\ queue' = Append(queue, eframe) /\ eframe \in Frame
<1>1. /\ UNCHANGED <<now, wire, wpc, wframe, headLost, task, claimed>>
      /\ epc \in SinkPcs
  BY SinkEffect DEF outside, writer
<1>2. ret.ok \notin SinkPcs /\ ret.err \notin SinkPcs
  BY <1>1, SinkScript
<1>3. epc' = "send" => epc = "stamp" /\ SinkStamps
  BY <1>2, SinkMoves
     DEF SinkStays, SinkContinues, SinkSucceeds, SinkFails, EngineGoes, SinkPcs
<1>4. SinkStamps => queue' = queue
  BY DEF SinkStamps, channel
<1> QED
  BY <1>1, <1>3, <1>4, SinkQueue DEF Hand, Live

\* The writer takes frames from the front of the channel.
LEMMA WriterQueue ==
  ASSUME ResponseInv, Writer
  PROVE  /\ UNCHANGED <<now, epc, eframe, task>>
         /\ \/ queue' = queue
            \/ /\ Takes /\ Len(queue) = Len(queue') + 1 /\ Len(queue') \in Nat
               /\ Head(queue) = queue[1] /\ 1 \in 1..Len(queue)
               /\ \A i \in 1..Len(queue') :
                    i + 1 \in 1..Len(queue) /\ queue'[i] = queue[i + 1]
<1>1. UNCHANGED <<now, epc, eframe, task>>
  BY WriterEffect DEF outside, engine, work
<1>2. queue \in Seq(Frame)
  BY DEF ResponseInv, TypeOK
<1>3. CASE Takes
  <2>1. /\ Len(queue) = Len(queue') + 1 /\ Len(queue') \in Nat
        /\ Head(queue) = queue[1]
        /\ \A i \in 1..Len(queue') : queue'[i] = queue[i + 1]
    BY <1>2, <1>3, TailFacts DEF Takes
  <2> QED
    BY <1>1, <1>3, <2>1
<1>4. CASE WriterAside \/ Shows \/ Breaks \/ Responds
  BY <1>1, <1>4, WriterAsideEffect DEF Shows, Breaks, Responds
<1> QED
  BY <1>3, <1>4, WriterMoves

\* What is stamped is the first frame of the script, at this instant.
LEMMA Stamped ==
  ASSUME ResponseInv, SinkStamps
  PROVE  /\ eframe' = [item |-> Head(script), terminal |-> claimed # "none",
                       queued_at |-> now]
         /\ eframe'.item = Head(script) /\ eframe'.queued_at = now
         /\ eframe'.terminal <=> claimed # "none"
BY DEF SinkStamps

\* The complete response of a chat stays terminal.
LEMMA FullKept ==
  ASSUME ResponseInv, Next
  PROVE  FullInv'
<1>1. FullInv /\ queue \in Seq(Frame)
  BY DEF ResponseInv, TypeOK
<1>2. CASE (Tick \/ PeerChanges \/ Interrupt) \/ Watcher \/ Aside
  BY <1>1, <1>2, FramesRest DEF FullInv
<1>3. CASE Sink
  <2>1. ASSUME task.kind # "plain", epc' = "send", eframe'.item = "full"
        PROVE  eframe'.terminal
    <3>1. epc = "stamp" /\ SinkStamps
      BY <1>3, <2>1, SinkFrames
    <3>2. Head(script) = "full" /\ (eframe'.terminal <=> claimed # "none")
      BY <2>1, <3>1, Stamped
    <3>3. epc \in SinkPcs /\ script \in Scripts
      BY <3>1, SinkScript DEF SinkPcs
    <3>4. script = <<"full">>
      BY <3>2, <3>3, ScriptShape
    <3>5. /\ Head(<<"head", "role">>) # "full" /\ Head(<<"role">>) # "full"
          /\ Head(<<"mark">>) # "full" /\ Head(<<"text">>) # "full"
      OBVIOUS
    <3>6. ~WritingHead /\ ~WritingMark /\ ~WritingText /\ ~WritingRest
      BY <3>2, <3>5 DEF WritingHead, WritingMark, WritingText, WritingRest, Writing
    <3>7. WritingError \/ WritingResponse
      BY <3>3, <3>6 DEF ResponseInv, WriteInv
    <3> QED
      BY <2>1, <3>2, <3>7 DEF ResponseInv, PhaseInv, Answering
  <2>2. CASE queue' = queue
    BY <1>1, <1>3, <2>1, <2>2, SinkFrames DEF FullInv
  <2>3. CASE epc = "send" /\ queue' = Append(queue, eframe) /\ eframe \in Frame
    BY <1>1, <1>3, <2>1, <2>3, SinkFrames, AppendFacts DEF FullInv
  <2> QED
    BY <1>3, <2>2, <2>3, SinkFrames
<1>4. CASE Writer
  BY <1>1, <1>4, WriterQueue DEF FullInv
<1> QED
  BY <1>2, <1>3, <1>4, NextSplit

\* Nothing but one complete response is handed over for a plain request.
LEMMA PlainKept ==
  ASSUME ResponseInv, Next
  PROVE  PlainInv'
<1>1. /\ PlainInv /\ TypeOK /\ EndInv
      /\ queue \in Seq(Frame) /\ wire \in Seq(Shown)
  BY DEF ResponseInv, TypeOK
<1>2. CASE (Tick \/ PeerChanges \/ Interrupt) \/ Watcher \/ Aside
  BY <1>1, <1>2, FramesRest DEF PlainInv
<1>3. CASE Sink
  <2>1. CASE queue' = queue
    BY <1>1, <1>3, <2>1, SinkFrames DEF PlainInv
  <2>2. CASE epc = "send" /\ queue' = Append(queue, eframe) /\ eframe \in Frame
    <3>1. task.kind = "plain" => eframe.item = "full"
      <4>1. eframe.item = Head(script)
        BY <2>2 DEF ResponseInv, WriteInv
      <4>2. task.kind = "plain" => script = <<"full">>
        BY <2>2 DEF ResponseInv, PhaseInv
      <4> QED
        BY <4>1, <4>2
    <3> QED
      BY <1>1, <1>3, <2>2, <3>1, SinkFrames, AppendFacts DEF PlainInv
  <2> QED
    BY <1>3, <2>1, <2>2, SinkFrames
<1>4. CASE Writer
  <2> SUFFICES ASSUME task.kind = "plain"
               PROVE  PlainInv'
    BY <1>4, WriterQueue DEF PlainInv
  <2>1. task' = task
    BY <1>4, WriterQueue
  <2>2. CASE WriterAside
    BY <1>1, <2>1, <2>2, WriterAsideEffect DEF PlainInv
  <2>3. CASE Takes
    <3>1. /\ \A i \in 1..Len(queue') :
               i + 1 \in 1..Len(queue) /\ queue'[i] = queue[i + 1]
          /\ Head(queue) = queue[1] /\ 1 \in 1..Len(queue)
      <4>1. queue' # queue
        <5>1. Len(queue) = Len(Tail(queue)) + 1 /\ Len(Tail(queue)) \in Nat
          BY <1>1, <2>3, TailFacts DEF Takes
        <5>2. Tail(queue) # queue
          BY <5>1
        <5> QED
          BY <2>3, <5>2 DEF Takes
      <4> QED
        BY <1>4, <4>1, WriterQueue
    <3>2. Live /\ wire' = wire /\ (Hand' => wframe' = Head(queue))
      BY <2>3 DEF Takes, Hand, Live
    <3> QED
      BY <1>1, <2>1, <3>1, <3>2 DEF PlainInv
  <2>4. CASE Shows
    <3> DEFINE e == [item |-> wframe.item, terminal |-> wframe.terminal]
    <3>1. Live /\ Hand /\ ~Hand' /\ queue' = queue
      BY <2>4 DEF Shows, Hand, Live
    <3>2. e \in Shown /\ e.item = "full" /\ wire' = Append(wire, e)
      BY <1>1, <2>4, <3>1, ShownTypes DEF Shows, PlainInv
    <3> HIDE DEF e
    <3>3. \A i \in 1..Len(wire) : wire[i].item \notin Ending
      BY <1>1, <3>1 DEF EndInv
    <3>4. \A i \in 1..Len(wire) : wire[i].item \in Ending
      BY <1>1, <3>1 DEF PlainInv, Ending
    <3>5. Len(wire) = 0
      <4>1. Len(wire) \in Nat
        BY <1>1
      <4>2. 1 \notin 1..Len(wire)
        BY <3>3, <3>4
      <4> QED
        BY <4>1, <4>2
    <3>6. Len(wire') = 1 /\ wire'[1] = e
      BY <1>1, <3>2, <3>5, AppendFacts
    <3> QED
      BY <1>1, <2>1, <3>1, <3>2, <3>6 DEF PlainInv
  <2>5. CASE Breaks \/ Responds
    BY <1>1, <2>1, <2>5 DEF PlainInv, Breaks, Responds, Live, Hand
  <2> QED
    BY <1>4, <2>2, <2>3, <2>4, <2>5, WriterMoves
<1> QED
  BY <1>2, <1>3, <1>4, NextSplit

\* Frames stay in the order of their instants.
LEMMA ClockKept ==
  ASSUME ResponseInv, Next
  PROVE  ClockInv'
<1>1. ClockInv /\ queue \in Seq(Frame) /\ now \in Nat
  BY DEF ResponseInv, TypeOK
<1> USE DEF Deadline
<1>2. CASE (Tick \/ PeerChanges \/ Interrupt) \/ Watcher \/ Aside
  <2>1. /\ queue' = queue /\ now' >= now /\ now' \in Int
        /\ epc' = "send" => epc = "send" /\ eframe' = eframe
    BY <1>2, FramesRest, TypesKept, NextSplit DEF TypeOK
  <2> QED
    BY <1>1, <2>1 DEF ClockInv, Late
<1>3. CASE Sink
  <2>1. now' = now
    BY <1>3, SinkFrames
  <2>2. ASSUME epc' = "send"
        PROVE  /\ queue' = queue
               /\ Late(eframe') <=> now >= Deadline
    BY <1>3, <2>2, SinkFrames, Stamped DEF Late
  <2>3. CASE queue' = queue
    BY <1>1, <2>1, <2>2, <2>3 DEF ClockInv, Late
  <2>4. CASE epc = "send" /\ queue' = Append(queue, eframe) /\ eframe \in Frame
    <3>1. /\ Len(queue') = Len(queue) + 1 /\ Len(queue) \in Nat
          /\ \A i \in 1..Len(queue) : queue'[i] = queue[i]
          /\ queue'[Len(queue) + 1] = eframe
      BY <1>1, <2>4, AppendFacts
    <3>2. queue' # queue
      BY <3>1
    <3>3. epc' # "send"
      BY <2>2, <3>2
    <3>4. \A i \in 1..Len(queue') : i \in 1..Len(queue) \/ i = Len(queue) + 1
      BY <3>1
    <3>5. \A i \in 1..Len(queue') : Late(queue'[i]) => now >= Deadline
      BY <1>1, <2>4, <3>1, <3>4 DEF ClockInv
    <3>6. ASSUME NEW i \in 1..Len(queue'), NEW j \in 1..Len(queue'),
                 i <= j, Late(queue'[i])
          PROVE  Late(queue'[j])
      <4>1. CASE j \in 1..Len(queue)
        <5>1. i \in 1..Len(queue)
          BY <3>1, <3>6, <4>1
        <5> QED
          BY <1>1, <3>1, <3>6, <4>1, <5>1 DEF ClockInv
      <4>2. CASE j = Len(queue) + 1
        BY <1>1, <2>4, <3>1, <3>4, <3>6, <4>2 DEF ClockInv
      <4> QED
        BY <3>4, <4>1, <4>2
    <3> QED
      BY <2>1, <3>3, <3>5, <3>6 DEF ClockInv
  <2> QED
    BY <1>3, <2>3, <2>4, SinkFrames
<1>4. CASE Writer
  <2>1. UNCHANGED <<now, epc, eframe>>
    BY <1>4, WriterQueue
  <2>2. CASE queue' = queue
    BY <1>1, <2>1, <2>2 DEF ClockInv
  <2>3. CASE queue' # queue
    <3>1. \A i \in 1..Len(queue') :
            i + 1 \in 1..Len(queue) /\ queue'[i] = queue[i + 1]
      BY <1>4, <2>3, WriterQueue
    <3>2. \A i, j \in 1..Len(queue') : i <= j => i + 1 <= j + 1
      OBVIOUS
    <3> QED
      BY <1>1, <2>1, <3>1, <3>2 DEF ClockInv
  <2> QED
    BY <2>2, <2>3
<1> QED
  BY <1>2, <1>3, <1>4, NextSplit

\* Once the head is lost only terminal frames are shown.
LEMMA LostKept ==
  ASSUME ResponseInv, Next
  PROVE  LostInv'
<1>1. /\ LostInv /\ ClockInv /\ TypeOK /\ HeadInv
      /\ queue \in Seq(Frame) /\ wire \in Seq(Shown) /\ now \in Nat
  BY DEF ResponseInv, TypeOK
<1> USE DEF Deadline
<1>2. CASE (Tick \/ PeerChanges \/ Interrupt) \/ Watcher \/ Aside
  <2>1. now' \in Int
    BY TypesKept DEF TypeOK
  <2>2. /\ UNCHANGED <<queue, wire, wframe, headLost>> /\ (Hand' <=> Hand)
        /\ epc' = "send" => epc = "send" /\ eframe' = eframe
        /\ now' >= now /\ task'.kind = task.kind
    BY <1>2, FramesRest
  <2> QED
    BY <1>1, <2>1, <2>2 DEF LostInv, Late
<1>3. CASE Sink
  <2>1. /\ UNCHANGED <<now, wire, headLost, wframe, task>> /\ (Hand' <=> Hand)
    BY <1>3, SinkFrames
  <2>2. epc' = "send" /\ now >= Deadline => Late(eframe')
    BY <1>3, SinkFrames, Stamped DEF Late
  <2>3. CASE queue' = queue
    BY <1>1, <2>1, <2>2, <2>3 DEF LostInv
  <2>4. CASE epc = "send" /\ queue' = Append(queue, eframe) /\ eframe \in Frame
    BY <1>1, <2>1, <2>2, <2>4, AppendFacts DEF LostInv
  <2> QED
    BY <1>3, <2>3, <2>4, SinkFrames
<1>4. CASE Writer
  <2> SUFFICES ASSUME task.kind # "plain", headLost'
               PROVE  LostInv'
    BY <1>4, WriterQueue DEF LostInv
  <2>1. UNCHANGED <<now, epc, eframe, task>>
    BY <1>4, WriterQueue
  <2>2. CASE Takes
    <3>1. /\ \A i \in 1..Len(queue') :
               i + 1 \in 1..Len(queue) /\ queue'[i] = queue[i + 1]
          /\ Head(queue) = queue[1] /\ 1 \in 1..Len(queue)
      <4>1. queue' # queue
        <5>1. Len(queue) = Len(Tail(queue)) + 1 /\ Len(Tail(queue)) \in Nat
          BY <1>1, <2>2, TailFacts DEF Takes
        <5>2. Tail(queue) # queue
          BY <5>1
        <5> QED
          BY <2>2, <5>2 DEF Takes
      <4> QED
        BY <1>4, <4>1, WriterQueue
    <3>2. Live /\ wire' = wire
      BY <2>2 DEF Takes, Live
    <3>3. CASE headLost
      <4>1. Hand' => wframe'.terminal
        <5>1. Hand' => ~QueuedLate(Head(queue)) /\ wframe' = Head(queue)
          BY <2>2 DEF Takes, Hand
        <5>2. Late(Head(queue)) \/ Head(queue).terminal
          BY <1>1, <3>1, <3>3 DEF LostInv
        <5> QED
          BY <5>1, <5>2 DEF QueuedLate, Late
      <4> QED
        BY <1>1, <2>1, <3>1, <3>2, <3>3, <4>1 DEF LostInv
    <3>4. CASE ~headLost
      <4>1. QueuedLate(Head(queue)) /\ Head(queue).item = "head" /\ ~Hand'
        BY <2>2, <3>4 DEF Takes, Hand
      <4>2. Late(queue[1])
        BY <3>1, <4>1 DEF QueuedLate, Late
      <4>3. wire = <<>>
        BY <1>1, <3>1, <3>2, <4>1 DEF HeadInv, Opening
      <4>4. /\ now >= Deadline
            /\ \A i \in 1..Len(queue) : Late(queue[i])
            /\ epc = "send" => Late(eframe)
        BY <1>1, <3>1, <4>2 DEF ClockInv
      <4>5. Len(wire') = 0
        BY <3>2, <4>3
      <4> QED
        BY <2>1, <3>1, <4>1, <4>4, <4>5 DEF LostInv
    <3> QED
      BY <3>3, <3>4
  <2>3. CASE WriterAside
    BY <1>1, <2>1, <2>3, WriterAsideEffect DEF LostInv
  <2>4. CASE Shows
    <3> DEFINE e == [item |-> wframe.item, terminal |-> wframe.terminal]
    <3>1. Hand /\ ~Hand' /\ queue' = queue /\ headLost
      BY <2>4 DEF Shows, Hand
    <3>2. e \in Shown /\ e.terminal /\ wire' = Append(wire, e)
      BY <1>1, <2>4, <3>1, ShownTypes DEF Shows, LostInv
    <3> HIDE DEF e
    <3> QED
      BY <1>1, <2>1, <3>1, <3>2, AppendFacts DEF LostInv
  <2>5. CASE Breaks
    <3>1. ~Hand' /\ queue' = queue /\ headLost
      BY <2>5 DEF Breaks, Hand
    <3>2. Torn \in Shown /\ Torn.item = "torn"
      BY <1>1, ShownTypes DEF Torn
    <3>3. CASE wire' = wire
      BY <1>1, <2>1, <3>1, <3>3 DEF LostInv
    <3>4. CASE wire' = Append(wire, Torn)
      BY <1>1, <2>1, <3>1, <3>2, <3>4, AppendFacts DEF LostInv
    <3> QED
      BY <2>5, <3>3, <3>4 DEF Breaks
  <2>6. CASE Responds
    <3>1. /\ ~Hand' /\ queue' = queue /\ headLost
          /\ wire' = Append(wire, DeadlineResponse)
      BY <2>6 DEF Responds, Hand
    <3>2. DeadlineResponse \in Shown /\ DeadlineResponse.terminal
      BY <1>1, ShownTypes DEF DeadlineResponse
    <3> QED
      BY <1>1, <2>1, <3>1, <3>2, AppendFacts DEF LostInv
  <2> QED
    BY <1>4, <2>2, <2>3, <2>4, <2>5, <2>6, WriterMoves
<1> QED
  BY <1>2, <1>3, <1>4, NextSplit

-------------------------------------------------------------------------------
(* What the client reads. *)

\* A well-formed wire without an ending stays well-formed when a frame is
\* added that opens the response exactly if nothing did.
LEMMA WireAppend ==
  ASSUME wire \in Seq(Shown), NEW e \in Shown, wire' = Append(wire, e),
         \A i \in 1..Len(wire) : wire[i].item \in Items \ Ending,
         \A i \in 1..Len(wire) : wire[i].item \in Opening => i = 1,
         \A i \in 1..Len(wire) : wire[i].item \in Opening \/ i > 1 \/ headLost,
         e.item \in Opening => wire = <<>>,
         e.item \in Chunks => wire # <<>> \/ headLost,
         e.item = "tail" => wire # <<>>,
         headLost' = headLost, LostInv', task' = task
  PROVE  WireWellFormed'
<1>1. /\ Len(wire') = Len(wire) + 1 /\ Len(wire) \in Nat
      /\ \A i \in 1..Len(wire) : wire'[i] = wire[i]
      /\ wire'[Len(wire) + 1] = e
      /\ wire = <<>> <=> Len(wire) = 0
  BY AppendFacts
<1>2. ASSUME NEW i \in 1..Len(wire')
      PROVE  /\ wire'[i].item \in {"full", "head"} => i = 1
             /\ wire'[i].item \in Chunks => i > 1 \/ headLost'
             /\ wire'[i].item = "tail" => i > 1 /\ i = Len(wire')
             /\ wire'[i].item = "torn" => i = Len(wire')
             /\ wire'[i].item \in {"full", "end"} => i = Len(wire')
  <2>1. CASE i \in 1..Len(wire)
    <3>1. /\ wire'[i] = wire[i] /\ wire[i].item \in Items \ Ending
          /\ wire[i].item \in Opening => i = 1
          /\ wire[i].item \in Opening \/ i > 1 \/ headLost
      BY <1>1, <2>1
    <3> QED
      BY <2>1, <3>1 DEF Items, Chunks, Ending, Opening
  <2>2. CASE i = Len(wire) + 1
    BY <1>1, <2>2 DEF Chunks, Opening
  <2> QED
    BY <1>1, <2>1, <2>2
<1>3. ASSUME NEW i \in 1..Len(wire'), wire'[i].item \in {"full", "end"}
      PROVE  \A j \in (i + 1)..Len(wire') : FALSE
  BY <1>1, <1>2, <1>3
<1> QED
  BY <1>2, <1>3 DEF WireWellFormed, ChunkAt, LostInv

\* Only the writer writes, and it keeps the response in order.
LEMMA WireKept ==
  ASSUME ResponseInv, Next
  PROVE  WireWellFormed'
<1>1. WireWellFormed /\ TypeOK /\ wire \in Seq(Shown) /\ EndInv /\ OwnerInv
  BY DEF ResponseInv, TypeOK
<1>2. /\ task'.kind = task.kind
  <2>1. task \in TaskType
    BY <1>1 DEF TypeOK, TaskType
  <2> QED
    BY <2>1, NextSplit, WorldEffect, WatcherEffect, WriterEffect, SinkEffect,
       TaskFields DEF engine, work
<1>3. CASE wire' = wire /\ (headLost => headLost')
  BY <1>1, <1>2, <1>3, LostKept DEF WireWellFormed, ChunkAt, LostInv
<1>4. CASE Writer /\ (Shows \/ Breaks \/ Responds)
  <2> SUFFICES ASSUME task.kind # "plain"
               PROVE  WireWellFormed'
    BY <1>2 DEF WireWellFormed
  <2>0. headLost' = headLost /\ LostInv' /\ task' = task
    BY <1>4, LostKept, WriterEffect DEF Shows, Breaks, Responds, engine, work
  <2>1. Live
    BY <1>4 DEF Shows, Breaks, Responds, Live
  <2>2. FramesOpen /\ EngineOpens
    BY <2>1, HeadParts DEF ResponseInv
  <2>3. \A i \in 1..Len(wire) : wire[i].item \in Items \ Ending
    <3>1. CASE Hand
      BY <1>1, <2>1, <3>1 DEF EndInv
    <3>2. CASE wpc = "respond"
      <4>1. claimed = "writer"
        BY <1>1, <3>2 DEF OwnerInv
      <4>2. ~EndSent
        BY <1>1, <2>1, <4>1 DEF EndInv
      <4> QED
        BY <1>1, <2>1, <4>2 DEF EndInv, EndSent
    <3> QED
      BY <1>4, <3>1, <3>2 DEF Shows, Breaks, Responds, Hand
  <2>4. /\ \A i \in 1..Len(wire) : wire[i].item \in Opening => i = 1
        /\ \A i \in 1..Len(wire) :
             wire[i].item \in Opening \/ i > 1 \/ headLost
    BY <1>1, <2>2 DEF FramesOpen
  <2>5. CASE Shows
    <3> DEFINE e == [item |-> wframe.item, terminal |-> wframe.terminal]
    <3>1. e \in Shown /\ e.item = wframe.item /\ wframe.item \in Items
      BY <1>1, ShownTypes DEF TypeOK, Frame
    <3>2. wire' = Append(wire, e)
      BY <2>5 DEF Shows
    <3> HIDE DEF e
    <3>3. wframe.item \in Opening <=> wire = <<>> /\ ~headLost
      BY <2>2, <2>5 DEF FramesOpen, Shows, Hand
    <3>4. /\ wframe.item \in Chunks => wframe.item \notin Opening
          /\ wframe.item # "tail"
      BY <3>1 DEF Items, Chunks, Opening
    <3> QED
      BY <1>1, <2>0, <2>3, <2>4, <3>1, <3>2, <3>3, <3>4, WireAppend
  <2>6. CASE Breaks /\ wire' # wire
    <3>1. wire' = Append(wire, Torn)
      BY <2>6 DEF Breaks
    <3>2. Torn \in Shown /\ Torn.item \notin Opening \cup Chunks \cup {"tail"}
      BY <1>1, ShownTypes DEF Torn, Opening, Chunks
    <3> QED
      BY <1>1, <2>0, <2>3, <2>4, <3>1, <3>2, WireAppend
  <2>7. CASE Responds
    <3>1. wire' = Append(wire, DeadlineResponse) /\ DeadlineResponse \in Shown
      BY <1>1, <2>7, ShownTypes DEF Responds
    <3>2. /\ streaming /\ started => DeadlineResponse.item = "tail"
          /\ ~(streaming /\ started) => DeadlineResponse.item = "full"
      BY DEF DeadlineResponse
    <3>3. started <=> wire # <<>>
      BY <1>1, <2>1 DEF EndInv
    <3>4. wire # <<>> => streaming
      <4>1. claimed # "engine"
        BY <1>1, <2>7 DEF OwnerInv, Responds
      <4> QED
        BY <2>2, <4>1 DEF EngineOpens, Out
    <3>5. "tail" \notin Opening /\ "full" \notin Chunks \cup {"tail"}
      BY DEF Opening, Chunks
    <3> QED
      BY <1>1, <2>0, <2>3, <2>4, <3>1, <3>2, <3>3, <3>4, <3>5, WireAppend
  <2> QED
    BY <1>3, <1>4, <2>0, <2>5, <2>6, <2>7
<1>5. CASE Writer /\ (WriterAside \/ Takes)
  BY <1>1, <1>3, <1>5, WriterAsideEffect DEF Takes, TypeOK
<1>6. CASE (Tick \/ PeerChanges \/ Interrupt) \/ Watcher \/ Sink \/ Aside
  BY <1>3, <1>6, WorldEffect, WatcherEffect, SinkEffect, AsideEffect DEF channel
<1> QED
  BY <1>4, <1>5, <1>6, NextSplit, WriterMoves

-------------------------------------------------------------------------------
(* The invariant. *)

\* It holds at the start.
LEMMA ResponseStart ==
  Init => ResponseInv
<1> SUFFICES ASSUME Init
             PROVE  ResponseInv
  OBVIOUS
<1>1. TypeOK
  <2>1. task \in TaskType /\ task.kind \in Kinds
    BY BoundsAssumption DEF Init, TaskType
  <2>2. ret \in [ok : EnginePcs, err : EnginePcs]
    BY DEF Init, NoReturn, EnginePcs
  <2>3. /\ now \in 0..2 /\ wnow \in 0..2 /\ wlimit \in 0..2 /\ pending \in Nat
        /\ wframe \in Frame /\ eframe \in Frame
        /\ watch \in {"on", "noted", "off"} /\ epc \in EnginePcs
    BY NoFrameType DEF Init, EnginePcs
  <2>4. queue \in Seq(Frame) /\ wire \in Seq(Shown) /\ script \in Seq(Items)
    BY DEF Init
  <2> QED
    BY <2>1, <2>2, <2>3, <2>4, Zenon DEF Init, TypeOK, TaskType
<1>2. /\ epc = "queued" /\ epc \notin SinkPcs /\ Idle
      /\ claimed = "none" /\ session = "none" /\ ~streaming /\ ~started
      /\ wpc = "check" /\ queue = <<>> /\ wire = <<>> /\ pending = 0
  <2>1. epc \notin SinkPcs
    BY DEF Init, SinkPcs
  <2> QED
    BY <2>1, IdleOutside DEF Init
<1>3. task.tokens = 0 /\ ~task.headers /\ ~task.prefilled
  BY DEF Init
<1>4. WriteInv /\ PhaseInv /\ TaskInv
  BY <1>2, <1>3, BoundsAssumption
     DEF WriteInv, PhaseInv, TaskInv, Idle, Serving, Finishing, Settled, Answering
<1>5. Len(queue) = 0 /\ Len(wire) = 0 /\ ~Hand /\ Live /\ ~Out
  BY <1>2 DEF Init, Hand, Live, Out
<1>6. BytesInv
  <2>1. WriterBytes = 0 /\ EngineBytes = 0
    BY <1>2 DEF WriterBytes, EngineBytes
  <2>2. QueuedBytes = 0
    BY <1>5, SumEmpty DEF QueuedBytes
  <2> QED
    BY <1>2, <2>1, <2>2, BoundsAssumption DEF BytesInv
<1>7. OwnerInv /\ EndInv /\ HeadInv /\ WireWellFormed
  BY <1>2, <1>3, <1>5 DEF OwnerInv, EndInv, EndSent, HeadInv, WireWellFormed
<1>8. FullInv /\ PlainInv /\ ClockInv /\ LostInv
  <2>1. ~headLost /\ epc # "send"
    BY DEF Init
  <2> QED
    BY <1>5, <2>1 DEF FullInv, PlainInv, ClockInv, LostInv
<1> QED
  BY <1>1, <1>4, <1>6, <1>7, <1>8 DEF ResponseInv

\* Every step keeps it.
LEMMA ResponseStep ==
  ResponseInv /\ [Next]_vars => ResponseInv'
<1> SUFFICES ASSUME ResponseInv, [Next]_vars
             PROVE  ResponseInv'
  OBVIOUS
<1>1. CASE Next
  <2>1. WriteInv' /\ PhaseInv' /\ TaskInv'
    BY <1>1, NextSplit, OthersControl, SinkWriteInv, SinkPhaseInv, SinkTaskInv,
       AsideWriteInv, AsidePhaseInv, AsideTaskInv
  <2>2. BytesInv'
    BY <1>1, NextSplit, SinkBytes, WriterBytesKept, OtherBytes
  <2>3. HeadInv'
    BY <1>1, NextSplit, OthersHead, SinkHead, AsideHead
  <2> QED
    BY <1>1, <2>1, <2>2, <2>3, TypesKept, OwnerKept, EndKept, FullKept,
       PlainKept, ClockKept, LostKept, WireKept DEF ResponseInv
<1>2. CASE UNCHANGED vars
  <2> USE <1>2 DEF vars, outside, shared, channel, writer, watcher, engine, work
  <2>1. TypeOK' /\ OwnerInv'
    BY DEF ResponseInv, TypeOK, OwnerInv, Hand
  <2>2. WriteInv' /\ TaskInv'
    BY DEF ResponseInv, WriteInv, TaskInv, WritingError, WritingResponse,
       WritingHead, WritingMark, WritingText, WritingRest, Writing
  <2>3. PhaseInv'
    <3>1. UNCHANGED <<WritingError, WritingResponse, WritingHead, WritingMark,
                      WritingText, WritingRest>>
      BY DEF WritingError, WritingResponse, WritingHead, WritingMark,
         WritingText, WritingRest, Writing
    <3>2. UNCHANGED <<Serving, Finishing, Settled, Answering>>
      BY <3>1 DEF Serving, Finishing, Settled, Answering
    <3> QED
      BY <3>1, <3>2 DEF ResponseInv, PhaseInv
  <2>4. BytesInv'
    BY DEF ResponseInv, BytesInv, QueuedBytes, WriterBytes, EngineBytes, Live
  <2>5. EndInv' /\ HeadInv' /\ WireWellFormed'
    BY DEF ResponseInv, EndInv, EndSent, HeadInv, Out, Hand, Live,
       WireWellFormed, ChunkAt
  <2>6. FullInv' /\ PlainInv' /\ ClockInv' /\ LostInv'
    BY DEF ResponseInv, FullInv, PlainInv, ClockInv, LostInv, Late, Hand, Live
  <2> QED
    BY <2>1, <2>2, <2>3, <2>4, <2>5, <2>6 DEF ResponseInv
<1> QED
  BY <1>1, <1>2

\* It is an invariant.
LEMMA ResponseInvariant ==
  Spec => []ResponseInv
<1> QED
  BY ResponseStart, ResponseStep, PTL DEF Spec

-------------------------------------------------------------------------------
(* Theorems. *)

\* Every variable of the response path keeps its type, for every number of
\* tokens, every byte limit and every capacity of the channel.
THEOREM ResponseTypes ==
  Spec => []TypeOK
<1> QED
  BY ResponseInvariant, PTL DEF ResponseInv

\* pending_bytes is exactly what lies between the engine and the socket, and
\* never more than max_output_bytes, whatever is refused, dropped late or lost:
\* the reservation of OutputSink::reserve is released exactly once.
THEOREM PendingAlwaysExact ==
  Spec => []PendingExact
<1>1. ResponseInv => PendingExact
  BY DEF ResponseInv, BytesInv, PendingExact, Live
<1> QED
  BY <1>1, ResponseInvariant, PTL

\* What a chat client reads is one HTTP response, however the engine's frames,
\* the deadline response and broken writes meet on the socket, in every run and
\* whatever frames are dropped as late. One drop shows: a stream whose head was
\* dropped has no head, and of it the client reads terminal frames only.
THEOREM WireAlwaysWellFormed ==
  Spec => []WireWellFormed
<1> QED
  BY ResponseInvariant, PTL DEF ResponseInv

\* A session stays for the next request only if the engine owned the ending and
\* every frame of the response was accepted for delivery.
THEOREM KeptAlwaysAnswered ==
  Spec => []KeptOnlyIfAnswered
<1>1. ResponseInv => KeptOnlyIfAnswered
  <2> SUFFICES ASSUME ResponseInv
               PROVE  KeptOnlyIfAnswered
    OBVIOUS
  <2>1. epc = "done" => ~Answering
    BY DEF Answering, WritingResponse, Writing, SinkPcs
  <2>2. /\ session = "kept" =>
             /\ claimed = "engine"
             /\ Answering \/ (epc \in {"drop", "done"} /\ result = "ok")
        /\ (epc = "done" /\ session = "leased") => stop
    BY DEF ResponseInv, PhaseInv
  <2> QED
    BY <2>1, <2>2 DEF KeptOnlyIfAnswered
<1> QED
  BY <1>1, ResponseInvariant, PTL

-------------------------------------------------------------------------------
(* The refinement of TerminalResponse. *)

(* The refinement mapping's values. *)
SentOf(w) == [i \in 1..Len(w) |-> Piece(w[i])]
SentNow == SentOf(wire)
PlainNow == task.kind = "plain"
OpenNow == wpc # "done"
KeptNow == session = "kept"

\* The step of TerminalResponse that a step of the response path takes.
LEMMA PromiseSteps ==
  /\ /\ claimed = "none" /\ claimed' \in {"engine", "writer"}
     /\ UNCHANGED <<PlainNow, SentNow, OpenNow, KeptNow>>
     => Promise!Claim
  /\ /\ OpenNow /\ ~Promise!Over /\ SentNow' = Append(SentNow, "part")
     /\ UNCHANGED <<PlainNow, claimed, OpenNow, KeptNow>>
     => Promise!Show
  /\ /\ OpenNow /\ claimed # "none" /\ ~Promise!Over
     /\ SentNow' = Append(SentNow, "ending")
     /\ UNCHANGED <<PlainNow, claimed, OpenNow, KeptNow>>
     => Promise!Finish
  /\ /\ OpenNow /\ PlainNow /\ SentNow = <<>>
     /\ SentNow' = Append(SentNow, "ending")
     /\ UNCHANGED <<PlainNow, claimed, OpenNow, KeptNow>>
     => Promise!Answer
  /\ /\ OpenNow /\ PlainNow /\ claimed = "writer" /\ SentNow = <<"ending">>
     /\ \/ SentNow' = Append(SentNow, "part")
        \/ SentNow' = Append(SentNow, "ending")
     /\ UNCHANGED <<PlainNow, claimed, OpenNow, KeptNow>>
     => Promise!Overtake
  /\ /\ claimed = "engine" /\ KeptNow' = ~KeptNow
     /\ UNCHANGED <<PlainNow, claimed, SentNow, OpenNow>>
     => Promise!Keep
  /\ /\ OpenNow /\ ~OpenNow' /\ UNCHANGED <<PlainNow, claimed, SentNow, KeptNow>>
     => Promise!Close
  /\ UNCHANGED <<PlainNow, claimed, SentNow, OpenNow, KeptNow>>
     => UNCHANGED Promise!vars
BY Zenon DEF SentNow, SentOf, PlainNow, OpenNow, KeptNow, Promise!Claim,
   Promise!Sends, Promise!Show, Promise!Finish, Promise!Answer,
   Promise!Overtake, Promise!Keep, Promise!Close, Promise!vars

\* One piece for each frame.
LEMMA SentIs ==
  ASSUME NEW w \in Seq(Shown)
  PROVE  /\ Len(SentOf(w)) = Len(w) /\ Len(w) \in Nat
         /\ \A i \in 1..Len(w) : SentOf(w)[i] = Piece(w[i])
BY DEF SentOf

\* One more frame is one more piece.
LEMMA SentAppend ==
  ASSUME NEW w \in Seq(Shown), NEW e \in Shown
  PROVE  SentOf(Append(w, e)) = Append(SentOf(w), Piece(e))
<1> USE DEF SentOf
<1>1. /\ Len(SentOf(w)) = Len(w) /\ Len(w) \in Nat
      /\ \A i \in 1..Len(w) : SentOf(w)[i] = Piece(w[i])
  BY SentIs
<1>2. /\ Len(Append(w, e)) = Len(w) + 1 /\ Append(w, e)[Len(w) + 1] = e
      /\ \A i \in 1..Len(w) : Append(w, e)[i] = w[i]
  BY AppendFacts
<1>3. \A i \in 1..Len(w) : Piece(w[i]) \in {"ending", "part"}
  BY DEF Piece
<1>4. SentOf(w) \in Seq({"ending", "part"}) /\ Piece(e) \in {"ending", "part"}
  BY <1>1, <1>3 DEF Piece
<1>5. /\ Len(Append(SentOf(w), Piece(e))) = Len(w) + 1
      /\ Append(SentOf(w), Piece(e))[Len(w) + 1] = Piece(e)
      /\ \A i \in 1..Len(w) : Append(SentOf(w), Piece(e))[i] = Piece(w[i])
  BY <1>1, <1>4, AppendFacts
<1>6. \A i \in 1..(Len(w) + 1) :
        Append(SentOf(w), Piece(e))[i] = Piece(Append(w, e)[i])
  BY <1>1, <1>2, <1>5
<1>7. SentOf(Append(w, e)) = [i \in 1..(Len(w) + 1) |-> Piece(Append(w, e)[i])]
  BY <1>2
<1>8. Append(SentOf(w), Piece(e)) \in Seq({"ending", "part"})
  BY <1>4
<1>9. Append(SentOf(w), Piece(e)) =
        [i \in 1..(Len(w) + 1) |-> Append(SentOf(w), Piece(e))[i]]
  BY <1>5, <1>8
<1> QED
  BY <1>1, <1>6, <1>7, <1>9

\* Only begin_terminal_response claims the ending for the engine.
LEMMA OnlyOneClaims ==
  ASSUME ResponseInv, Aside, claimed' # claimed
  PROVE  claimed = "none" /\ claimed' = "engine" /\ session' = session
<1>1. task \in TaskType
  BY DEF ResponseInv, TypeOK, TaskType
<1>2. EngineClaims
  BY <1>1, AsideQuiet, Zenon
     DEF Quiet, AnswerPlain, WriteHeaders, HeadersWritten, PrefillChunk,
         EmitBoundary, EmitContent, FinishGenerated, FinalizeFails,
         FinalizeResponse, shared
<1> QED
  BY <1>2, Zenon DEF EngineClaims

(* No ending is on the wire. *)
NotEnded == \A i \in 1..Len(wire) : wire[i].item \in Items \ Ending

\* What the client of a chat was sent is not over as long as the writer
\* writes; a plain request may have been answered before the writer responds.
LEMMA BeforeTheEnd ==
  ASSUME ResponseInv, wpc \in {"writing", "respond"}
  PROVE  /\ NotEnded => ~Promise!Over
         /\ \/ NotEnded
            \/ wpc = "respond" /\ PlainNow /\ SentNow = <<"ending">>
         /\ wpc = "writing" /\ PlainNow => SentNow = <<>>
<1>1. wire \in Seq(Shown) /\ EndInv /\ OwnerInv /\ PlainInv /\ Live
  BY DEF ResponseInv, TypeOK, Live
<1>2. NotEnded => ~Promise!Over
  <2>1. \A i \in 1..Len(wire) :
          wire[i].item \in Items \ Ending => Piece(wire[i]) = "part"
    BY DEF Piece, Items, Chunks, Ending
  <2>2. Promise!Over <=> \E i \in 1..Len(SentNow) : SentNow[i] = "ending"
    BY DEF Promise!Over, SentNow, SentOf
  <2>3. \A i \in 1..Len(SentNow) :
          i \in 1..Len(wire) /\ SentNow[i] = Piece(wire[i])
    BY <1>1, SentIs DEF SentNow
  <2> QED
    BY <2>1, <2>2, <2>3 DEF NotEnded
<1>3. wpc = "writing" => NotEnded
  BY <1>1 DEF EndInv, Hand, NotEnded
<1>4. Len(wire) = 0 => NotEnded /\ SentNow = <<>>
  BY <1>1 DEF NotEnded, SentNow, SentOf
<1>5. CASE ~PlainNow /\ wpc = "respond"
  <2>1. claimed = "writer"
    BY <1>1, <1>5 DEF OwnerInv
  <2>2. ~EndSent
    BY <1>1, <1>5, <2>1 DEF EndInv, PlainNow
  <2> QED
    BY <1>1, <1>2, <1>5, <2>2 DEF EndInv, EndSent, NotEnded
<1>6. CASE PlainNow /\ Len(wire) # 0
  <2>1. Len(wire) = 1 /\ wire[1].item = "full"
    <3>1. /\ Len(wire) \in Nat /\ Len(wire) <= 1
          /\ \A i \in 1..Len(wire) : wire[i].item = "full"
      BY <1>1, <1>6 DEF PlainInv, PlainNow
    <3>2. ASSUME NEW n \in Nat, n <= 1, n # 0
          PROVE  n = 1
      BY <3>2
    <3>3. Len(wire) = 1
      BY <1>6, <3>1, <3>2
    <3> QED
      BY <3>1, <3>3
  <2>2. ~NotEnded
    BY <2>1 DEF NotEnded, Ending
  <2>3. Piece(wire[1]) = "ending"
    BY <2>1 DEF Piece
  <2>4. SentNow = [i \in 1..1 |-> "ending"]
    BY <2>1, <2>3 DEF SentNow, SentOf
  <2>5. SentNow = <<"ending">>
    BY <2>4
  <2> QED
    BY <1>2, <1>3, <1>6, <2>2, <2>5
<1>7. CASE PlainNow /\ Len(wire) = 0
  BY <1>2, <1>4, <1>7
<1> QED
  BY <1>2, <1>3, <1>5, <1>6, <1>7

\* A step of the writer that leaves the frames where they are, or shows one.
LEMMA WriterShows ==
  ASSUME ResponseInv, Writer, Shows \/ Breaks \/ Responds
  PROVE  \/ wire' = wire
         \/ \E e \in Shown :
              /\ wire' = Append(wire, e)
              /\ wpc = "writing" /\ Piece(e) = "ending" /\ ~PlainNow
                   => claimed = "engine"
<1>1. /\ Torn \in Shown /\ DeadlineResponse \in Shown
      /\ [item |-> wframe.item, terminal |-> wframe.terminal] \in Shown
      /\ wframe.item \in Items
  BY ShownTypes DEF ResponseInv, TypeOK, Frame
<1>2. CASE Shows
  <2> DEFINE e == [item |-> wframe.item, terminal |-> wframe.terminal]
  <2>1. wire' = Append(wire, e) /\ Hand /\ Live
    BY <1>2 DEF Shows, Hand, Live
  <2>2. Piece(e) = "ending" => wframe.item \in Ending
    BY <1>1 DEF Piece, Items, Chunks, Ending
  <2>3. wframe.item \in Ending /\ ~PlainNow => claimed = "engine"
    BY <2>1 DEF ResponseInv, EndInv, EndSent, PlainNow
  <2> QED
    BY <1>1, <2>1, <2>2, <2>3
<1>3. CASE Breaks
  BY <1>1, <1>3 DEF Breaks, Torn, Piece
<1>4. CASE Responds
  BY <1>1, <1>4 DEF Responds
<1> QED
  BY <1>2, <1>3, <1>4

\* Every step of the response path is one of TerminalResponse, or none.
LEMMA PromiseStep ==
  ASSUME ResponseInv, ResponseInv', Next
  PROVE  [Promise!Next]_Promise!vars
<1> USE PromiseSteps DEF Promise!Next
<1>1. wire \in Seq(Shown) /\ TypeOK /\ OwnerInv
  BY DEF ResponseInv, TypeOK
<1>2. CASE (Tick \/ PeerChanges \/ Interrupt) \/ Watcher \/ Sink
  <2>1. UNCHANGED <<claimed, wire, wpc, session, task>>
    BY <1>2, WorldEffect, WatcherEffect, SinkEffect
       DEF shared, channel, writer, engine, work
  <2>2. UNCHANGED <<PlainNow, claimed, SentNow, OpenNow, KeptNow>>
    BY <2>1 DEF PlainNow, SentNow, SentOf, OpenNow, KeptNow
  <2> QED
    BY <2>2
<1>3. CASE Aside
  <2>1. UNCHANGED <<wire, wpc>> /\ task'.kind = task.kind
    BY <1>3, FramesRest
  <2>2. UNCHANGED <<PlainNow, SentNow, OpenNow>>
    BY <2>1 DEF PlainNow, SentNow, SentOf, OpenNow
  <2>3. /\ KeptNow => claimed = "engine"
        /\ KeptNow' => claimed' = "engine"
    BY DEF ResponseInv, PhaseInv, KeptNow
  <2>4. CASE claimed' # claimed
    <3>1. claimed = "none" /\ claimed' = "engine" /\ KeptNow' = KeptNow
      BY <1>3, <2>4, OnlyOneClaims DEF KeptNow
    <3> QED
      BY <2>2, <3>1
  <2>5. CASE claimed' = claimed /\ KeptNow' = KeptNow
    BY <2>2, <2>5
  <2>6. CASE claimed' = claimed /\ KeptNow' # KeptNow
    <3>1. KeptNow' = ~KeptNow /\ claimed = "engine"
      BY <2>3, <2>6, Zenon DEF KeptNow
    <3> QED
      BY <2>2, <2>6, <3>1
  <2> QED
    BY <2>4, <2>5, <2>6
<1>4. ASSUME Writer
      PROVE  UNCHANGED <<PlainNow, KeptNow>>
  BY <1>4, WriterEffect DEF engine, work, PlainNow, KeptNow
<1>5. CASE Writer /\ WriterAside
  <2>1. wire' = wire /\ UNCHANGED SentNow
    BY <1>5, WriterAsideEffect DEF SentNow, SentOf
  <2>2. CASE claimed' = claimed
    <3>1. OpenNow
      BY <1>5, <2>2, WriterAsideEffect DEF OpenNow
    <3> QED
      BY <1>4, <1>5, <2>1, <2>2, <3>1 DEF OpenNow
  <2>3. CASE claimed' # claimed
    <3>1. claimed = "none" /\ claimed' = "writer" /\ wpc' = "respond"
      BY <1>5, <2>3, WriterAsideEffect
    <3>2. wpc # "done"
      BY <1>5 DEF WriterAside, NextFrame, ChooseWait, ReceiveNothing,
         BeginFrame, CancelOutput, FallbackChecks, GraceEnds, WriterClaims
    <3>3. UNCHANGED OpenNow
      BY <3>1, <3>2 DEF OpenNow
    <3> QED
      BY <1>4, <1>5, <2>1, <3>1, <3>3
  <2> QED
    BY <2>2, <2>3
<1>6. CASE Writer /\ Takes
  <2>1. UNCHANGED <<claimed, SentNow, OpenNow>>
    BY <1>6 DEF Takes, SentNow, SentOf, OpenNow
  <2> QED
    BY <1>4, <1>6, <2>1
<1>7. CASE Writer /\ (Shows \/ Breaks \/ Responds)
  <2>1. /\ wpc \in {"writing", "respond"} /\ claimed' = claimed
        /\ OpenNow /\ UNCHANGED OpenNow
        /\ wpc = "respond" => claimed = "writer"
    BY <1>1, <1>7 DEF Shows, Breaks, Responds, OpenNow, OwnerInv
  <2>2. /\ NotEnded => ~Promise!Over
        /\ \/ NotEnded
           \/ wpc = "respond" /\ PlainNow /\ SentNow = <<"ending">>
        /\ wpc = "writing" /\ PlainNow => SentNow = <<>>
    BY <2>1, BeforeTheEnd
  <2>3. CASE wire' = wire
    <3>1. UNCHANGED SentNow
      BY <2>3 DEF SentNow, SentOf
    <3> QED
      BY <1>4, <1>7, <2>1, <3>1
  <2>4. ASSUME NEW e \in Shown, wire' = Append(wire, e),
               wpc = "writing" /\ Piece(e) = "ending" /\ ~PlainNow
                 => claimed = "engine"
        PROVE  [Promise!Next]_Promise!vars
    <3>1. SentNow' = Append(SentNow, Piece(e))
      BY <1>1, <2>4, SentAppend DEF SentNow, SentOf
    <3>2. Piece(e) \in {"part", "ending"}
      BY DEF Piece
    <3>3. CASE NotEnded /\ Piece(e) = "part"
      BY <1>4, <1>7, <2>1, <2>2, <3>1, <3>3
    <3>4. CASE NotEnded /\ Piece(e) = "ending"
      <4>1. CASE wpc = "writing" /\ PlainNow
        BY <1>4, <1>7, <2>1, <2>2, <3>1, <3>4, <4>1
      <4>2. CASE wpc = "respond" \/ ~PlainNow
        <5>1. claimed # "none"
          BY <2>1, <2>4, <3>4, <4>2
        <5> QED
          BY <1>4, <1>7, <2>1, <2>2, <3>1, <3>4, <5>1
      <4> QED
        BY <2>1, <4>1, <4>2
    <3>5. CASE ~NotEnded
      BY <1>4, <1>7, <2>1, <2>2, <3>1, <3>2, <3>5
    <3> QED
      BY <3>2, <3>3, <3>4, <3>5
  <2> QED
    BY <1>7, <2>3, <2>4, WriterShows
<1> QED
  BY <1>2, <1>3, <1>5, <1>6, <1>7, NextSplit, WriterMoves

\* The response path implements TerminalResponse: the client of a chat is sent
\* at most one ending and nothing after it, the ending belongs to the party
\* that won terminal_claimed, a session is kept only for a response the engine
\* owns, and nothing but one deadline response follows the answer to a plain
\* request.
THEOREM ResponseKeepsPromise ==
  Spec => ImplementsPromise
<1>1. Init => Promise!Init
  <2> SUFFICES ASSUME Init
               PROVE  Promise!Init
    OBVIOUS
  <2>1. claimed = "none" /\ wire = <<>> /\ wpc = "check" /\ session = "none"
    BY DEF Init
  <2>2. [i \in 1..Len(wire) |-> Piece(wire[i])] = <<>>
    BY <2>1
  <2> QED
    BY <2>1, <2>2 DEF Promise!Init
<1>2. ResponseInv /\ ResponseInv' /\ [Next]_vars => [Promise!Next]_Promise!vars
  <2> SUFFICES ASSUME ResponseInv, ResponseInv', [Next]_vars
               PROVE  [Promise!Next]_Promise!vars
    OBVIOUS
  <2>1. CASE UNCHANGED vars
    <3>1. UNCHANGED <<PlainNow, claimed, SentNow, OpenNow, KeptNow>>
      BY <2>1 DEF vars, shared, channel, writer, engine, work, PlainNow,
         SentNow, SentOf, OpenNow, KeptNow
    <3> QED
      BY <3>1, PromiseSteps
  <2> QED
    BY <2>1, PromiseStep
<1> QED
  BY <1>1, <1>2, ResponseInvariant, PTL DEF Spec, ImplementsPromise, Promise!Spec

=============================================================================

----------------------------- MODULE StreamPath ------------------------------
(***************************************************************************)
(* One streaming request, POST /predict/stream, over four parties: the     *)
(* HTTP client, handlePredictStream (gateway/main.go), the worker thread   *)
(* executing InferenceServiceImpl::Stream (backend/main.cc) with the       *)
(* llama_server backend (LlamaServerBackend::ProcessStream and             *)
(* HttpPostJsonStream of backend/inference_backend.cc), and the llama.cpp  *)
(* server.  With stream_ off the backend falls back to ProcessBatch, that  *)
(* is HttpPostJson, and one final event.                                   *)
(*                                                                         *)
(* The server's reply is a sequence of pieces.  A data line with a token   *)
(* consists of two, so that recv, which returns any number of pieces that  *)
(* have arrived, can cut lines in two as well as between them.             *)
(***************************************************************************)
EXTENDS Integers, Sequences, SequencesExt

CONSTANT Tokens           \* number of tokens of the complete answer

ASSUME StreamAssumption == Tokens \in Nat \ {0}

Newline == <<"newline", 0>>
Open(t) == <<"open", t>>
Close(t) == <<"close", t>>

\* The first n tokens, and all of them.
FirstTokens(n) == [t \in 1..n |-> t]
All == FirstTokens(Tokens)

\* The lines of the tokens.
TokenLines == [i \in 1..(3 * Tokens) |->
                 LET t == (i + 2) \div 3 IN
                 CASE i = 3 * t - 2 -> Open(t)
                   [] i = 3 * t - 1 -> Close(t)
                   [] i = 3 * t -> Newline]

\* A streamed answer is a header, a line per token and a final "last" line,
\* whose newline the server may leave out; otherwise it is one JSON object.
Reply(streamed) ==
  IF streamed THEN <<<<"header", 0>>>> \o TokenLines \o <<<<"last", 0>>>>
  ELSE <<<<"header", 0>>, Open(0), Close(0)>>

VARIABLES
  \* --- the llama.cpp server and its connection
  streaming,       \* stream_ of the backend
  statusOk,        \* the status the server answers with is 2xx
  sent,            \* how much of the reply is on the connection
  connection,      \* "open", "closed" or "failed"
  \* --- the worker thread
  wpc,             \* its control point
  received,        \* how much of the reply recv has returned
  responseOk,      \* response.ok
  httpError,       \* response.error
  pending,         \* pending_line; the body while it is not streamed
  content,         \* completion.content, as its tokens
  \* --- the gRPC stream
  wire,            \* events written and not yet received
  rpcStatus,       \* the status the worker returned, or "none"
  workerCancelled, \* IsCancelled() at the worker
  \* --- handlePredictStream
  gpc,             \* its control point
  ctxDone,         \* its context is cancelled or timed out
  event,           \* the event it has received and not yet written
  httpSpan, workerSpan, backendSpan,
  \* --- the client
  sse,             \* the events written to it; it gets all of them, or a prefix
                   \* once it has gone or the write deadline has passed
  clientGone,
  writeExpired     \* the server's WriteTimeout has passed for its connection

serverVars == <<streaming, statusOk, sent, connection>>
httpVars == <<received, responseOk, httpError>>
parseVars == <<pending, content>>
workerVars == <<wpc, httpVars, parseVars, wire, rpcStatus>>
spans == <<httpSpan, workerSpan, backendSpan>>
gatewayVars == <<gpc, ctxDone, event, spans, sse>>
clientVars == <<clientGone, writeExpired>>
vars == <<serverVars, workerVars, workerCancelled, gatewayVars, clientVars>>

TokenEvent(t) == [type |-> "token", tokens |-> <<t>>]
DoneEvent == [type |-> "done", tokens |-> content]
ErrorEvent == [type |-> "error", tokens |-> <<>>]
NoEvent == [type |-> "none", tokens |-> <<>>]

-----------------------------------------------------------------------------
(* The worker thread: InferenceServiceImpl::Stream.                        *)

\* Seeded fault: only a cancellation is reported as an error.
Finish_lax(code) ==
  /\ rpcStatus' = IF code = "unavailable" THEN "ok" ELSE code
  /\ wpc' = "returned"

\* The backend's code becomes the status of the RPC.
Finish(code) == rpcStatus' = code /\ wpc' = "returned"

\* ServerWriter::Write; it can fail once the client's side of the RPC is gone.
Write(e) == wire' = Append(wire, e)
WriteFails == ctxDone /\ UNCHANGED wire

-----------------------------------------------------------------------------
(* HttpPostJsonStream, and HttpPostJson when the reply is not streamed.    *)

HttpReturns(error) == httpError' = error /\ wpc' = "after"

\* A cancelled call and an unusable URL are answered at once.
Start ==
  /\ wpc = "start"
  /\ \/ workerCancelled /\ Finish("cancelled")
     \/ ~workerCancelled /\ Finish("unavailable")
     \/ ~workerCancelled /\ wpc' = "connect" /\ UNCHANGED rpcStatus
  /\ UNCHANGED <<serverVars, httpVars, parseVars, wire, workerCancelled, gatewayVars,
                 clientVars>>

\* Resolving, connecting and sending, with a look at is_cancelled before each.
Connect ==
  /\ wpc = "connect"
  /\ \/ workerCancelled /\ HttpReturns("cancelled")
     \/ HttpReturns("failed")
     \/ ~workerCancelled /\ wpc' = "recv" /\ UNCHANGED httpError
  /\ UNCHANGED <<serverVars, received, responseOk, parseVars, wire, rpcStatus,
                 workerCancelled, gatewayVars, clientVars>>

\* The head of the receive loop.
CheckCancelled ==
  /\ wpc = "recv"
  /\ IF workerCancelled THEN HttpReturns("cancelled")
     ELSE wpc' = "reading" /\ UNCHANGED httpError
  /\ UNCHANGED <<serverVars, received, responseOk, parseVars, wire, rpcStatus,
                 workerCancelled, gatewayVars, clientVars>>

\* The next n pieces of the reply, without the header.
Body(n) ==
  SubSeq(Reply(streaming), IF received = 0 THEN 2 ELSE received + 1, received + n)

\* HttpPostJson: recv returns the next n pieces, which are collected.
RecvWhole(n) ==
  /\ wpc = "reading" /\ ~streaming
  /\ received + n <= sent
  /\ received' = received + n
  /\ pending' = pending \o Body(n)
  /\ wpc' = "recv"
  /\ UNCHANGED <<serverVars, responseOk, httpError, content, wire, rpcStatus,
                 workerCancelled, gatewayVars, clientVars>>

\* HttpPostJsonStream: recv returns the next n pieces.  The header decides at
\* once whether the response is good, and a good body goes to on_body.
RecvData(n) ==
  /\ wpc = "reading" /\ streaming
  /\ received + n <= sent
  /\ received' = received + n
  /\ responseOk' = statusOk
  /\ pending' = IF statusOk THEN pending \o Body(n) ELSE pending
  /\ wpc' = IF statusOk THEN "lines" ELSE "recv"
  /\ UNCHANGED <<serverVars, httpError, content, wire, rpcStatus, workerCancelled,
                 gatewayVars, clientVars>>

\* HttpPostJson looks at the header when recv reports the end of the connection.
RecvWholeEnd ==
  /\ wpc = "reading" /\ ~streaming
  /\ received = sent /\ connection = "closed"
  /\ responseOk' = (received > 0 /\ statusOk)
  /\ HttpReturns(IF received > 0 /\ statusOk THEN "none" ELSE "failed")
  /\ UNCHANGED <<serverVars, received, parseVars, wire, rpcStatus, workerCancelled,
                 gatewayVars, clientVars>>

\* HttpPostJsonStream returns when recv reports the end of the connection.
RecvEnd ==
  /\ wpc = "reading" /\ streaming
  /\ received = sent /\ connection = "closed"
  /\ HttpReturns(IF responseOk THEN "none" ELSE "failed")
  /\ UNCHANGED <<serverVars, received, responseOk, parseVars, wire, rpcStatus,
                 workerCancelled, gatewayVars, clientVars>>

\* The header, or a body that is not streamed, exceeds its limit.
RecvTooLong ==
  /\ wpc = "reading"
  /\ received < sent
  /\ received = 0 \/ ~(streaming /\ statusOk)
  /\ HttpReturns("failed")
  /\ UNCHANGED <<serverVars, received, responseOk, parseVars, wire, rpcStatus,
                 workerCancelled, gatewayVars, clientVars>>

\* Seeded fault: the socket has no receive timeout.
RecvFails_untimed ==
  /\ wpc = "reading"
  /\ received = sent /\ connection = "failed"
  /\ HttpReturns("failed")
  /\ UNCHANGED <<serverVars, received, responseOk, parseVars, wire, rpcStatus,
                 workerCancelled, gatewayVars, clientVars>>

\* recv fails: the connection is reset, or nothing arrives in time.
RecvFails ==
  /\ wpc = "reading"
  /\ received = sent /\ connection \in {"failed", "open"}
  /\ HttpReturns("failed")
  /\ UNCHANGED <<serverVars, received, responseOk, parseVars, wire, rpcStatus,
                 workerCancelled, gatewayVars, clientVars>>

-----------------------------------------------------------------------------
(* LlamaServerBackend::ProcessStream.                                      *)

\* ParseLlamaServerChunk finds the token of a complete line only.
LineTokens(line) ==
  IF Len(line) = 2 /\ line[1][1] = "open" /\ line[2] = Close(line[1][2])
  THEN <<line[1][2]>> ELSE <<>>

\* consume_line: the line's token, if any, is added to the content and emitted.
ConsumeLine(line, next, failed) ==
  IF LineTokens(line) = <<>>
  THEN wpc' = next /\ UNCHANGED <<content, wire, httpError>>
  ELSE /\ content' = content \o LineTokens(line)
       /\ \/ Write(TokenEvent(line[1][2])) /\ wpc' = next /\ UNCHANGED httpError
          \/ WriteFails /\ wpc' = failed /\ httpError' = "cancelled"

\* Seeded fault: a consumed line stays in pending_line.
OnBody_keep ==
  /\ wpc = "lines"
  /\ IF Contains(pending, Newline)
     THEN LET end == SelectInSeq(pending, LAMBDA p : p = Newline) IN
          /\ ConsumeLine(SubSeq(pending, 1, end - 1), "recv", "after")
          /\ UNCHANGED pending
     ELSE wpc' = "recv" /\ UNCHANGED <<pending, content, wire, httpError>>
  /\ UNCHANGED <<serverVars, received, responseOk, rpcStatus, workerCancelled,
                 gatewayVars, clientVars>>

\* on_body consumes one complete line after the other.
OnBody ==
  /\ wpc = "lines"
  /\ IF Contains(pending, Newline)
     THEN LET end == SelectInSeq(pending, LAMBDA p : p = Newline) IN
          /\ ConsumeLine(SubSeq(pending, 1, end - 1), "lines", "after")
          /\ pending' = SubSeq(pending, end + 1, Len(pending))
     ELSE wpc' = "recv" /\ UNCHANGED <<pending, content, wire, httpError>>
  /\ UNCHANGED <<serverVars, received, responseOk, rpcStatus, workerCancelled,
                 gatewayVars, clientVars>>

\* After the request: only cancellation and response.ok are looked at.
After ==
  /\ wpc = "after"
  /\ IF workerCancelled \/ httpError = "cancelled" THEN Finish("cancelled")
     ELSE IF ~responseOk THEN Finish("unavailable")
     ELSE wpc' = "last" /\ UNCHANGED rpcStatus
  /\ UNCHANGED <<serverVars, httpVars, parseVars, wire, workerCancelled, gatewayVars,
                 clientVars>>

\* The unterminated last line of a streamed body is consumed, too.
LastLine ==
  /\ wpc = "last" /\ streaming
  /\ ConsumeLine(pending, "done", "after")
  /\ pending' = <<>>
  /\ UNCHANGED <<serverVars, received, responseOk, rpcStatus, workerCancelled,
                 gatewayVars, clientVars>>

\* A body that is not streamed is parsed as a whole.
ParseCompletion ==
  /\ wpc = "last" /\ ~streaming
  /\ content' = IF LineTokens(pending) = <<>> THEN <<>> ELSE All
  /\ wpc' = "done"
  /\ pending' = <<>>
  /\ UNCHANGED <<serverVars, httpVars, wire, rpcStatus, workerCancelled, gatewayVars,
                 clientVars>>

\* The final event carries the whole content.
EmitDone ==
  /\ wpc = "done"
  /\ \/ content = <<>> /\ Finish("unavailable") /\ UNCHANGED wire
     \/ content # <<>> /\ Write(DoneEvent) /\ Finish("ok")
     \/ content # <<>> /\ WriteFails /\ Finish("cancelled")
  /\ UNCHANGED <<serverVars, httpVars, parseVars, workerCancelled, gatewayVars,
                 clientVars>>

-----------------------------------------------------------------------------
(* handlePredictStream.                                                    *)

\* ActiveSpan.End: only the first one counts.
Ended(span, how) == IF span = "open" THEN how ELSE span

\* The handler returns; its deferred cancel ends the context.
Return(how) ==
  /\ httpSpan' = Ended(httpSpan, how)
  /\ workerSpan' = Ended(workerSpan, how)
  /\ event' = NoEvent
  /\ gpc' = "returned"
  /\ ctxDone' = TRUE

\* The client gets a plain HTTP error: its request is malformed, or the stream
\* cannot be opened, or the stream is open but the response writer cannot flush.
Refuse ==
  /\ gpc = "start"
  /\ gpc' = "refused"
  /\ \/ UNCHANGED <<wpc, httpSpan, workerSpan>>
     \/ wpc' \in {"idle", "start"} /\ httpSpan' = "error" /\ workerSpan' = "error"
  /\ ctxDone' = TRUE
  /\ UNCHANGED <<serverVars, httpVars, parseVars, wire, rpcStatus, workerCancelled,
                 event, backendSpan, sse, clientVars>>

\* The worker starts on the request, and the client is told 200.
OpenStream ==
  /\ gpc = "start"
  /\ gpc' = "recv"
  /\ wpc' = "start"
  /\ httpSpan' = "open" /\ workerSpan' = "open" /\ backendSpan' = "open"
  /\ UNCHANGED <<serverVars, httpVars, parseVars, wire, rpcStatus, workerCancelled,
                 ctxDone, event, sse, clientVars>>

RecvEvent ==
  /\ gpc = "recv"
  /\ wire # <<>>
  /\ event' = Head(wire)
  /\ wire' = Tail(wire)
  /\ gpc' = "write"
  /\ UNCHANGED <<serverVars, wpc, httpVars, parseVars, rpcStatus, workerCancelled,
                 ctxDone, spans, sse, clientVars>>

\* io.EOF: without a done event the request counts as failed.
RecvEOF ==
  /\ gpc = "recv"
  /\ wire = <<>> /\ rpcStatus = "ok"
  /\ backendSpan' = Ended(backendSpan, "error")
  /\ Return(IF backendSpan = "ok" THEN "ok" ELSE "error")
  /\ UNCHANGED <<serverVars, workerVars, workerCancelled, sse, clientVars>>

\* A write to the client's connection can fail, or be lost when it is flushed.
Unreachable == clientGone \/ writeExpired

\* Recv fails with the worker's status or with the context's error; the client
\* gets an error event, whose loss is ignored.
RecvError ==
  /\ gpc = "recv"
  /\ ctxDone \/ (wire = <<>> /\ rpcStatus \in {"cancelled", "unavailable"})
  /\ \/ sse' = Append(sse, ErrorEvent)
     \/ Unreachable /\ UNCHANGED sse
  /\ backendSpan' = Ended(backendSpan, "error")
  /\ Return("error")
  /\ UNCHANGED <<serverVars, workerVars, workerCancelled, clientVars>>

\* Seeded fault: the span is settled before the event is written.
WriteEvent_early ==
  /\ gpc = "write"
  /\ backendSpan' = IF event.type = "done" THEN Ended(backendSpan, "ok") ELSE backendSpan
  /\ \/ /\ sse' = Append(sse, event)
        /\ event' = NoEvent
        /\ gpc' = "recv"
        /\ UNCHANGED <<ctxDone, httpSpan, workerSpan>>
     \/ /\ Unreachable
        /\ Return("error")
        /\ UNCHANGED sse
  /\ UNCHANGED <<serverVars, workerVars, workerCancelled, clientVars>>

\* writeSSEEvent; when it fails the handler returns without another Recv.
WriteEvent ==
  /\ gpc = "write"
  /\ \/ /\ sse' = Append(sse, event)
        /\ backendSpan' = IF event.type = "done" THEN Ended(backendSpan, "ok")
                          ELSE backendSpan
        /\ event' = NoEvent
        /\ gpc' = "recv"
        /\ UNCHANGED <<ctxDone, httpSpan, workerSpan>>
     \/ /\ Unreachable
        /\ backendSpan' = Ended(backendSpan, "error")
        /\ Return("error")
        /\ UNCHANGED sse
  /\ UNCHANGED <<serverVars, workerVars, workerCancelled, clientVars>>

-----------------------------------------------------------------------------
(* The server, the client and the clock.                                   *)

Connected == wpc \in {"recv", "reading", "lines"} /\ connection = "open"

ServerSends ==
  /\ Connected
  /\ sent < Len(Reply(streaming))
  /\ sent' = sent + 1
  /\ UNCHANGED <<streaming, statusOk, connection, workerVars, workerCancelled,
                 gatewayVars, clientVars>>

\* The server closes the connection when it is done, or gives up before.
ServerEnds ==
  /\ Connected
  /\ connection' \in {"closed", "failed"}
  /\ UNCHANGED <<streaming, statusOk, sent, workerVars, workerCancelled, gatewayVars,
                 clientVars>>

ClientLeaves ==
  /\ ~clientGone
  /\ clientGone' = TRUE
  /\ UNCHANGED <<serverVars, workerVars, workerCancelled, gatewayVars, writeExpired>>

\* WriteTimeout runs from the request's header, WorkerRequestTimeout only from
\* the end of its body: a slow body lets the write deadline pass first.
WriteDeadlinePasses ==
  /\ gpc \in {"start", "recv", "write"} /\ ~writeExpired
  /\ writeExpired' = TRUE
  /\ UNCHANGED <<serverVars, workerVars, workerCancelled, gatewayVars, clientGone>>

\* The request's context ends: the client has gone, a write to it has failed or
\* WorkerRequestTimeout has passed.
ContextEnds ==
  /\ gpc \in {"recv", "write"} /\ ~ctxDone
  /\ ctxDone' = TRUE
  /\ UNCHANGED <<serverVars, workerVars, workerCancelled, gpc, event, spans, sse,
                 clientVars>>

\* The worker's side of the RPC learns of it.
CancelArrives ==
  /\ ctxDone /\ ~workerCancelled
  /\ workerCancelled' = TRUE
  /\ UNCHANGED <<serverVars, workerVars, gatewayVars, clientVars>>

Over == gpc \in {"refused", "returned"} /\ wpc \in {"idle", "returned"}

\* The request is over for both sides.
Idle == Over /\ UNCHANGED vars

-----------------------------------------------------------------------------
Init ==
  /\ streaming \in BOOLEAN /\ statusOk \in BOOLEAN
  /\ sent = 0 /\ connection = "open"
  /\ wpc = "idle" /\ received = 0 /\ responseOk = FALSE /\ httpError = "none"
  /\ pending = <<>> /\ content = <<>>
  /\ wire = <<>> /\ rpcStatus = "none" /\ workerCancelled = FALSE
  /\ gpc = "start" /\ ctxDone = FALSE /\ event = NoEvent
  /\ httpSpan = "none" /\ workerSpan = "none" /\ backendSpan = "none"
  /\ sse = <<>> /\ clientGone = FALSE /\ writeExpired = FALSE

Worker ==
  \/ Start \/ Connect \/ CheckCancelled
  \/ \E n \in 1..Len(Reply(streaming)) : RecvWhole(n) \/ RecvData(n)
  \/ RecvTooLong \/ RecvWholeEnd \/ RecvEnd \/ RecvFails
  \/ OnBody \/ After \/ LastLine \/ ParseCompletion \/ EmitDone

Handler == Refuse \/ OpenStream \/ RecvEvent \/ RecvEOF \/ RecvError \/ WriteEvent

Next ==
  \/ Worker \/ Handler
  \/ ServerSends \/ ServerEnds
  \/ ClientLeaves \/ WriteDeadlinePasses \/ ContextEnds \/ CancelArrives
  \/ Idle

Spec == Init /\ [][Next]_vars

\* Both threads run, and the request's deadline passes.  Neither the server nor
\* the client need do anything.
Fairness == WF_vars(Worker) /\ WF_vars(Handler) /\ WF_vars(ContextEnds)

FairSpec == Spec /\ Fairness

-----------------------------------------------------------------------------
Events == [type : {"token", "done", "error"}, tokens : Seq(1..Tokens)]
Pieces == {"header", "open", "close", "newline", "last"} \X (0..Tokens)
SpanStates == {"none", "open", "ok", "error"}

TypeOK ==
  /\ streaming \in BOOLEAN /\ statusOk \in BOOLEAN
  /\ sent \in 0..Len(Reply(streaming)) /\ connection \in {"open", "closed", "failed"}
  /\ wpc \in {"idle", "start", "connect", "recv", "reading", "lines", "after", "last",
              "done", "returned"}
  /\ received \in 0..sent
  /\ responseOk \in BOOLEAN /\ httpError \in {"none", "failed", "cancelled"}
  /\ pending \in Seq(Pieces)
  /\ content \in Seq(1..Tokens) /\ Len(content) <= Tokens
  /\ wire \in Seq(Events)
  /\ rpcStatus \in {"none", "ok", "cancelled", "unavailable"}
  /\ workerCancelled \in BOOLEAN
  /\ gpc \in {"start", "recv", "write", "refused", "returned"}
  /\ ctxDone \in BOOLEAN
  /\ event \in Events \cup {NoEvent}
  /\ httpSpan \in SpanStates /\ workerSpan \in SpanStates /\ backendSpan \in SpanStates
  /\ sse \in Seq(Events)
  /\ clientGone \in BOOLEAN /\ writeExpired \in BOOLEAN

\* The tokens the i-th event should carry.
EventTokens(type, i) ==
  IF type = "token" THEN <<i>> ELSE IF streaming THEN FirstTokens(i - 1) ELSE All

\* The client receives the tokens of the answer in order, none twice and none
\* left out in between, however recv cuts the lines; and the final event of a
\* streamed answer carries exactly the tokens that came before it, that of an
\* answer which is not streamed all of them.
TokensInOrder ==
  /\ TypeOK
  /\ \A i \in 1..Len(sse) : sse[i].type # "error" =>
       /\ \A j \in 1..(i - 1) : sse[j].type = "token"
       /\ sse[i].tokens = EventTokens(sse[i].type, i)

\* A stream that is opened is closed by an event: if the client has stayed and
\* the write deadline has not passed when handlePredictStream returns, the last
\* event written is done or error, however the worker and the server ended.
EndsExplicitly ==
  gpc = "returned" /\ ~Unreachable => sse # <<>> /\ Last(sse).type \in {"done", "error"}

\* The handler leaves no span open, and the backend span is a success exactly
\* if the final event was written.
SpansTellOutcome ==
  gpc = "returned" =>
    /\ {httpSpan, workerSpan, backendSpan} \subseteq {"ok", "error"}
    /\ backendSpan = "ok" <=> \E i \in 1..Len(sse) : sse[i].type = "done"
    /\ httpSpan = "ok" => Last(sse).type = "done"

-----------------------------------------------------------------------------
(* Inductive invariants.                                                   *)

\* The control points of HttpPostJson(Stream) and of what follows it.
ControlInvariant ==
  /\ wpc \in {"idle", "start", "connect", "recv", "reading", "lines"} => httpError = "none"
  /\ wpc \in {"last", "done"} => httpError # "cancelled"
  /\ rpcStatus # "none" <=> wpc = "returned"
  /\ wpc \in {"idle", "start", "connect"} => received = 0 /\ ~responseOk
  /\ wpc \in {"last", "done"} => responseOk
  /\ wpc = "lines" => streaming /\ statusOk
  /\ responseOk => statusOk
  /\ gpc = "start" => wpc = "idle"

\* pending_line holds what was received after the lines of the tokens in the
\* content, and between two calls of recv no complete line.
ParseInvariant ==
  LET k == Len(content) IN
  /\ streaming /\ httpError # "cancelled" => content = FirstTokens(k)
  /\ streaming /\ httpError # "cancelled" /\ wpc \notin {"done", "returned"} =>
       IF received = 0 \/ ~statusOk THEN pending = <<>> /\ content = <<>>
       ELSE /\ 3 * k + 1 <= received
            /\ pending = SubSeq(Reply(TRUE), 3 * k + 2, received)
            /\ wpc # "lines" => received <= 3 * k + 3
  /\ ~streaming => content \in {<<>>, All}

\* The events on their way from the worker to the client, in order: those
\* written to the client, the one the handler holds, those on the wire.
Delivered == sse \o (IF event = NoEvent THEN <<>> ELSE <<event>>) \o wire

\* While the handler runs, they are the events of the tokens and at last the
\* final event, after which the worker has returned.
DeliveryInvariant ==
  gpc \in {"start", "recv", "write"} =>
    /\ gpc = "write" <=> event # NoEvent
    /\ \A i \in 1..Len(Delivered) :
         /\ Delivered[i].type \in {"token", "done"}
         /\ Delivered[i].tokens = EventTokens(Delivered[i].type, i)
         /\ Delivered[i].type = "done" => i = Len(Delivered) /\ rpcStatus = "ok"
    /\ rpcStatus = "ok" => /\ Delivered # <<>>
                           /\ Delivered[Len(Delivered)].type = "done"
    /\ wpc # "returned" /\ httpError # "cancelled" =>
         Len(Delivered) = IF streaming THEN Len(content) ELSE 0

\* While the handler runs, its spans are open, but for that of the backend once
\* the final event has been written.
SpanInvariant ==
  /\ gpc = "start" => sse = <<>> /\ wire = <<>>
  /\ gpc \in {"recv", "write"} =>
       /\ httpSpan = "open" /\ workerSpan = "open"
       /\ backendSpan \in {"open", "ok"}
       /\ backendSpan = "ok" <=> \E i \in 1..Len(sse) : sse[i].type = "done"

-----------------------------------------------------------------------------
(* Liveness.                                                               *)

\* The handler and the worker thread are done with the request eventually,
\* although the server may fall silent and the client may leave.
BothReturn == gpc # "start" ~> Over

-----------------------------------------------------------------------------
(* A statement of the tests.                                               *)

\* The done event includes the full generated result.
DoneIncludesFullResult ==
  \A i \in 1..Len(sse) : sse[i].type = "done" => sse[i].tokens = All

=============================================================================

------------------------------ MODULE Exchange ------------------------------
(* One proxied request from arrival to its event: ProxyService::handle       *)
(* (src/src/proxy.rs), the shared capture and the observed bodies            *)
(* (src/src/capture.rs). The HTTP server that polls the response body, the   *)
(* upstream client and the transform rules are the environment: any outcome  *)
(* handle() distinguishes can happen.                                        *)
EXTENDS BodyAccumulator

CONSTANTS Exchanges,           \* requests
          MaxRequestBytes,     \* bound: size of a request body
          MaxResponseBytes     \* bound: size of a response body

ASSUME ExchangeAssumption == MaxRequestBytes \in Nat /\ MaxResponseBytes \in Nat

VARIABLES stage,     \* where each exchange is, see Stages
          capture,   \* SharedExchangeCapture of each exchange
          upload,    \* the observed request body
          body,      \* the observed response body
          reply,     \* status line the client was given, 0 for none yet
          events     \* events handed to SqliteWriterHandle::try_send

xvars == <<stage, capture, upload, body, reply, events>>

(* new       the request has not reached handle()                            *)
(* upstream  waiting for client.serve, under request_timeout                 *)
(* buffering waiting for response_body.collect()                             *)
(* body      the response was returned and its ObservedBody is alive         *)
(* answered  nothing left to do; gone: handle() was dropped while waiting    *)
Stages == {"new", "upstream", "buffering", "body", "answered", "gone"}
Results == {"inflight", "success", "client_rejected", "upstream_error", "stream_error"}
ErrorKinds == {"none", "client_protocol", "config", "upstream_protocol", "timeout",
               "internal"}
Statuses == {0, 200, 400, 421, 502, 504}      \* 200 stands for the backend's

Captures == [status_code : Statuses, proxy_result : Results, error : ErrorKinds,
             request_body : Accumulators, response_body : Accumulators,
             finalized : BOOLEAN]
ProxyEvents == [status_code : Statuses, proxy_result : Results, error_kind : ErrorKinds,
                request_body : Summaries, response_body : Summaries]
Uploads == [total : 0..MaxRequestBytes, sent : 0..MaxRequestBytes, open : BOOLEAN]
Bodies == [total : 0..MaxResponseBytes, sent : 0..MaxResponseBytes,
           sized : BOOLEAN,            \* inner.is_end_stream() sees the end
           upstream : BOOLEAN,         \* streamed, so it can still fail
           completed : BOOLEAN, finalized : BOOLEAN]

ExchangeTypeOK ==
  /\ stage \in [Exchanges -> Stages]
  /\ capture \in [Exchanges -> Captures]
  /\ upload \in [Exchanges -> Uploads]
  /\ body \in [Exchanges -> Bodies]
  /\ reply \in [Exchanges -> Statuses]
  /\ events \in [Exchanges -> Seq(ProxyEvents)]

\* SharedExchangeCapture::new.
NewCapture ==
  [status_code |-> 0, proxy_result |-> "inflight", error |-> "none",
   request_body |-> NewAccumulator, response_body |-> NewAccumulator,
   finalized |-> FALSE]

NoUpload == [total |-> 0, sent |-> 0, open |-> FALSE]
NoBody == [total |-> 0, sent |-> 0, sized |-> TRUE, upstream |-> FALSE,
           completed |-> FALSE, finalized |-> FALSE]

ExchangeInit ==
  /\ stage = [x \in Exchanges |-> "new"]
  /\ capture = [x \in Exchanges |-> NewCapture]
  /\ upload = [x \in Exchanges |-> NoUpload]
  /\ body = [x \in Exchanges |-> NoBody]
  /\ reply = [x \in Exchanges |-> 0]
  /\ events = [x \in Exchanges |-> << >>]

-----------------------------------------------------------------------------
(* The capture's setters, and the two ways an event is built and sent.       *)

SetRejection(cap, status, kind) ==
  [cap EXCEPT !.status_code = status, !.proxy_result = "client_rejected", !.error = kind]

SetUpstreamResponse(cap, status) ==
  [cap EXCEPT !.status_code = status, !.proxy_result = "success"]

SetUpstreamError(cap, kind) ==
  [cap EXCEPT !.proxy_result = "upstream_error", !.error = kind]

\* build_event.
BuildEvent(cap) ==
  [status_code |-> cap.status_code, proxy_result |-> cap.proxy_result,
   error_kind |-> cap.error, request_body |-> Finish(cap.request_body),
   response_body |-> Finish(cap.response_body)]

\* finalize_and_send, on the capture cap of exchange x.
FinalizeAndSend(x, cap) ==
  /\ capture' = [capture EXCEPT ![x] = [cap EXCEPT !.finalized = TRUE]]
  /\ events' = IF cap.finalized THEN events
               ELSE [events EXCEPT ![x] = Append(@, BuildEvent(cap))]

\* finalize_with_body_error_and_send: the first error is kept.
FinalizeWithBodyErrorAndSend(x, kind) ==
  LET cap == capture[x] IN
  FinalizeAndSend(x, IF cap.error = "none"
                     THEN [cap EXCEPT !.proxy_result = "stream_error", !.error = kind]
                     ELSE cap)

-----------------------------------------------------------------------------
(* ProxyService::handle.                                                     *)

\* An early return: the event is sent and a gateway error is the answer.
Answer(x, cap, status) ==
  /\ FinalizeAndSend(x, cap)
  /\ stage' = [stage EXCEPT ![x] = "answered"]
  /\ reply' = [reply EXCEPT ![x] = status]
  /\ UNCHANGED body

\* host_matches_frontend is false.
RejectHost(x) ==
  /\ stage[x] = "new"
  /\ Answer(x, SetRejection(capture[x], 421, "client_protocol"), 421)
  /\ UNCHANGED upload

\* build_backend_uri fails.
RejectUri(x) ==
  /\ stage[x] = "new"
  /\ Answer(x, SetRejection(capture[x], 400, "config"), 400)
  /\ UNCHANGED upload

\* The request, with its body observed, is given to the upstream client.
Forward(x, n) ==
  /\ stage[x] = "new"
  /\ stage' = [stage EXCEPT ![x] = "upstream"]
  /\ upload' = [upload EXCEPT ![x] = [total |-> n, sent |-> 0, open |-> TRUE]]
  /\ UNCHANGED <<capture, body, reply, events>>

\* The client connection pulls n bytes of the request body through
\* ObservedBody::request; it may go on doing so after the backend answered.
RequestFrame(x, n) ==
  /\ upload[x].open
  /\ n \in 1..(upload[x].total - upload[x].sent)
  /\ upload' = [upload EXCEPT ![x].sent = @ + n]
  /\ capture' = [capture EXCEPT ![x].request_body = Observe(@, n)]
  /\ UNCHANGED <<stage, body, reply, events>>

\* client.serve failed: bad gateway.
UpstreamError(x) ==
  /\ stage[x] = "upstream"
  /\ Answer(x, SetUpstreamError(capture[x], "upstream_protocol"), 502)
  /\ upload' = [upload EXCEPT ![x].open = FALSE]

\* Mutant: the early return forgets finalize_and_send.
UpstreamTimeoutUnlogged(x) ==
  /\ stage[x] = "upstream"
  /\ stage' = [stage EXCEPT ![x] = "answered"]
  /\ reply' = [reply EXCEPT ![x] = 504]
  /\ upload' = [upload EXCEPT ![x].open = FALSE]
  /\ UNCHANGED <<capture, body, events>>

\* request_timeout elapsed: gateway timeout, the upstream request is dropped.
UpstreamTimeout(x) ==
  /\ stage[x] = "upstream"
  /\ Answer(x, SetUpstreamError(capture[x], "timeout"), 504)
  /\ upload' = [upload EXCEPT ![x].open = FALSE]

\* apply_until_body failed on the response's headers.
TransformError(x) ==
  /\ stage[x] = "upstream"
  /\ Answer(x, SetUpstreamError(capture[x], "internal"), 502)
  /\ UNCHANGED upload

\* A response is returned with an ObservedBody around a body of n bytes.
Respond(x, n, sized, upstream) ==
  /\ body' = [body EXCEPT ![x] = [total |-> n, sent |-> 0, sized |-> sized,
                                  upstream |-> upstream, completed |-> FALSE,
                                  finalized |-> FALSE]]
  /\ capture' = [capture EXCEPT ![x] = SetUpstreamResponse(@, 200)]
  /\ stage' = [stage EXCEPT ![x] = "body"]
  /\ reply' = [reply EXCEPT ![x] = 200]
  /\ UNCHANGED <<upload, events>>

\* PrebufferDisposition::Stream.
StreamResponse(x, n, sized) == stage[x] = "upstream" /\ Respond(x, n, sized, TRUE)

\* PrebufferDisposition::BufferFrom.
BufferResponse(x) ==
  /\ stage[x] = "upstream"
  /\ stage' = [stage EXCEPT ![x] = "buffering"]
  /\ UNCHANGED <<capture, upload, body, reply, events>>

\* response_body.collect() failed.
CollectError(x) ==
  /\ stage[x] = "buffering"
  /\ Answer(x, SetUpstreamError(capture[x], "upstream_protocol"), 502)
  /\ UNCHANGED upload

\* apply_with_body failed, or the new content-length is not a header value.
BufferedTransformError(x) ==
  /\ stage[x] = "buffering"
  /\ Answer(x, SetUpstreamError(capture[x], "internal"), 502)
  /\ UNCHANGED upload

\* The rewritten body, n bytes in memory, is returned.
BufferedResponse(x, n) == stage[x] = "buffering" /\ Respond(x, n, TRUE, FALSE)

\* The server drops handle()'s future: the client went away.
ClientGone(x) ==
  /\ stage[x] \in {"upstream", "buffering"}
  /\ stage' = [stage EXCEPT ![x] = "gone"]
  /\ upload' = [upload EXCEPT ![x].open = FALSE]
  /\ UNCHANGED <<capture, body, reply, events>>

-----------------------------------------------------------------------------
(* ObservedBody::response, as the HTTP server drives it: it polls until an   *)
(* error, None, or is_end_stream(), which it also asks before the first poll, *)
(* and then drops the body; it drops it earlier when the client disconnects. *)

IsEndStream(b) == b.sized /\ b.sent = b.total
Pollable(x) == stage[x] = "body" /\ ~ body[x].finalized /\ ~ IsEndStream(body[x])

\* poll_frame: Some(Ok(frame)) of n bytes.
PollFrame(x, n) ==
  /\ Pollable(x)
  /\ n \in 1..(body[x].total - body[x].sent)
  /\ capture' = [capture EXCEPT ![x].response_body = Observe(@, n)]
  /\ body' = [body EXCEPT ![x].sent = @ + n,
                          ![x].completed = IsEndStream([body[x] EXCEPT !.sent = @ + n])]
  /\ UNCHANGED <<stage, upload, reply, events>>

\* poll_frame: Some(Err(err)), from the backend.
PollError(x) ==
  /\ Pollable(x)
  /\ body[x].upstream
  /\ FinalizeWithBodyErrorAndSend(x, "upstream_protocol")
  /\ body' = [body EXCEPT ![x].finalized = TRUE]
  /\ UNCHANGED <<stage, upload, reply>>

\* poll_frame: None.
PollEnd(x) ==
  /\ Pollable(x)
  /\ body[x].sent = body[x].total
  /\ FinalizeAndSend(x, capture[x])
  /\ body' = [body EXCEPT ![x].completed = TRUE, ![x].finalized = TRUE]
  /\ UNCHANGED <<stage, upload, reply>>

\* Mutants: a body dropped half way is a success; Drop leaves the completed
\* bodies to poll_frame.
DropBodyForgives(x) ==
  /\ stage[x] = "body"
  /\ stage' = [stage EXCEPT ![x] = "answered"]
  /\ body' = [body EXCEPT ![x].finalized = TRUE]
  /\ FinalizeAndSend(x, capture[x])
  /\ UNCHANGED <<upload, reply>>
DropBodyTrusts(x) ==
  /\ stage[x] = "body"
  /\ stage' = [stage EXCEPT ![x] = "answered"]
  /\ body' = [body EXCEPT ![x].finalized = TRUE]
  /\ IF body[x].finalized \/ body[x].completed THEN UNCHANGED <<capture, events>>
     ELSE FinalizeWithBodyErrorAndSend(x, "client_protocol")
  /\ UNCHANGED <<upload, reply>>

\* Drop for ObservedBody.
DropBody(x) ==
  /\ stage[x] = "body"
  /\ stage' = [stage EXCEPT ![x] = "answered"]
  /\ body' = [body EXCEPT ![x].finalized = TRUE]
  /\ \/ /\ body[x].finalized
        /\ UNCHANGED <<capture, events>>
     \/ /\ ~ body[x].finalized /\ body[x].completed
        /\ FinalizeAndSend(x, capture[x])
     \/ /\ ~ body[x].finalized /\ ~ body[x].completed
        /\ FinalizeWithBodyErrorAndSend(x, "client_protocol")
  /\ UNCHANGED <<upload, reply>>

-----------------------------------------------------------------------------
Arrive(x) ==
  RejectHost(x) \/ RejectUri(x) \/ \E n \in 0..MaxRequestBytes : Forward(x, n)

Proceed(x) ==
  \/ \E n \in 1..MaxRequestBytes : RequestFrame(x, n)
  \/ UpstreamError(x) \/ UpstreamTimeout(x) \/ TransformError(x)
  \/ \E n \in 0..MaxResponseBytes :
       \/ \E sized \in BOOLEAN : StreamResponse(x, n, sized)
       \/ BufferedResponse(x, n)
  \/ BufferResponse(x) \/ CollectError(x) \/ BufferedTransformError(x)
  \/ ClientGone(x)
  \/ \E n \in 1..MaxResponseBytes : PollFrame(x, n)
  \/ PollError(x) \/ PollEnd(x) \/ DropBody(x)

ExchangeStep(x) == Arrive(x) \/ Proceed(x)
ExchangeNext == \E x \in Exchanges : ExchangeStep(x)

ExchangeSpec == ExchangeInit /\ [][ExchangeNext]_xvars

\* tokio::time::timeout fires; the server drops every body it was given once
\* it has seen the end of the stream or an error.
Finished(x) == body[x].finalized \/ IsEndStream(body[x])
ExchangeFairness ==
  \A x \in Exchanges : /\ WF_xvars(UpstreamTimeout(x))
                       /\ WF_xvars(Finished(x) /\ DropBody(x))
FairExchangeSpec == ExchangeSpec /\ ExchangeFairness

-----------------------------------------------------------------------------
(* Properties.                                                               *)

(* Each exchange sends one event if it is answered and none if its handler    *)
(* was dropped, whatever path it took through handle(), poll_frame and Drop.  *)
OneEventPerExchange ==
  \A x \in Exchanges :
    /\ Len(events[x]) = IF capture[x].finalized THEN 1 ELSE 0
    /\ stage[x] = "answered" => capture[x].finalized
    /\ stage[x] \in {"new", "upstream", "buffering", "gone"} => ~ capture[x].finalized
    /\ stage[x] = "body" => (capture[x].finalized <=> body[x].finalized)

(* An event says what happened to the client: its status is the one the       *)
(* client saw (or is left out), it is never "inflight", it has an error iff   *)
(* it is no success, a rejected request sent nothing to the backend, and a    *)
(* success delivered the whole response; the hash and the truncation flag are  *)
(* those of the bytes that were delivered.                                    *)
EventTruthful ==
  \A x \in Exchanges : events[x] # << >> =>
    LET ev == Head(events[x]) IN
    /\ ev.status_code \in {0, reply[x]}
    /\ ev.proxy_result # "inflight"
    /\ ev.error_kind = "none" <=> ev.proxy_result = "success"
    /\ ev.proxy_result = "client_rejected" => upload[x].sent = 0
    /\ ev.proxy_result = "success" => body[x].sent = body[x].total
    /\ ev.response_body.sha256 = SomeIf(body[x].sent)
    /\ ev.response_body.truncated <=> body[x].sent > BodyMaxBytes

(* The preview is the longest prefix that fits and `truncated` says whether   *)
(* something is missing from it, for bodies cut into frames in any way.       *)
AccumulatorsExact ==
  \A x \in Exchanges :
    /\ Exact(capture[x].request_body) /\ Exact(capture[x].response_body)
    /\ capture[x].request_body.hashed = upload[x].sent
    /\ capture[x].response_body.hashed = body[x].sent

(* handle() never waits for the backend's answer for ever (request_timeout),  *)
(* and a response that reached its end, or an error, is logged.               *)
EventuallyLogged ==
  \A x \in Exchanges :
    /\ (stage[x] = "upstream") ~> (stage[x] # "upstream")
    /\ (stage[x] = "body" /\ Finished(x)) ~> (events[x] # << >>)

(* capture.rs calls it "response body dropped before completion": the event   *)
(* of a body the server dropped blames the client only if the stream had not  *)
(* ended.                                                                     *)
DroppedBeforeCompletion ==
  \A x \in Exchanges : events[x] # << >> =>
    (Head(events[x]).proxy_result = "stream_error"
       /\ Head(events[x]).error_kind = "client_protocol" => ~ IsEndStream(body[x]))
=============================================================================

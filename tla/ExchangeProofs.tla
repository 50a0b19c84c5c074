--------------------------- MODULE ExchangeProofs ---------------------------
(* Proofs, for any number of exchanges and bodies of any size, of the safety  *)
(* properties of Exchange.                                                    *)
EXTENDS Exchange, TLAPS

-----------------------------------------------------------------------------
(* BodyAccumulator.                                                          *)

(* BodyAccumulator::new knows an empty body. *)
LEMMA NewAccumulatorExact ==
  /\ NewAccumulator \in Accumulators
  /\ Exact(NewAccumulator)
  /\ NewAccumulator.hashed = 0
BY BodyMaxAssumption DEF NewAccumulator, Accumulators, Exact, SmallerOf

(* BodyAccumulator::observe keeps the preview and the flag exact, wherever a  *)
(* chunk ends relative to the cap.                                            *)
LEMMA ObserveExact ==
  ASSUME NEW acc \in Accumulators, NEW n \in Nat, Exact(acc)
  PROVE  /\ Observe(acc, n) \in Accumulators
         /\ Exact(Observe(acc, n))
         /\ Observe(acc, n).hashed = acc.hashed + n
<1>. USE BodyMaxAssumption DEF Accumulators, Exact, SmallerOf
<1>0. /\ acc.hashed \in Nat /\ acc.retained \in Nat /\ acc.truncated \in BOOLEAN
      /\ acc = [hashed |-> acc.hashed, retained |-> acc.retained, truncated |-> acc.truncated]
  OBVIOUS
<1>1. CASE n = 0
  BY <1>0, <1>1 DEF Observe
<1>2. CASE n # 0 /\ acc.retained < BodyMaxBytes
  <2>. DEFINE take == SmallerOf(BodyMaxBytes - acc.retained, n)
  <2>1. acc.retained = acc.hashed /\ acc.truncated = FALSE
    BY <1>0, <1>2
  <2>2. take \in Nat /\ acc.retained + take \in 0..BodyMaxBytes /\ (take < n) \in BOOLEAN
    BY <1>0, <1>2
  <2>3. PICK cut \in BOOLEAN : cut = (take < n)
    BY <2>2
  <2>4. Observe(acc, n) =
          [hashed |-> acc.hashed + n, retained |-> acc.retained + take, truncated |-> cut]
    <3>1. Observe(acc, n) =
            [hashed |-> acc.hashed + n, retained |-> acc.retained + take,
             truncated |-> acc.truncated \/ take < n]
      BY <1>2 DEF Observe
    <3>2. (acc.truncated \/ take < n) = cut
      BY <2>1, <2>3
    <3>. QED
      BY <3>1, <3>2, Zenon
  <2>5. /\ Observe(acc, n).hashed = acc.hashed + n
        /\ Observe(acc, n).retained = acc.retained + take
        /\ Observe(acc, n).truncated = cut
        /\ Observe(acc, n) \in Accumulators
    <3>. HIDE DEF take
    <3>. QED
      BY <1>0, <2>2, <2>4
  <2>6. acc.retained + take = SmallerOf(acc.hashed + n, BodyMaxBytes)
    BY <1>0, <1>2, <2>1
  <2>7. (take < n) <=> (acc.hashed + n > BodyMaxBytes)
    BY <1>0, <1>2, <2>1
  <2>. QED
    BY <2>3, <2>5, <2>6, <2>7, Zenon DEF Exact
<1>3. CASE n # 0 /\ acc.retained >= BodyMaxBytes
  <2>1. Observe(acc, n) = [acc EXCEPT !.hashed = @ + n, !.truncated = TRUE]
    BY <1>0, <1>3 DEF Observe
  <2>2. Observe(acc, n) =
          [hashed |-> acc.hashed + n, retained |-> acc.retained, truncated |-> TRUE]
    BY <1>0, <2>1, Zenon
  <2>3. /\ Observe(acc, n).hashed = acc.hashed + n
        /\ Observe(acc, n).retained = acc.retained
        /\ Observe(acc, n).truncated = TRUE
        /\ Observe(acc, n) \in Accumulators
    BY <1>0, <2>2
  <2>4. acc.retained = BodyMaxBytes /\ acc.hashed >= BodyMaxBytes
    BY <1>0, <1>3
  <2>. QED
    BY <1>0, <1>3, <2>3, <2>4
<1>. QED
  BY <1>0, <1>1, <1>2, <1>3

(* BodyAccumulator::finish, column by column. *)
LEMMA FinishFacts ==
  ASSUME NEW acc \in Accumulators
  PROVE  /\ Finish(acc) \in Summaries
         /\ Finish(acc).sha256 = SomeIf(acc.hashed)
         /\ Finish(acc).truncated = acc.truncated
BY DEF Finish, Summaries, SomeIf, Accumulators

(* build_event, column by column. *)
LEMMA BuildEventFacts ==
  ASSUME NEW cap \in Captures
  PROVE  /\ BuildEvent(cap) \in ProxyEvents
         /\ BuildEvent(cap).status_code = cap.status_code
         /\ BuildEvent(cap).proxy_result = cap.proxy_result
         /\ BuildEvent(cap).error_kind = cap.error
         /\ BuildEvent(cap).response_body.sha256 = SomeIf(cap.response_body.hashed)
         /\ BuildEvent(cap).response_body.truncated = cap.response_body.truncated
<1>1. cap.request_body \in Accumulators /\ cap.response_body \in Accumulators
  BY DEF Captures
<1>2. /\ Finish(cap.request_body) \in Summaries
      /\ Finish(cap.response_body) \in Summaries
  BY <1>1, FinishFacts
<1>3. /\ BuildEvent(cap).response_body = Finish(cap.response_body)
      /\ BuildEvent(cap) \in ProxyEvents
      /\ BuildEvent(cap).status_code = cap.status_code
      /\ BuildEvent(cap).proxy_result = cap.proxy_result
      /\ BuildEvent(cap).error_kind = cap.error
  BY <1>2 DEF BuildEvent, ProxyEvents, Captures
<1>. QED
  BY <1>1, <1>3, FinishFacts

-----------------------------------------------------------------------------
(* The inductive invariant, on the values one exchange has: its stage,        *)
(* capture, upload, response body, reply and events.                          *)

Waits == {"new", "upstream", "buffering", "gone"}

Typed(st, cap, up, bo, re, ev) ==
  /\ st \in Stages /\ cap \in Captures /\ up \in Uploads /\ bo \in Bodies
  /\ re \in Statuses /\ ev \in Seq(ProxyEvents)

\* The accumulators are exact and have seen what went by.
Counted(cap, up, bo) ==
  /\ Exact(cap.request_body) /\ Exact(cap.response_body)
  /\ cap.request_body.hashed = up.sent
  /\ cap.response_body.hashed = bo.sent

\* EventTruthful, of one event; a rejected request can send nothing later.
TruthfulEvent(e, up, bo, re) ==
  /\ e.status_code \in {0, re}
  /\ e.proxy_result # "inflight"
  /\ e.error_kind = "none" <=> e.proxy_result = "success"
  /\ e.proxy_result = "client_rejected" => up.sent = 0 /\ ~ up.open
  /\ e.proxy_result = "success" => bo.sent = bo.total
  /\ e.response_body.sha256 = SomeIf(bo.sent)
  /\ e.response_body.truncated <=> bo.sent > BodyMaxBytes

\* A finalized capture has sent one event, any other none.
Logged(cap, up, bo, re, ev) ==
  /\ ~ cap.finalized => ev = << >>
  /\ cap.finalized => \E e \in ProxyEvents : ev = <<e>> /\ TruthfulEvent(e, up, bo, re)

\* Which stages have finalized their capture.
FinalizedAt(st, cap, bo) ==
  /\ st = "answered" => cap.finalized
  /\ st \in Waits => ~ cap.finalized
  /\ st = "body" => (cap.finalized <=> bo.finalized)

\* What the capture holds until an outcome is known ...
NoOutcome(st, cap, up, bo, re) ==
  /\ st \in Waits => /\ cap.proxy_result = "inflight" /\ cap.error = "none"
                     /\ cap.status_code = 0 /\ bo.sent = 0
  /\ st = "new" => up.sent = 0 /\ ~ up.open

\* ... and while the response is on its way.
UnderWay(st, cap, bo, re) ==
  /\ st = "body" /\ ~ bo.finalized =>
       /\ cap.proxy_result = "success" /\ cap.error = "none"
       /\ cap.status_code = 200 /\ re = 200
  /\ bo.completed => bo.sent = bo.total

Good(st, cap, up, bo, re, ev) ==
  /\ Typed(st, cap, up, bo, re, ev)
  /\ Counted(cap, up, bo)
  /\ Logged(cap, up, bo, re, ev)
  /\ FinalizedAt(st, cap, bo)
  /\ NoOutcome(st, cap, up, bo, re)
  /\ UnderWay(st, cap, bo, re)

GoodAt(x) == Good(stage[x], capture[x], upload[x], body[x], reply[x], events[x])

ExchangeInv == ExchangeTypeOK /\ \A x \in Exchanges : GoodAt(x)

-----------------------------------------------------------------------------
(* A step gives one exchange new values.                                     *)

Becomes(x, st, cap, up, bo, re, ev) ==
  /\ stage' = [stage EXCEPT ![x] = st]
  /\ capture' = [capture EXCEPT ![x] = cap]
  /\ upload' = [upload EXCEPT ![x] = up]
  /\ body' = [body EXCEPT ![x] = bo]
  /\ reply' = [reply EXCEPT ![x] = re]
  /\ events' = [events EXCEPT ![x] = ev]

(* If the new values are good, so is the state: the other exchanges keep      *)
(* theirs.                                                                    *)
LEMMA BecomesGood ==
  ASSUME ExchangeInv, NEW x \in Exchanges,
         NEW st, NEW cap, NEW up, NEW bo, NEW re, NEW ev,
         Good(st, cap, up, bo, re, ev), Becomes(x, st, cap, up, bo, re, ev)
  PROVE  ExchangeInv'
<1>1. /\ stage \in [Exchanges -> Stages] /\ capture \in [Exchanges -> Captures]
      /\ upload \in [Exchanges -> Uploads] /\ body \in [Exchanges -> Bodies]
      /\ reply \in [Exchanges -> Statuses] /\ events \in [Exchanges -> Seq(ProxyEvents)]
  BY DEF ExchangeInv, ExchangeTypeOK
<1>2. ExchangeTypeOK'
  BY <1>1 DEF Becomes, Good, Typed, ExchangeTypeOK
<1>3. /\ stage'[x] = st /\ capture'[x] = cap /\ upload'[x] = up
      /\ body'[x] = bo /\ reply'[x] = re /\ events'[x] = ev
  BY <1>1 DEF Becomes
<1>4. ASSUME NEW y \in Exchanges, y # x
      PROVE  /\ stage'[y] = stage[y] /\ capture'[y] = capture[y] /\ upload'[y] = upload[y]
             /\ body'[y] = body[y] /\ reply'[y] = reply[y] /\ events'[y] = events[y]
  BY <1>1, <1>4 DEF Becomes
<1>5. ASSUME NEW y \in Exchanges PROVE GoodAt(y)'
  <2>1. CASE y = x
    BY <1>3, <2>1 DEF GoodAt
  <2>2. CASE y # x
    BY <1>4, <2>2 DEF GoodAt, ExchangeInv
  <2>. QED
    BY <2>1, <2>2
<1>. QED
  BY <1>2, <1>5 DEF ExchangeInv

(* The values of an exchange that a step leaves alone.                        *)
LEMMA Unchanged ==
  ASSUME ExchangeTypeOK, NEW x \in Exchanges
  PROVE  /\ stage = [stage EXCEPT ![x] = stage[x]]
         /\ capture = [capture EXCEPT ![x] = capture[x]]
         /\ upload = [upload EXCEPT ![x] = upload[x]]
         /\ body = [body EXCEPT ![x] = body[x]]
         /\ reply = [reply EXCEPT ![x] = reply[x]]
         /\ events = [events EXCEPT ![x] = events[x]]
BY DEF ExchangeTypeOK

-----------------------------------------------------------------------------
(* The setters of the capture and the sending of its event.                  *)

(* set_rejection, set_upstream_response and set_upstream_error change the     *)
(* outcome only.                                                              *)
LEMMA SetterFacts ==
  ASSUME NEW cap \in Captures, NEW status \in Statuses, NEW kind \in ErrorKinds
  PROVE  /\ SetRejection(cap, status, kind) \in Captures
         /\ SetRejection(cap, status, kind).status_code = status
         /\ SetRejection(cap, status, kind).proxy_result = "client_rejected"
         /\ SetRejection(cap, status, kind).error = kind
         /\ SetUpstreamResponse(cap, status) \in Captures
         /\ SetUpstreamResponse(cap, status).status_code = status
         /\ SetUpstreamResponse(cap, status).proxy_result = "success"
         /\ SetUpstreamResponse(cap, status).error = cap.error
         /\ SetUpstreamError(cap, kind) \in Captures
         /\ SetUpstreamError(cap, kind).status_code = cap.status_code
         /\ SetUpstreamError(cap, kind).proxy_result = "upstream_error"
         /\ SetUpstreamError(cap, kind).error = kind
         /\ \A c \in {SetRejection(cap, status, kind), SetUpstreamResponse(cap, status),
                      SetUpstreamError(cap, kind)} :
              /\ c.request_body = cap.request_body
              /\ c.response_body = cap.response_body
              /\ c.finalized = cap.finalized
BY DEF SetRejection, SetUpstreamResponse, SetUpstreamError, Captures, Results

(* finalize_and_send marks the capture and leaves the rest of it alone.       *)
LEMMA MarkFacts ==
  ASSUME NEW cap \in Captures
  PROVE  LET marked == [cap EXCEPT !.finalized = TRUE]
         IN /\ marked \in Captures
            /\ marked.finalized = TRUE
            /\ marked.status_code = cap.status_code
            /\ marked.proxy_result = cap.proxy_result
            /\ marked.error = cap.error
            /\ marked.request_body = cap.request_body
            /\ marked.response_body = cap.response_body
BY DEF Captures

(* finalize_and_send of a capture that was not finalized sends its event.     *)
LEMMA FinalizeEffect ==
  ASSUME ExchangeTypeOK, NEW x \in Exchanges, NEW cap \in Captures,
         ~ cap.finalized, events[x] = << >>, FinalizeAndSend(x, cap)
  PROVE  /\ capture' = [capture EXCEPT ![x] = [cap EXCEPT !.finalized = TRUE]]
         /\ events' = [events EXCEPT ![x] = <<BuildEvent(cap)>>]
<1>1. BuildEvent(cap) \in ProxyEvents
  BY BuildEventFacts
<1>2. Append(events[x], BuildEvent(cap)) = <<BuildEvent(cap)>>
  BY <1>1
<1>. QED
  BY <1>2 DEF FinalizeAndSend, ExchangeTypeOK

(* The event of a capture whose outcome is known is truthful.                 *)
LEMMA SendsTruth ==
  ASSUME NEW cap \in Captures, NEW up \in Uploads, NEW bo \in Bodies, NEW re \in Statuses,
         Counted(cap, up, bo),
         cap.status_code \in {0, re},
         cap.proxy_result # "inflight",
         cap.error = "none" <=> cap.proxy_result = "success",
         cap.proxy_result = "client_rejected" => up.sent = 0 /\ ~ up.open,
         cap.proxy_result = "success" => bo.sent = bo.total
  PROVE  LET marked == [cap EXCEPT !.finalized = TRUE]
         IN /\ marked \in Captures
            /\ Counted(marked, up, bo)
            /\ Logged(marked, up, bo, re, <<BuildEvent(cap)>>)
            /\ <<BuildEvent(cap)>> \in Seq(ProxyEvents)
<1>. DEFINE marked == [cap EXCEPT !.finalized = TRUE]
<1>1. /\ marked \in Captures /\ marked.finalized
      /\ marked.request_body = cap.request_body
      /\ marked.response_body = cap.response_body
  BY MarkFacts
<1>2. Counted(marked, up, bo)
  BY <1>1, Zenon DEF Counted
<1>3. BuildEvent(cap) \in ProxyEvents
  BY BuildEventFacts
<1>4. TruthfulEvent(BuildEvent(cap), up, bo, re)
  <2>1. cap.response_body.truncated <=> bo.sent > BodyMaxBytes
    BY DEF Counted, Exact
  <2>2. cap.response_body.hashed = bo.sent
    BY DEF Counted
  <2>. QED
    BY <2>1, <2>2, BuildEventFacts, Zenon DEF TruthfulEvent
<1>5. Logged(marked, up, bo, re, <<BuildEvent(cap)>>)
  BY <1>1, <1>3, <1>4, Zenon DEF Logged
<1>. QED
  BY <1>1, <1>2, <1>3, <1>5

(* An early return of handle(): the event is sent and the client is given a   *)
(* gateway error.                                                             *)
LEMMA AnswerGood ==
  ASSUME ExchangeInv, NEW x \in Exchanges, stage[x] \in Waits,
         NEW cap \in Captures, NEW status \in Statuses, NEW up \in Uploads,
         cap.request_body = capture[x].request_body,
         cap.response_body = capture[x].response_body,
         cap.finalized = capture[x].finalized,
         cap.status_code \in {0, status},
         cap.proxy_result \in {"client_rejected", "upstream_error"},
         cap.error # "none",
         up.sent = upload[x].sent,
         cap.proxy_result = "client_rejected" => up.sent = 0 /\ ~ up.open,
         Answer(x, cap, status), upload' = [upload EXCEPT ![x] = up]
  PROVE  ExchangeInv'
<1>. DEFINE marked == [cap EXCEPT !.finalized = TRUE]
<1>1. /\ ExchangeTypeOK
      /\ Good(stage[x], capture[x], upload[x], body[x], reply[x], events[x])
  BY DEF ExchangeInv, GoodAt
<1>2. /\ body[x] \in Bodies /\ ~ cap.finalized /\ events[x] = << >>
      /\ Counted(cap, up, body[x])
      /\ body[x].completed => body[x].sent = body[x].total
  BY <1>1 DEF Good, Typed, FinalizedAt, Logged, Counted, UnderWay
<1>3. /\ capture' = [capture EXCEPT ![x] = marked]
      /\ events' = [events EXCEPT ![x] = <<BuildEvent(cap)>>]
      /\ stage' = [stage EXCEPT ![x] = "answered"]
      /\ reply' = [reply EXCEPT ![x] = status]
      /\ body' = [body EXCEPT ![x] = body[x]]
  BY <1>1, <1>2, FinalizeEffect, Unchanged DEF Answer
<1>4. /\ marked \in Captures
      /\ Counted(marked, up, body[x])
      /\ Logged(marked, up, body[x], status, <<BuildEvent(cap)>>)
      /\ <<BuildEvent(cap)>> \in Seq(ProxyEvents)
  BY <1>2, SendsTruth
<1>5. marked.finalized
  BY MarkFacts
<1>. HIDE DEF marked
<1>6. Good("answered", marked, up, body[x], status, <<BuildEvent(cap)>>)
  BY <1>2, <1>4, <1>5 DEF Good, Typed, FinalizedAt, NoOutcome, UnderWay, Stages, Waits
<1>7. Becomes(x, "answered", marked, up, body[x], status, <<BuildEvent(cap)>>)
  BY <1>3 DEF Becomes
<1>. QED
  BY <1>6, <1>7, BecomesGood

-----------------------------------------------------------------------------
(* ProxyService::handle, action by action.                                   *)

(* What is known of an exchange before its step.                              *)
LEMMA Known ==
  ASSUME ExchangeInv, NEW x \in Exchanges
  PROVE  /\ ExchangeTypeOK
         /\ Good(stage[x], capture[x], upload[x], body[x], reply[x], events[x])
         /\ stage[x] \in Stages /\ capture[x] \in Captures /\ upload[x] \in Uploads
         /\ body[x] \in Bodies /\ reply[x] \in Statuses /\ events[x] \in Seq(ProxyEvents)
BY DEF ExchangeInv, GoodAt, Good, Typed

(* A request is rejected before anything is sent.                             *)
LEMMA RejectGood ==
  ASSUME ExchangeInv, NEW x \in Exchanges, RejectHost(x) \/ RejectUri(x)
  PROVE  ExchangeInv'
<1>1. PICK status \in {421, 400}, kind \in {"client_protocol", "config"} :
        Answer(x, SetRejection(capture[x], status, kind), status)
  BY DEF RejectHost, RejectUri
<1>2. stage[x] = "new" /\ upload' = [upload EXCEPT ![x] = upload[x]]
  BY Known, Unchanged DEF RejectHost, RejectUri
<1>3. status \in Statuses /\ kind \in ErrorKinds /\ kind # "none"
  BY DEF Statuses, ErrorKinds
<1>4. upload[x].sent = 0 /\ ~ upload[x].open
  BY <1>2, Known DEF Good, NoOutcome
<1>5. stage[x] \in Waits
  BY <1>2 DEF Waits
<1>. DEFINE cap == SetRejection(capture[x], status, kind)
<1>6. /\ cap \in Captures
      /\ cap.request_body = capture[x].request_body
      /\ cap.response_body = capture[x].response_body
      /\ cap.finalized = capture[x].finalized
      /\ cap.status_code = status
      /\ cap.proxy_result = "client_rejected"
      /\ cap.error = kind
  BY <1>3, Known, SetterFacts
<1>7. Answer(x, cap, status)
  BY <1>1
<1>. HIDE DEF cap
<1>. QED
  BY <1>2, <1>3, <1>4, <1>5, <1>6, <1>7, Known, AnswerGood

(* The request's upload is over.                                              *)
LEMMA CloseUpload ==
  ASSUME NEW up \in Uploads
  PROVE  /\ [up EXCEPT !.open = FALSE] \in Uploads
         /\ [up EXCEPT !.open = FALSE].sent = up.sent
BY DEF Uploads

(* The backend failed, was too slow, or its response could not be rewritten.  *)
LEMMA UpstreamFailureGood ==
  ASSUME ExchangeInv, NEW x \in Exchanges,
         \/ UpstreamError(x) \/ UpstreamTimeout(x) \/ TransformError(x)
         \/ CollectError(x) \/ BufferedTransformError(x)
  PROVE  ExchangeInv'
<1>1. PICK status \in {502, 504}, kind \in {"upstream_protocol", "timeout", "internal"} :
        Answer(x, SetUpstreamError(capture[x], kind), status)
  BY DEF UpstreamError, UpstreamTimeout, TransformError, CollectError,
         BufferedTransformError
<1>2. stage[x] \in {"upstream", "buffering"}
  BY DEF UpstreamError, UpstreamTimeout, TransformError, CollectError,
         BufferedTransformError
<1>3. \/ upload' = [upload EXCEPT ![x].open = FALSE]
      \/ UNCHANGED upload
  BY DEF UpstreamError, UpstreamTimeout, TransformError, CollectError,
         BufferedTransformError
<1>4. PICK up \in Uploads : /\ upload' = [upload EXCEPT ![x] = up]
                            /\ up.sent = upload[x].sent
  <2>1. CASE upload' = [upload EXCEPT ![x].open = FALSE]
    <3>1. upload' = [upload EXCEPT ![x] = [upload[x] EXCEPT !.open = FALSE]]
      BY <2>1
    <3>2. /\ [upload[x] EXCEPT !.open = FALSE] \in Uploads
          /\ [upload[x] EXCEPT !.open = FALSE].sent = upload[x].sent
      BY Known, CloseUpload
    <3>. DEFINE closed == [upload[x] EXCEPT !.open = FALSE]
    <3>3. /\ closed \in Uploads
          /\ upload' = [upload EXCEPT ![x] = closed]
          /\ closed.sent = upload[x].sent
      BY <3>1, <3>2, Zenon
    <3>. HIDE DEF closed
    <3>. QED
      BY <3>3
  <2>2. CASE UNCHANGED upload
    BY <2>2, Known, Unchanged
  <2>. QED
    BY <1>3, <2>1, <2>2
<1>5. status \in Statuses /\ kind \in ErrorKinds /\ kind # "none"
  BY DEF Statuses, ErrorKinds
<1>6. stage[x] \in Waits /\ capture[x].status_code = 0
  BY <1>2, Known DEF Waits, Good, NoOutcome
<1>. DEFINE cap == SetUpstreamError(capture[x], kind)
<1>7. /\ cap \in Captures
      /\ cap.request_body = capture[x].request_body
      /\ cap.response_body = capture[x].response_body
      /\ cap.finalized = capture[x].finalized
      /\ cap.status_code = 0
      /\ cap.proxy_result = "upstream_error"
      /\ cap.error = kind
  BY <1>5, <1>6, Known, SetterFacts
<1>8. Answer(x, cap, status)
  BY <1>1
<1>. HIDE DEF cap
<1>. QED
  BY <1>4, <1>5, <1>6, <1>7, <1>8, AnswerGood

(* The request is given to the upstream client.                               *)
LEMMA ForwardGood ==
  ASSUME ExchangeInv, NEW x \in Exchanges, NEW n \in 0..MaxRequestBytes, Forward(x, n)
  PROVE  ExchangeInv'
<1>. DEFINE up == [total |-> n, sent |-> 0, open |-> TRUE]
<1>1. /\ stage[x] = "new"
      /\ Becomes(x, "upstream", capture[x], up, body[x], reply[x], events[x])
  BY Known, Unchanged DEF Forward, Becomes
<1>2. up \in Uploads /\ up.sent = 0
  BY ExchangeAssumption DEF Uploads
<1>. HIDE DEF up
<1>3. Good("upstream", capture[x], up, body[x], reply[x], events[x])
  BY <1>1, <1>2, Known DEF Good, Typed, Counted, Logged, FinalizedAt, NoOutcome, UnderWay,
                           Stages, Waits
<1>. QED
  BY <1>1, <1>3, BecomesGood

(* The response's headers are kept until its body is there.                   *)
LEMMA BufferResponseGood ==
  ASSUME ExchangeInv, NEW x \in Exchanges, BufferResponse(x) PROVE ExchangeInv'
<1>1. /\ stage[x] = "upstream"
      /\ Becomes(x, "buffering", capture[x], upload[x], body[x], reply[x], events[x])
  BY Known, Unchanged DEF BufferResponse, Becomes
<1>2. Good("buffering", capture[x], upload[x], body[x], reply[x], events[x])
  BY <1>1, Known DEF Good, Typed, Counted, Logged, FinalizedAt, NoOutcome, UnderWay,
                     Stages, Waits
<1>. QED
  BY <1>1, <1>2, BecomesGood

(* handle() is dropped: its capture is never finalized.                       *)
LEMMA ClientGoneGood ==
  ASSUME ExchangeInv, NEW x \in Exchanges, ClientGone(x) PROVE ExchangeInv'
<1>. DEFINE up == [upload[x] EXCEPT !.open = FALSE]
<1>1. /\ stage[x] \in {"upstream", "buffering"}
      /\ Becomes(x, "gone", capture[x], up, body[x], reply[x], events[x])
  BY Known, Unchanged DEF ClientGone, Becomes, ExchangeTypeOK
<1>2. up \in Uploads /\ up.sent = upload[x].sent
  BY Known, CloseUpload
<1>. HIDE DEF up
<1>3. Good("gone", capture[x], up, body[x], reply[x], events[x])
  BY <1>1, <1>2, Known DEF Good, Typed, Counted, Logged, FinalizedAt, NoOutcome, UnderWay,
                           Stages, Waits
<1>. QED
  BY <1>1, <1>3, BecomesGood

(* A response is returned: streamed, or rewritten in memory.                  *)
LEMMA RespondGood ==
  ASSUME ExchangeInv, NEW x \in Exchanges, stage[x] \in {"upstream", "buffering"},
         NEW n \in 0..MaxResponseBytes, NEW sized \in BOOLEAN, NEW upstream \in BOOLEAN,
         Respond(x, n, sized, upstream)
  PROVE  ExchangeInv'
<1>. DEFINE bo == [total |-> n, sent |-> 0, sized |-> sized, upstream |-> upstream,
                   completed |-> FALSE, finalized |-> FALSE]
            cap == SetUpstreamResponse(capture[x], 200)
<1>1. Becomes(x, "body", cap, upload[x], bo, 200, events[x])
  BY Known, Unchanged DEF Respond, Becomes, ExchangeTypeOK
<1>2. bo \in Bodies /\ bo.sent = 0 /\ bo.finalized = FALSE /\ bo.completed = FALSE
  BY ExchangeAssumption DEF Bodies
<1>3. 200 \in Statuses /\ "internal" \in ErrorKinds
  BY DEF Statuses, ErrorKinds
<1>4. /\ capture[x].proxy_result = "inflight" /\ capture[x].error = "none"
      /\ ~ capture[x].finalized /\ body[x].sent = 0
  BY Known DEF Good, NoOutcome, FinalizedAt, Waits
<1>5. /\ cap \in Captures
      /\ cap.status_code = 200 /\ cap.proxy_result = "success" /\ cap.error = "none"
      /\ cap.request_body = capture[x].request_body
      /\ cap.response_body = capture[x].response_body
      /\ cap.finalized = capture[x].finalized
  BY <1>3, <1>4, Known, SetterFacts
<1>. HIDE DEF bo, cap
<1>6. Good("body", cap, upload[x], bo, 200, events[x])
  BY <1>2, <1>3, <1>4, <1>5, Known DEF Good, Typed, Counted, Logged, FinalizedAt,
                                       NoOutcome, UnderWay, Stages, Waits
<1>. QED
  BY <1>1, <1>6, BecomesGood

-----------------------------------------------------------------------------
(* The observed bodies.                                                      *)

(* Bytes of the request body go by; an event that was sent stays true.        *)
LEMMA RequestFrameGood ==
  ASSUME ExchangeInv, NEW x \in Exchanges, NEW n \in 1..MaxRequestBytes, RequestFrame(x, n)
  PROVE  ExchangeInv'
<1>. DEFINE acc == Observe(capture[x].request_body, n)
            cap == [capture[x] EXCEPT !.request_body = acc]
            up == [upload[x] EXCEPT !.sent = upload[x].sent + n]
<1>1. upload[x].open /\ n \in 1..(upload[x].total - upload[x].sent)
  BY DEF RequestFrame
<1>2. Becomes(x, stage[x], cap, up, body[x], reply[x], events[x])
  BY Known, Unchanged DEF RequestFrame, Becomes, ExchangeTypeOK
<1>3. n \in Nat /\ upload[x].sent \in Nat /\ upload[x].sent + n \in 0..MaxRequestBytes
  BY <1>1, Known, ExchangeAssumption DEF Uploads
<1>4. up \in Uploads /\ up.sent = upload[x].sent + n /\ up.open = upload[x].open
  BY <1>3, Known DEF Uploads
<1>5. /\ capture[x].request_body \in Accumulators /\ Exact(capture[x].request_body)
      /\ capture[x].request_body.hashed = upload[x].sent
  BY Known DEF Captures, Good, Counted
<1>6. acc \in Accumulators /\ Exact(acc) /\ acc.hashed = upload[x].sent + n
  BY <1>3, <1>5, ObserveExact
<1>. HIDE DEF acc
<1>7. /\ cap \in Captures /\ cap.request_body = acc
      /\ cap.response_body = capture[x].response_body
      /\ cap.status_code = capture[x].status_code
      /\ cap.proxy_result = capture[x].proxy_result
      /\ cap.error = capture[x].error /\ cap.finalized = capture[x].finalized
  BY <1>6, Known DEF Captures
<1>. HIDE DEF cap, up
<1>8. Counted(cap, up, body[x])
  BY <1>4, <1>6, <1>7, Known DEF Good, Counted
<1>9. Logged(cap, up, body[x], reply[x], events[x])
  BY <1>1, <1>4, <1>7, Known DEF Good, Logged, TruthfulEvent
<1>10. /\ FinalizedAt(stage[x], cap, body[x])
       /\ NoOutcome(stage[x], cap, up, body[x], reply[x])
       /\ UnderWay(stage[x], cap, body[x], reply[x])
  BY <1>1, <1>7, Known DEF Good, FinalizedAt, NoOutcome, UnderWay
<1>. QED
  BY <1>2, <1>4, <1>7, <1>8, <1>9, <1>10, Known, BecomesGood DEF Good, Typed

(* A body that can be polled was not finalized, and the response is on its    *)
(* way.                                                                       *)
LEMMA PollableFacts ==
  ASSUME ExchangeInv, NEW x \in Exchanges, stage[x] = "body", ~ body[x].finalized
  PROVE  /\ ~ capture[x].finalized /\ events[x] = << >>
         /\ capture[x].proxy_result = "success" /\ capture[x].error = "none"
         /\ capture[x].status_code = 200 /\ reply[x] = 200
         /\ Counted(capture[x], upload[x], body[x])
BY Known DEF Good, FinalizedAt, Logged, UnderWay

(* poll_frame: a frame goes by.                                               *)
LEMMA PollFrameGood ==
  ASSUME ExchangeInv, NEW x \in Exchanges, NEW n \in 1..MaxResponseBytes, PollFrame(x, n)
  PROVE  ExchangeInv'
<1>1. /\ stage[x] = "body" /\ ~ body[x].finalized
      /\ n \in 1..(body[x].total - body[x].sent)
  BY DEF PollFrame, Pollable
<1>2. /\ body[x].sent \in Nat /\ body[x].total \in Nat /\ body[x].total <= MaxResponseBytes
      /\ n \in Nat /\ body[x].sent + n \in 0..MaxResponseBytes
  BY <1>1, Known, ExchangeAssumption DEF Bodies
<1>. DEFINE acc == Observe(capture[x].response_body, n)
            cap == [capture[x] EXCEPT !.response_body = acc]
<1>3. [body[x] EXCEPT !.sent = @ + n].sized = body[x].sized
      /\ [body[x] EXCEPT !.sent = @ + n].sent = body[x].sent + n
      /\ [body[x] EXCEPT !.sent = @ + n].total = body[x].total
  BY Known DEF Bodies
<1>4. PICK end \in BOOLEAN : end = IsEndStream([body[x] EXCEPT !.sent = @ + n])
  BY DEF IsEndStream
<1>5. end => body[x].sent + n = body[x].total
  BY <1>3, <1>4 DEF IsEndStream
<1>. DEFINE bo == [body[x] EXCEPT !.sent = body[x].sent + n, !.completed = end]
<1>6. Becomes(x, stage[x], cap, upload[x], bo, reply[x], events[x])
  <2>1. body' = [body EXCEPT ![x] = bo]
    BY <1>4, Zenon DEF PollFrame
  <2>2. capture' = [capture EXCEPT ![x] = cap]
    BY DEF PollFrame
  <2>. QED
    BY <2>1, <2>2, Known, Unchanged DEF PollFrame, Becomes
<1>7. /\ bo \in Bodies /\ bo.sent = body[x].sent + n /\ bo.total = body[x].total
      /\ bo.completed = end /\ bo.finalized = body[x].finalized
  BY <1>2, Known DEF Bodies
<1>8. acc \in Accumulators /\ Exact(acc) /\ acc.hashed = body[x].sent + n
  <2>1. /\ capture[x].response_body \in Accumulators /\ Exact(capture[x].response_body)
        /\ capture[x].response_body.hashed = body[x].sent
    BY Known DEF Captures, Good, Counted
  <2>. QED
    BY <1>2, <2>1, ObserveExact
<1>. HIDE DEF acc, bo
<1>9. /\ cap \in Captures /\ cap.response_body = acc
      /\ cap.request_body = capture[x].request_body
      /\ cap.status_code = capture[x].status_code
      /\ cap.proxy_result = capture[x].proxy_result
      /\ cap.error = capture[x].error /\ cap.finalized = capture[x].finalized
  BY <1>8, Known DEF Captures
<1>. HIDE DEF cap
<1>10. Counted(cap, upload[x], bo)
  BY <1>7, <1>8, <1>9, Known DEF Good, Counted
<1>11. /\ Logged(cap, upload[x], bo, reply[x], events[x])
       /\ FinalizedAt(stage[x], cap, bo)
  BY <1>1, <1>7, <1>9, PollableFacts DEF Logged, FinalizedAt, Waits
<1>12. /\ NoOutcome(stage[x], cap, upload[x], bo, reply[x])
       /\ UnderWay(stage[x], cap, bo, reply[x])
  BY <1>1, <1>5, <1>7, <1>9, PollableFacts DEF NoOutcome, UnderWay, Waits
<1>. QED
  BY <1>6, <1>7, <1>9, <1>10, <1>11, <1>12, Known, BecomesGood DEF Good, Typed

(* A capture on its way is finalized: its event is sent, and the body and the  *)
(* stage are what poll_frame or Drop leave.                                    *)
LEMMA SendGood ==
  ASSUME ExchangeInv, NEW x \in Exchanges, stage[x] = "body", ~ body[x].finalized,
         NEW st \in {"body", "answered"}, NEW cap \in Captures, NEW bo \in Bodies,
         cap.request_body = capture[x].request_body,
         cap.response_body = capture[x].response_body,
         cap.finalized = capture[x].finalized,
         cap.status_code = 200,
         \/ cap.proxy_result = "success" /\ cap.error = "none" /\ bo.sent = bo.total
         \/ cap.proxy_result = "stream_error" /\ cap.error # "none",
         bo.sent = body[x].sent, bo.finalized, bo.completed => bo.sent = bo.total,
         FinalizeAndSend(x, cap), stage' = [stage EXCEPT ![x] = st],
         body' = [body EXCEPT ![x] = bo], UNCHANGED <<upload, reply>>
  PROVE  ExchangeInv'
<1>. DEFINE marked == [cap EXCEPT !.finalized = TRUE]
<1>1. ~ cap.finalized /\ events[x] = << >> /\ reply[x] = 200
  BY PollableFacts
<1>2. Counted(cap, upload[x], bo)
  BY PollableFacts DEF Counted
<1>3. /\ capture' = [capture EXCEPT ![x] = marked]
      /\ events' = [events EXCEPT ![x] = <<BuildEvent(cap)>>]
  BY <1>1, Known, FinalizeEffect
<1>4. Becomes(x, st, marked, upload[x], bo, reply[x], <<BuildEvent(cap)>>)
  BY <1>3, Known, Unchanged DEF Becomes
<1>5. /\ marked \in Captures
      /\ Counted(marked, upload[x], bo)
      /\ Logged(marked, upload[x], bo, reply[x], <<BuildEvent(cap)>>)
      /\ <<BuildEvent(cap)>> \in Seq(ProxyEvents)
  <2>1. /\ cap.status_code \in {0, reply[x]}
        /\ cap.proxy_result # "inflight" /\ cap.proxy_result # "client_rejected"
        /\ cap.error = "none" <=> cap.proxy_result = "success"
        /\ cap.proxy_result = "success" => bo.sent = bo.total
    BY <1>1
  <2>. QED
    BY <1>2, <2>1, Known, SendsTruth
<1>6. marked.finalized
  BY MarkFacts
<1>. HIDE DEF marked
<1>7. Good(st, marked, upload[x], bo, reply[x], <<BuildEvent(cap)>>)
  BY <1>5, <1>6, Known DEF Good, Typed, FinalizedAt, NoOutcome, UnderWay, Stages, Waits
<1>. QED
  BY <1>4, <1>7, BecomesGood

(* poll_frame sees the end of the stream.                                     *)
LEMMA PollEndGood ==
  ASSUME ExchangeInv, NEW x \in Exchanges, PollEnd(x) PROVE ExchangeInv'
<1>. DEFINE bo == [body[x] EXCEPT !.completed = TRUE, !.finalized = TRUE]
<1>1. /\ stage[x] = "body" /\ ~ body[x].finalized /\ body[x].sent = body[x].total
      /\ FinalizeAndSend(x, capture[x])
      /\ UNCHANGED <<stage, upload, reply>>
  BY DEF PollEnd, Pollable
<1>2. body' = [body EXCEPT ![x] = bo] /\ stage' = [stage EXCEPT ![x] = "body"]
  BY <1>1, Known, Unchanged DEF PollEnd
<1>3. bo \in Bodies /\ bo.sent = body[x].sent /\ bo.total = body[x].total /\ bo.finalized
  BY Known DEF Bodies
<1>4. /\ capture[x] \in Captures /\ capture[x].proxy_result = "success"
      /\ capture[x].error = "none" /\ capture[x].status_code = 200
  BY <1>1, Known, PollableFacts
<1>. HIDE DEF bo
<1>5. bo.sent = bo.total
  BY <1>1, <1>3
<1>. QED
  BY <1>1, <1>2, <1>3, <1>4, <1>5, SendGood

(* finalize_with_body_error sets the outcome and the error, nothing else.     *)
LEMMA BodyErrorSets ==
  ASSUME NEW c \in Captures, NEW kind \in ErrorKinds
  PROVE  LET cap == [c EXCEPT !.proxy_result = "stream_error", !.error = kind]
         IN  /\ cap \in Captures
             /\ cap.request_body = c.request_body
             /\ cap.response_body = c.response_body
             /\ cap.finalized = c.finalized
             /\ cap.status_code = c.status_code
             /\ cap.proxy_result = "stream_error" /\ cap.error = kind
BY DEF Captures, Results

(* ObservedBody.finalized is set once the capture is.                         *)
LEMMA BodyMarkFacts ==
  ASSUME NEW b \in Bodies
  PROVE  LET bo == [b EXCEPT !.finalized = TRUE]
         IN  /\ bo \in Bodies /\ bo.finalized
             /\ bo.sent = b.sent /\ bo.total = b.total /\ bo.completed = b.completed
BY DEF Bodies

(* The capture a body error makes of one that is on its way.                  *)
LEMMA BodyErrorFacts ==
  ASSUME ExchangeInv, NEW x \in Exchanges, stage[x] = "body", ~ body[x].finalized,
         NEW kind \in {"upstream_protocol", "client_protocol"},
         FinalizeWithBodyErrorAndSend(x, kind)
  PROVE  \E cap \in Captures :
           /\ FinalizeAndSend(x, cap)
           /\ cap.request_body = capture[x].request_body
           /\ cap.response_body = capture[x].response_body
           /\ cap.finalized = capture[x].finalized
           /\ cap.status_code = 200
           /\ cap.proxy_result = "stream_error" /\ cap.error # "none"
<1>. DEFINE cap == [capture[x] EXCEPT !.proxy_result = "stream_error", !.error = kind]
<1>1. capture[x].error = "none" /\ capture[x].status_code = 200
  BY PollableFacts
<1>2. FinalizeAndSend(x, cap)
  BY <1>1 DEF FinalizeWithBodyErrorAndSend
<1>3. /\ cap \in Captures
      /\ cap.request_body = capture[x].request_body
      /\ cap.response_body = capture[x].response_body
      /\ cap.finalized = capture[x].finalized
      /\ cap.status_code = 200
      /\ cap.proxy_result = "stream_error" /\ cap.error # "none"
  <2>1. capture[x] \in Captures /\ kind \in ErrorKinds /\ kind # "none"
    BY Known DEF ErrorKinds
  <2>2. /\ cap \in Captures
        /\ cap.request_body = capture[x].request_body
        /\ cap.response_body = capture[x].response_body
        /\ cap.finalized = capture[x].finalized
        /\ cap.status_code = capture[x].status_code
        /\ cap.proxy_result = "stream_error" /\ cap.error = kind
    BY <2>1, BodyErrorSets, Zenon
  <2>. HIDE DEF cap
  <2>. QED
    BY <1>1, <2>1, <2>2
<1>. HIDE DEF cap
<1>. QED
  BY <1>2, <1>3

(* poll_frame sees an error of the backend.                                   *)
LEMMA PollErrorGood ==
  ASSUME ExchangeInv, NEW x \in Exchanges, PollError(x) PROVE ExchangeInv'
<1>. DEFINE bo == [body[x] EXCEPT !.finalized = TRUE]
<1>1. /\ stage[x] = "body" /\ ~ body[x].finalized
      /\ FinalizeWithBodyErrorAndSend(x, "upstream_protocol")
      /\ UNCHANGED <<stage, upload, reply>>
  BY DEF PollError, Pollable
<1>2. body' = [body EXCEPT ![x] = bo] /\ stage' = [stage EXCEPT ![x] = "body"]
  BY <1>1, Known, Unchanged DEF PollError
<1>3. /\ bo \in Bodies /\ bo.sent = body[x].sent /\ bo.finalized
      /\ bo.completed => bo.sent = bo.total
  <2>1. body[x] \in Bodies
    BY Known
  <2>2. body[x].completed => body[x].sent = body[x].total
    BY Known DEF Good, UnderWay
  <2>. QED
    BY <2>1, <2>2, BodyMarkFacts
<1>4. PICK cap \in Captures :
        /\ FinalizeAndSend(x, cap)
        /\ cap.request_body = capture[x].request_body
        /\ cap.response_body = capture[x].response_body
        /\ cap.finalized = capture[x].finalized
        /\ cap.status_code = 200
        /\ cap.proxy_result = "stream_error" /\ cap.error # "none"
  BY <1>1, BodyErrorFacts
<1>. HIDE DEF bo
<1>. QED
  BY <1>1, <1>2, <1>3, <1>4, SendGood

(* Drop for ObservedBody: nothing, the event of a complete response, or that   *)
(* of a response the client did not wait for.                                 *)
LEMMA DropBodyGood ==
  ASSUME ExchangeInv, NEW x \in Exchanges, DropBody(x) PROVE ExchangeInv'
<1>. DEFINE bo == [body[x] EXCEPT !.finalized = TRUE]
<1>1. /\ stage[x] = "body" /\ stage' = [stage EXCEPT ![x] = "answered"]
      /\ body' = [body EXCEPT ![x] = bo] /\ UNCHANGED <<upload, reply>>
  BY DEF DropBody
<1>2. /\ bo \in Bodies /\ bo.sent = body[x].sent /\ bo.finalized
      /\ bo.total = body[x].total /\ bo.completed = body[x].completed
      /\ bo.completed => bo.sent = bo.total
  <2>1. body[x] \in Bodies
    BY Known
  <2>2. body[x].completed => body[x].sent = body[x].total
    BY Known DEF Good, UnderWay
  <2>. QED
    BY <2>1, <2>2, BodyMarkFacts
<1>. HIDE DEF bo
<1>3. CASE body[x].finalized /\ UNCHANGED <<capture, events>>
  <2>1. Becomes(x, "answered", capture[x], upload[x], bo, reply[x], events[x])
    BY <1>1, <1>3, Known, Unchanged DEF Becomes
  <2>2. /\ Counted(capture[x], upload[x], bo)
        /\ Logged(capture[x], upload[x], bo, reply[x], events[x])
    BY <1>2, Known DEF Good, Counted, Logged, TruthfulEvent
  <2>3. capture[x].finalized
    BY <1>1, <1>3, Known DEF Good, FinalizedAt
  <2>4. Good("answered", capture[x], upload[x], bo, reply[x], events[x])
    BY <1>2, <2>2, <2>3, Known DEF Good, Typed, FinalizedAt, NoOutcome, UnderWay, Stages,
                                   Waits
  <2>. QED
    BY <2>1, <2>4, BecomesGood
<1>4. CASE /\ ~ body[x].finalized /\ body[x].completed
           /\ FinalizeAndSend(x, capture[x])
  BY <1>1, <1>2, <1>4, Known, PollableFacts, SendGood
<1>5. CASE /\ ~ body[x].finalized /\ ~ body[x].completed
           /\ FinalizeWithBodyErrorAndSend(x, "client_protocol")
  <2>1. PICK cap \in Captures :
          /\ FinalizeAndSend(x, cap)
          /\ cap.request_body = capture[x].request_body
          /\ cap.response_body = capture[x].response_body
          /\ cap.finalized = capture[x].finalized
          /\ cap.status_code = 200
          /\ cap.proxy_result = "stream_error" /\ cap.error # "none"
    BY <1>1, <1>5, BodyErrorFacts
  <2>. QED
    BY <1>1, <1>2, <1>5, <2>1, SendGood
<1>. QED
  BY <1>3, <1>4, <1>5 DEF DropBody

-----------------------------------------------------------------------------
(* The theorems.                                                             *)

(* SharedExchangeCapture::new: nothing has happened yet.                      *)
LEMMA InitExchangeInv == ExchangeInit => ExchangeInv
<1>. SUFFICES ASSUME ExchangeInit PROVE ExchangeInv
  OBVIOUS
<1>1. NewCapture \in Captures /\ NoUpload \in Uploads /\ NoBody \in Bodies
  BY NewAccumulatorExact, ExchangeAssumption
     DEF NewCapture, Captures, NoUpload, Uploads, NoBody, Bodies, Statuses, Results,
         ErrorKinds
<1>2. Good("new", NewCapture, NoUpload, NoBody, 0, << >>)
  <2>1. Typed("new", NewCapture, NoUpload, NoBody, 0, << >>)
    BY <1>1 DEF Typed, Stages, Statuses
  <2>2. Counted(NewCapture, NoUpload, NoBody)
    BY NewAccumulatorExact DEF Counted, NewCapture, NoUpload, NoBody
  <2>3. /\ Logged(NewCapture, NoUpload, NoBody, 0, << >>)
        /\ FinalizedAt("new", NewCapture, NoBody)
        /\ NoOutcome("new", NewCapture, NoUpload, NoBody, 0)
        /\ UnderWay("new", NewCapture, NoBody, 0)
    BY DEF Logged, FinalizedAt, NoOutcome, UnderWay, NewCapture, NoUpload, NoBody, Waits
  <2>. QED
    BY <2>1, <2>2, <2>3 DEF Good
<1>3. ExchangeTypeOK
  BY <1>1 DEF ExchangeInit, ExchangeTypeOK, Stages, Statuses
<1>4. ASSUME NEW x \in Exchanges PROVE GoodAt(x)
  BY <1>2 DEF ExchangeInit, GoodAt
<1>. QED
  BY <1>3, <1>4 DEF ExchangeInv

(* Every step of an exchange keeps the invariant.                             *)
LEMMA StepExchangeInv ==
  ASSUME ExchangeInv, NEW x \in Exchanges, ExchangeStep(x) PROVE ExchangeInv'
<1>1. CASE Arrive(x)
  BY <1>1, RejectGood, ForwardGood DEF Arrive
<1>2. CASE Proceed(x)
  <2>1. CASE \E n \in 1..MaxRequestBytes : RequestFrame(x, n)
    BY <2>1, RequestFrameGood
  <2>2. CASE \/ UpstreamError(x) \/ UpstreamTimeout(x) \/ TransformError(x)
             \/ CollectError(x) \/ BufferedTransformError(x)
    BY <2>2, UpstreamFailureGood
  <2>3. ASSUME NEW n \in 0..MaxResponseBytes, NEW sized \in BOOLEAN,
               StreamResponse(x, n, sized)
        PROVE  ExchangeInv'
    BY <2>3, RespondGood DEF StreamResponse
  <2>4. ASSUME NEW n \in 0..MaxResponseBytes, BufferedResponse(x, n)
        PROVE  ExchangeInv'
    BY <2>4, RespondGood DEF BufferedResponse
  <2>5. CASE BufferResponse(x) \/ ClientGone(x)
    BY <2>5, BufferResponseGood, ClientGoneGood
  <2>6. CASE \E n \in 1..MaxResponseBytes : PollFrame(x, n)
    BY <2>6, PollFrameGood
  <2>7. CASE PollError(x) \/ PollEnd(x) \/ DropBody(x)
    BY <2>7, PollErrorGood, PollEndGood, DropBodyGood
  <2>. QED
    BY <1>2, <2>1, <2>2, <2>3, <2>4, <2>5, <2>6, <2>7 DEF Proceed
<1>. QED
  BY <1>1, <1>2 DEF ExchangeStep

(* So does a step in which no exchange takes part.                            *)
LEMMA StutterExchangeInv == ASSUME ExchangeInv, UNCHANGED xvars PROVE ExchangeInv'
BY DEF ExchangeInv, xvars, GoodAt, ExchangeTypeOK

(* The invariant holds for any number of concurrent exchanges.                *)
THEOREM ExchangeInvariant == ExchangeSpec => []ExchangeInv
<1>1. ExchangeInv /\ [ExchangeNext]_xvars => ExchangeInv'
  BY StepExchangeInv, StutterExchangeInv DEF ExchangeNext
<1>. QED
  BY InitExchangeInv, <1>1, PTL DEF ExchangeSpec

(* The state of handle() and of the observed bodies stays well typed: an event *)
(* has the columns that proxy_events expects.                                 *)
THEOREM ExchangeTypeCorrect == ExchangeSpec => []ExchangeTypeOK
<1>1. ExchangeInv => ExchangeTypeOK
  BY DEF ExchangeInv
<1>. QED
  BY <1>1, ExchangeInvariant, PTL

(* BodyAccumulator: preview and truncation flag are exact after any frames.   *)
THEOREM AccumulatorsExactHolds == ExchangeSpec => []AccumulatorsExact
<1>1. ExchangeInv => AccumulatorsExact
  BY DEF ExchangeInv, GoodAt, Good, Counted, AccumulatorsExact
<1>. QED
  BY <1>1, ExchangeInvariant, PTL

(* handle(), poll_frame and Drop: whichever finalizes an exchange, it sends    *)
(* one event, and every answered exchange is finalized.                       *)
THEOREM OneEventHolds == ExchangeSpec => []OneEventPerExchange
<1>1. ExchangeInv => OneEventPerExchange
  <2>. SUFFICES ASSUME ExchangeInv, NEW x \in Exchanges
                PROVE  /\ Len(events[x]) = IF capture[x].finalized THEN 1 ELSE 0
                       /\ FinalizedAt(stage[x], capture[x], body[x])
    BY DEF OneEventPerExchange, FinalizedAt, Waits
  <2>1. CASE capture[x].finalized
    <3>1. PICK e \in ProxyEvents : events[x] = <<e>>
      BY <2>1, Known DEF Good, Logged
    <3>. QED
      BY <2>1, <3>1, Known DEF Good
  <2>2. CASE ~ capture[x].finalized
    BY <2>2, Known DEF Good, Logged
  <2>. QED
    BY <2>1, <2>2
<1>. QED
  BY <1>1, ExchangeInvariant, PTL

(* build_event: what is stored says what the client and the backend saw.      *)
THEOREM EventTruthfulHolds == ExchangeSpec => []EventTruthful
<1>1. ExchangeInv => EventTruthful
  <2>. SUFFICES ASSUME ExchangeInv, NEW x \in Exchanges, events[x] # << >>
                PROVE  TruthfulEvent(Head(events[x]), upload[x], body[x], reply[x])
    BY DEF EventTruthful, TruthfulEvent
  <2>1. PICK e \in ProxyEvents : /\ events[x] = <<e>>
                                 /\ TruthfulEvent(e, upload[x], body[x], reply[x])
    BY Known DEF Good, Logged
  <2>2. Head(events[x]) = e
    BY <2>1
  <2>. QED
    BY <2>1, <2>2
<1>. QED
  BY <1>1, ExchangeInvariant, PTL
=============================================================================

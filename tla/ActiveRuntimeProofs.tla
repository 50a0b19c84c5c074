------------------------ MODULE ActiveRuntimeProofs ------------------------
(* Proofs, for any number of exchanges and any sizes, that the composition of *)
(* exchanges, server task, owner and writer keeps the safety properties of    *)
(* ActiveRuntime. The writer's own theorems are used, not repeated.           *)
EXTENDS ActiveRuntime, ExchangeProofs, FiniteSetTheorems

WP == INSTANCE SqliteWriterProofs WITH Events <- Exchanges, Callers <- {Owner}

-----------------------------------------------------------------------------
(* The writer's theorems, for the writer of this runtime.                    *)

(* The constants of the runtime are fit for its writer.                       *)
LEMMA WriterAssumed == WP!WriterAssumption
BY RuntimeAssumption DEF WP!WriterAssumption

(* The module and its proofs speak of the same writer.                        *)
LEMMA SameState ==
  /\ WP!TypeOK <=> W!TypeOK
  /\ WP!WriterInv <=> W!WriterInv
  /\ WP!CallerInv <=> W!CallerInv
<1>. USE DEF WP!Messages, W!Messages, WP!WriterStates, W!WriterStates, WP!CallerStates,
             W!CallerStates, WP!Queued, W!Queued, WP!Accepted, W!Accepted, WP!Lost, W!Lost,
             WP!TooLate, W!TooLate
<1>1. WP!TypeOK <=> W!TypeOK
  BY DEF WP!TypeOK, W!TypeOK
<1>2. WP!CallerInv <=> W!CallerInv
  BY DEF WP!CallerInv, W!CallerInv
<1>3. /\ WP!Conservation <=> W!Conservation
      /\ WP!StoredInOrder <=> W!StoredInOrder
      /\ WP!LossIsLateOrCounted <=> W!LossIsLateOrCounted
  BY DEF WP!Conservation, W!Conservation, WP!StoredInOrder, W!StoredInOrder,
         WP!LossIsLateOrCounted, W!LossIsLateOrCounted
<1>4. /\ WP!MarkedOnce <=> W!MarkedOnce
      /\ WP!BufferInOrder <=> W!BufferInOrder
      /\ WP!QueueInOrder <=> W!QueueInOrder
      /\ WP!LateQueue <=> W!LateQueue
      /\ WP!FailedBuffer <=> W!FailedBuffer
  BY DEF WP!MarkedOnce, W!MarkedOnce, WP!BufferInOrder, W!BufferInOrder, WP!QueueInOrder,
         W!QueueInOrder, WP!LateQueue, W!LateQueue, WP!FailedBuffer, W!FailedBuffer
<1>. QED
  BY <1>1, <1>2, <1>3, <1>4 DEF WP!WriterInv, W!WriterInv

(* And of the same steps.                                                     *)
LEMMA SameSteps ==
  /\ WP!Init <=> W!Init
  /\ [WP!Next]_(WP!vars) <=> [W!Next]_(W!vars)
<1>. USE DEF WP!chan, W!chan, WP!task, W!task, WP!db, W!db, WP!history, W!history,
             WP!HasPermit, W!HasPermit, WP!AfterFlush, W!AfterFlush,
             WP!Insertable, W!Insertable, WP!Cardinality, W!Cardinality
<1>1. WP!Init <=> W!Init
  BY DEF WP!Init, W!Init
<1>2. ASSUME NEW e \in Exchanges PROVE WP!Offer(e) <=> W!Offer(e)
  BY DEF WP!Offer, W!Offer, WP!TrySend, W!TrySend
<1>3. ASSUME NEW c \in {Owner}
      PROVE  (WP!Shutdown(c) \/ WP!SendShutdown(c)) <=> (W!Shutdown(c) \/ W!SendShutdown(c))
  BY DEF WP!Shutdown, W!Shutdown, WP!SendShutdown, W!SendShutdown
<1>4. WP!DropHandles <=> W!DropHandles
  BY DEF WP!DropHandles, W!DropHandles
<1>5. WP!Recv <=> W!Recv
  BY DEF WP!Recv, W!Recv, WP!RecvEvent, W!RecvEvent, WP!RecvShutdown, W!RecvShutdown,
         WP!RecvNone, W!RecvNone
<1>6. (WP!Tick \/ WP!Flush) <=> (W!Tick \/ W!Flush)
  BY DEF WP!Tick, W!Tick, WP!Flush, W!Flush, WP!FlushOk, W!FlushOk, WP!FlushFail, W!FlushFail
<1>7. (WP!DrainRecv \/ WP!DrainEnd) <=> (W!DrainRecv \/ W!DrainEnd)
  BY DEF WP!DrainRecv, W!DrainRecv, WP!DrainEnd, W!DrainEnd
<1>8. (WP!Acknowledge \/ WP!Close) <=> (W!Acknowledge \/ W!Close)
  BY DEF WP!Acknowledge, W!Acknowledge, WP!Close, W!Close
<1>9. WP!WriterStep <=> W!WriterStep
  BY <1>5, <1>6, <1>7, <1>8, Zenon DEF WP!WriterStep, W!WriterStep
<1>10. WP!Next <=> W!Next
  BY <1>2, <1>3, <1>4, <1>9, Zenon DEF WP!Next, W!Next
<1>11. WP!vars = W!vars /\ WP!vars' = W!vars'
  BY DEF WP!vars, W!vars
<1>. QED
  BY <1>1, <1>10, <1>11

(* Its invariants are kept by its steps.                                      *)
LEMMA WriterKeepsInv ==
  W!WriterInv /\ W!CallerInv /\ [W!Next]_(W!vars) => W!WriterInv' /\ W!CallerInv'
<1>. SUFFICES ASSUME W!WriterInv, W!CallerInv, [W!Next]_(W!vars)
              PROVE  W!WriterInv' /\ W!CallerInv'
  OBVIOUS
<1>1. WP!WriterInv /\ WP!CallerInv /\ [WP!Next]_(WP!vars)
  BY SameState, SameSteps
<1>2. WP!WriterInv'
  BY <1>1, WP!NextWriterInv, WriterAssumed
<1>3. WP!TypeOK
  BY <1>1 DEF WP!WriterInv
<1>4. WP!CallerInv'
  BY <1>1, <1>3, WP!NextCallerInv, WriterAssumed
<1>5. /\ (WP!WriterInv <=> W!WriterInv)'
      /\ (WP!CallerInv <=> W!CallerInv)'
  BY SameState, PTL
<1>. QED
  BY <1>2, <1>4, <1>5

-----------------------------------------------------------------------------
(* What a step of an exchange can do to the others, and to the writer.       *)

\* Handlers that are over do nothing more.
Past == {"answered", "gone"}

(* finalize_and_send adds an event to its own exchange, or none.              *)
LEMMA FinalizeShape ==
  ASSUME NEW x \in Exchanges, NEW cap, FinalizeAndSend(x, cap)
  PROVE  \/ events' = events
         \/ \E e : events' = [events EXCEPT ![x] = Append(@, e)]
BY DEF FinalizeAndSend

(* An early return of handle() moves its exchange to its end.                 *)
LEMMA AnswerShape ==
  ASSUME NEW x \in Exchanges, NEW cap, NEW status, Answer(x, cap, status)
  PROVE  /\ \E st : stage' = [stage EXCEPT ![x] = st]
         /\ \/ events' = events
            \/ \E e : events' = [events EXCEPT ![x] = Append(@, e)]
BY FinalizeShape DEF Answer

(* A step of x moves x alone, adds at most one event, and there is none once   *)
(* x is over.                                                                 *)
LEMMA StepShape ==
  ASSUME ExchangeTypeOK, NEW x \in Exchanges, ExchangeStep(x)
  PROVE  /\ \/ stage' = stage
            \/ stage[x] \notin Past /\ \E st : stage' = [stage EXCEPT ![x] = st]
         /\ \/ events' = events
            \/ stage[x] \notin Past /\ \E e : events' = [events EXCEPT ![x] = Append(@, e)]
<1>. USE DEF Past
<1>1. CASE Arrive(x)
  <2>1. CASE RejectHost(x) \/ RejectUri(x)
    <3>1. CASE RejectHost(x)
      BY <3>1, AnswerShape DEF RejectHost
    <3>2. CASE RejectUri(x)
      BY <3>2, AnswerShape DEF RejectUri
    <3>. QED
      BY <2>1, <3>1, <3>2
  <2>2. CASE \E n \in 0..MaxRequestBytes : Forward(x, n)
    BY <2>2 DEF Forward
  <2>. QED
    BY <1>1, <2>1, <2>2 DEF Arrive
<1>2. CASE Proceed(x)
  <2>1. CASE \E n \in 1..MaxRequestBytes : RequestFrame(x, n)
    BY <2>1 DEF RequestFrame
  <2>2. CASE \/ UpstreamError(x) \/ UpstreamTimeout(x) \/ TransformError(x)
             \/ CollectError(x) \/ BufferedTransformError(x)
    <3>1. stage[x] \notin Past /\ \E cap, status : Answer(x, cap, status)
      BY <2>2 DEF UpstreamError, UpstreamTimeout, TransformError, CollectError,
                  BufferedTransformError
    <3>. QED
      BY <3>1, AnswerShape
  <2>3. CASE \E n \in 0..MaxResponseBytes :
               \/ \E sized \in BOOLEAN : StreamResponse(x, n, sized)
               \/ BufferedResponse(x, n)
    BY <2>3 DEF StreamResponse, BufferedResponse, Respond
  <2>4. CASE BufferResponse(x) \/ ClientGone(x)
    BY <2>4 DEF BufferResponse, ClientGone
  <2>5. CASE \E n \in 1..MaxResponseBytes : PollFrame(x, n)
    BY <2>5 DEF PollFrame
  <2>6. CASE PollError(x) \/ PollEnd(x)
    BY <2>6, FinalizeShape DEF PollError, PollEnd, Pollable, FinalizeWithBodyErrorAndSend
  <2>7. CASE DropBody(x)
    BY <2>7, FinalizeShape DEF DropBody, FinalizeWithBodyErrorAndSend
  <2>. QED
    BY <1>2, <2>1, <2>2, <2>3, <2>4, <2>5, <2>6, <2>7 DEF Proceed
<1>. QED
  BY <1>1, <1>2 DEF ExchangeStep

(* The event of an exchange is its first.                                     *)
LEMMA SendShape ==
  ASSUME ExchangeInv, NEW x \in Exchanges, ExchangeStep(x), events'[x] # events[x]
  PROVE  stage[x] \notin Past /\ events[x] = << >> /\ events'[x] # << >>
<1>1. ExchangeTypeOK /\ ExchangeInv'
  BY StepExchangeInv DEF ExchangeInv
<1>2. events[x] \in Seq(ProxyEvents) /\ events'[x] \in Seq(ProxyEvents)
  BY <1>1 DEF ExchangeInv, ExchangeTypeOK
<1>3. PICK e : stage[x] \notin Past /\ events' = [events EXCEPT ![x] = Append(@, e)]
  BY <1>1, StepShape
<1>4. events'[x] = Append(events[x], e)
  BY <1>1, <1>3 DEF ExchangeTypeOK
<1>5. Len(events'[x]) = 0 \/ Len(events'[x]) = 1
  <2>1. Logged(capture'[x], upload'[x], body'[x], reply'[x], events'[x])
    BY <1>1 DEF ExchangeInv, GoodAt, Good
  <2>2. events'[x] = << >> \/ \E d \in ProxyEvents : events'[x] = <<d>>
    BY <2>1 DEF Logged
  <2>3. ASSUME NEW d \in ProxyEvents, events'[x] = <<d>> PROVE Len(events'[x]) = 1
    BY <2>3
  <2>4. ASSUME events'[x] = << >> PROVE Len(events'[x]) = 0
    BY <2>4
  <2>. QED
    BY <2>2, <2>3, <2>4, Zenon
<1>6. Len(events'[x]) = Len(events[x]) + 1
  BY <1>2, <1>4
<1>7. Len(events[x]) = 0 /\ Len(events'[x]) = 1
  BY <1>2, <1>5, <1>6
<1>. QED
  BY <1>2, <1>3, <1>7

-----------------------------------------------------------------------------
(* The inductive invariant.                                                  *)

\* Whose events are counted as dropped.
Refused == { x \in Exchanges : sent_in[x] = "refused" }

\* The owner has told the writer to stop.
Told == owner \in {"draining", "stopped"}

Offered == \A x \in Exchanges : events[x] = << >> <=> sent_in[x] = "unsent"
RefusedCounted == IsFiniteSet(Refused) /\ dropped_events = Cardinality(Refused)

\* Only the owner makes the writer leave its loop while there are handles ...
ToldOnce == caller[Owner] = "idle" <=> ~ Told
LeavesLoopTold ==
  wstate \in W!TooLate \cup {"drain", "done"} => Told \/ ~ handles
\* ... and its oneshot sender is the one that run() answers last.
DrainsForOwner == wstate = "drain" => Owner \in done
AnsweredLast == caller[Owner] \in {"acked", "dropped"} => wstate \in {"close", "done"}

\* By then no connection is accepted any more, and those that live were noted.
Noted == Told => server \in Over /\ Live \subseteq outlived
LateIsNoted == \A x \in Exchanges : sent_in[x] \in W!TooLate => Told /\ x \in outlived

\* What the owner's calls and the writer's state say of each other ...
StopInv ==
  /\ ToldOnce /\ LeavesLoopTold /\ DrainsForOwner /\ AnsweredLast /\ StoppedMeansFlushed
\* ... and what the events say of the channel.
SentInv == Offered /\ RefusedCounted /\ Noted /\ LateIsNoted

RuntimeInv ==
  /\ TypeOK /\ ExchangeInv /\ W!WriterInv /\ W!CallerInv /\ StopInv /\ SentInv

(* start_active_runtime returned.                                             *)
LEMMA InitRuntimeInv == Init => RuntimeInv
<1>. SUFFICES ASSUME Init PROVE RuntimeInv
  OBVIOUS
<1>1. ExchangeInv /\ ExchangeTypeOK
  BY InitExchangeInv DEF Init, ExchangeInv
<1>2. W!WriterInv /\ W!TypeOK
  <2>1. WP!Init
    BY SameSteps DEF Init
  <2>2. WP!WriterInv
    BY <2>1, WP!InitWriterInv, WriterAssumed
  <2>. QED
    BY <2>2, SameState DEF WP!WriterInv
<1>3. W!CallerInv
  BY DEF Init, W!Init, W!CallerInv
<1>4. TypeOK
  BY <1>1, <1>2 DEF Init, TypeOK, ServerStates, OwnerStates
<1>5. Offered /\ LateIsNoted
  BY DEF Init, ExchangeInit, W!Init, Offered, LateIsNoted, W!TooLate
<1>6. RefusedCounted
  <2>1. Refused = {}
    BY DEF Init, W!Init, Refused
  <2>. QED
    BY <2>1, FS_EmptySet DEF Init, W!Init, RefusedCounted
<1>7. StopInv /\ Noted
  BY DEF Init, W!Init, StopInv, ToldOnce, LeavesLoopTold, DrainsForOwner, AnsweredLast,
         StoppedMeansFlushed, Noted, Told, W!TooLate
<1>. QED
  BY <1>1, <1>2, <1>3, <1>4, <1>5, <1>6, <1>7 DEF RuntimeInv, SentInv
-----------------------------------------------------------------------------
(* Steps that leave both the exchanges and the writer alone.                  *)

(* The typing parts of the invariant follow from those of the components.     *)
LEMMA TypedNext ==
  ASSUME ExchangeInv', W!WriterInv', server' \in ServerStates, stop' \in BOOLEAN,
         owner' \in OwnerStates, connected' \in SUBSET Exchanges,
         outlived' \in SUBSET Exchanges
  PROVE  TypeOK'
BY DEF TypeOK, ExchangeInv, W!WriterInv

(* A writer nobody touches keeps its invariants.                              *)
LEMMA WriterStutters ==
  ASSUME W!WriterInv, W!CallerInv, UNCHANGED wvars PROVE W!WriterInv' /\ W!CallerInv'
<1>1. [W!Next]_(W!vars)
  BY DEF wvars, W!vars
<1>. QED
  BY <1>1, WriterKeepsInv

(* The server task, signals, accepted and closed connections and the owner's  *)
(* other steps: nothing they do makes the writer stop or takes an event.      *)
LEMMA QuietStep ==
  ASSUME RuntimeInv, UNCHANGED <<xvars, wvars, outlived>>,
         server' \in ServerStates, stop' \in BOOLEAN, owner' \in OwnerStates,
         connected' \in SUBSET Exchanges,
         Told' <=> Told,
         Told => server' \in Over /\ connected' \subseteq connected,
         owner' = "stopped" => owner = "stopped" \/ caller[Owner] \in {"acked", "dropped"}
  PROVE  RuntimeInv'
<1>1. ExchangeInv' /\ W!WriterInv' /\ W!CallerInv'
  BY StutterExchangeInv, WriterStutters DEF RuntimeInv
<1>2. TypeOK'
  BY <1>1, TypedNext DEF RuntimeInv, TypeOK
<1>3. StopInv'
  BY DEF RuntimeInv, StopInv, ToldOnce, LeavesLoopTold, DrainsForOwner, AnsweredLast,
         StoppedMeansFlushed, wvars, W!TooLate
<1>4. Offered' /\ RefusedCounted'
  BY DEF RuntimeInv, SentInv, Offered, RefusedCounted, Refused, xvars, wvars
<1>5. Noted'
  BY DEF RuntimeInv, SentInv, Noted, Live, xvars
<1>6. LateIsNoted'
  BY DEF RuntimeInv, SentInv, LateIsNoted, W!TooLate, wvars
<1>. QED
  BY <1>1, <1>2, <1>3, <1>4, <1>5, <1>6 DEF RuntimeInv, SentInv

-----------------------------------------------------------------------------
(* Steps of the writer alone.                                                *)

(* The owner's message is in the channel only while the owner waits for it.   *)
LEMMA HeadIsOwner ==
  ASSUME W!TypeOK, W!CallerInv, queue # << >>, Head(queue) \in {Owner}
  PROVE  caller[Owner] = "waiting" /\ Owner \notin done
<1>1. 1 \in DOMAIN queue /\ queue[1] = Owner
  BY DEF W!TypeOK
<1>. QED
  BY <1>1 DEF W!CallerInv

(* What a step of the writer can do to what the owner sees of it.             *)
LEMMA WriterEffect ==
  ASSUME RuntimeInv, W!SendShutdown(Owner) \/ W!DropHandles \/ W!WriterStep
  PROVE  /\ UNCHANGED <<sent_in, dropped_events>>
         /\ handles' => handles
         /\ caller'[Owner] = "idle" <=> caller[Owner] = "idle"
         /\ wstate' \in {"drain", "final", "ack", "close", "done"} =>
              \/ wstate \in {"drain", "final", "ack", "close", "done"}
              \/ ~ handles \/ caller[Owner] # "idle"
         /\ wstate \in {"close", "done"} => wstate' \in {"close", "done"}
         /\ wstate' = "drain" => Owner \in done'
         /\ caller'[Owner] \in {"acked", "dropped"} => wstate' \in {"close", "done"}
<1>. DEFINE Effect ==
         /\ UNCHANGED <<sent_in, dropped_events>>
         /\ handles' => handles
         /\ caller'[Owner] = "idle" <=> caller[Owner] = "idle"
         /\ wstate' \in {"drain", "final", "ack", "close", "done"} =>
              \/ wstate \in {"drain", "final", "ack", "close", "done"}
              \/ ~ handles \/ caller[Owner] # "idle"
         /\ wstate \in {"close", "done"} => wstate' \in {"close", "done"}
         /\ wstate' = "drain" => Owner \in done'
         /\ caller'[Owner] \in {"acked", "dropped"} => wstate' \in {"close", "done"}
<1>. SUFFICES Effect
  OBVIOUS
<1>1. /\ W!TypeOK /\ W!CallerInv
      /\ wstate = "drain" => Owner \in done
      /\ caller[Owner] \in {"acked", "dropped"} => wstate \in {"close", "done"}
  BY DEF RuntimeInv, W!WriterInv, StopInv, DrainsForOwner, AnsweredLast
<1>2. /\ wstate \in {"select", "flush", "drain", "final", "ack", "close", "done"}
      /\ caller \in [{Owner} -> {"idle", "sending", "waiting", "acked", "dropped"}]
  BY <1>1 DEF W!TypeOK, W!WriterStates, W!CallerStates
<1>. USE DEF W!chan, W!task, W!db, W!history
<1>3. CASE W!SendShutdown(Owner)
  BY <1>1, <1>2, <1>3 DEF W!SendShutdown
<1>4. CASE W!DropHandles
  BY <1>1, <1>2, <1>4 DEF W!DropHandles
<1>5. CASE W!RecvEvent \/ W!RecvNone
  BY <1>1, <1>2, <1>5 DEF W!RecvEvent, W!RecvNone
<1>6. CASE W!RecvShutdown
  <2>1. caller[Owner] = "waiting" /\ Owner \notin done /\ Head(queue) = Owner
    BY <1>1, <1>6, HeadIsOwner DEF W!RecvShutdown
  <2>. QED
    BY <1>1, <1>2, <1>6, <2>1 DEF W!RecvShutdown
<1>7. CASE W!Tick \/ W!DrainEnd
  BY <1>1, <1>2, <1>7 DEF W!Tick, W!DrainEnd
<1>8. CASE W!Flush
  <2>1. /\ wstate \in {"flush", "final"} /\ wstate' = W!AfterFlush
        /\ UNCHANGED <<handles, caller, sent_in, dropped_events, done>>
    BY <1>8 DEF W!Flush, W!FlushOk, W!FlushFail
  <2>2. \/ wstate = "flush" /\ wstate' = "select"
        \/ wstate = "final" /\ wstate' \in {"ack", "close"}
    BY <2>1 DEF W!AfterFlush
  <2>. QED
    BY <1>1, <1>2, <2>1, <2>2
<1>9. CASE W!DrainRecv
  <2>1. Head(queue) \notin {Owner}
    BY <1>1, <1>9, HeadIsOwner DEF W!DrainRecv
  <2>. QED
    BY <1>1, <1>2, <1>9, <2>1 DEF W!DrainRecv
<1>10. CASE W!Acknowledge
  <2>1. Owner \in done => caller[Owner] = "waiting"
    BY <1>1 DEF W!CallerInv
  <2>. QED
    BY <1>1, <1>2, <1>10, <2>1 DEF W!Acknowledge
<1>11. CASE W!Close
  <2>1. (\E i \in DOMAIN queue : queue[i] = Owner) => caller[Owner] = "waiting"
    BY <1>1 DEF W!CallerInv
  <2>. QED
    BY <1>1, <1>2, <1>11, <2>1 DEF W!Close
<1>. QED
  BY <1>3, <1>4, <1>5, <1>6, <1>7, <1>8, <1>9, <1>10, <1>11 DEF W!WriterStep, W!Recv
(* A step of the writer, or of a call of shutdown() under way.                *)
LEMMA WriterMoves ==
  ASSUME RuntimeInv, W!SendShutdown(Owner) \/ W!DropHandles \/ W!WriterStep,
         UNCHANGED <<pvars, xvars>>
  PROVE  RuntimeInv'
<1>1. [W!Next]_(W!vars)
  BY DEF W!Next
<1>2. ExchangeInv' /\ W!WriterInv' /\ W!CallerInv'
  BY <1>1, StutterExchangeInv, WriterKeepsInv DEF RuntimeInv
<1>3. TypeOK'
  BY <1>2, TypedNext DEF RuntimeInv, TypeOK, pvars
<1>4. Told' <=> Told
  BY DEF Told, pvars
<1>5. ToldOnce' /\ LeavesLoopTold'
  BY <1>4, WriterEffect DEF RuntimeInv, StopInv, ToldOnce, LeavesLoopTold, W!TooLate
<1>6. DrainsForOwner' /\ AnsweredLast' /\ StoppedMeansFlushed'
  BY WriterEffect DEF RuntimeInv, StopInv, DrainsForOwner, AnsweredLast,
                      StoppedMeansFlushed, pvars
<1>7. sent_in' = sent_in /\ dropped_events' = dropped_events
  BY WriterEffect
<1>8. Offered' /\ RefusedCounted'
  BY <1>7 DEF RuntimeInv, SentInv, Offered, RefusedCounted, Refused, xvars
<1>9. Noted' /\ LateIsNoted'
  BY <1>4, <1>7 DEF RuntimeInv, SentInv, Noted, LateIsNoted, Live, pvars, xvars, W!TooLate
<1>. QED
  BY <1>2, <1>3, <1>5, <1>6, <1>8, <1>9 DEF RuntimeInv, StopInv, SentInv

-----------------------------------------------------------------------------
(* The owner tells the writer to stop.                                       *)

(* Nobody was told before, so no event was late yet; whoever lives is noted.  *)
LEMMA StopWriterStep ==
  ASSUME RuntimeInv, owner = "stopping", StopWriter, server' \in Over
  PROVE  RuntimeInv'
<1>1. /\ owner' = "draining" /\ outlived' = Live
      /\ caller' = [caller EXCEPT ![Owner] = "sending"]
      /\ UNCHANGED <<queue, handles, wstate, buffer, done, stored, write_failures,
                     dropped_events, accepted, sent_in>>
      /\ UNCHANGED <<stop, connected, xvars>>
  BY DEF StopWriter, W!Shutdown, W!chan, W!task, W!db, W!history
<1>2. [W!Next]_(W!vars)
  BY DEF StopWriter, W!Next
<1>3. ExchangeInv' /\ W!WriterInv' /\ W!CallerInv'
  BY <1>1, <1>2, StutterExchangeInv, WriterKeepsInv DEF RuntimeInv
<1>4. TypeOK'
  <2>1. Live \in SUBSET Exchanges
    BY DEF RuntimeInv, TypeOK, Live
  <2>. QED
    BY <1>1, <1>3, <2>1, TypedNext DEF RuntimeInv, TypeOK, ServerStates, OwnerStates, Over
<1>5. ~ Told /\ Told'
  BY <1>1 DEF Told
<1>6. caller \in [{Owner} -> W!CallerStates] /\ caller'[Owner] = "sending"
  BY <1>1 DEF RuntimeInv, TypeOK, W!TypeOK
<1>7. StopInv'
  BY <1>1, <1>5, <1>6 DEF RuntimeInv, StopInv, ToldOnce, LeavesLoopTold, DrainsForOwner,
                          AnsweredLast, StoppedMeansFlushed, W!TooLate
<1>8. Offered' /\ RefusedCounted'
  BY <1>1 DEF RuntimeInv, SentInv, Offered, RefusedCounted, Refused, xvars
<1>9. Noted'
  BY <1>1 DEF Noted, Live, xvars
<1>10. LateIsNoted'
  BY <1>1, <1>5 DEF RuntimeInv, SentInv, LateIsNoted, W!TooLate
<1>. QED
  BY <1>3, <1>4, <1>7, <1>8, <1>9, <1>10 DEF RuntimeInv, SentInv

-----------------------------------------------------------------------------
(* An exchange is served.                                                    *)

(* Whoever still does something lives, and nobody comes to life.              *)
LEMMA ServeLives ==
  ASSUME RuntimeInv, NEW x \in Exchanges, Serve(x)
  PROVE  /\ Live' \subseteq Live
         /\ stage[x] \notin Past => x \in Live
<1>1. /\ x \in connected /\ connected' = connected
      /\ ExchangeTypeOK /\ ExchangeStep(x)
  BY DEF Serve, pvars, RuntimeInv, ExchangeInv
<1>2. stage[x] \notin Past => x \in Live
  BY <1>1 DEF Live, Past, ExchangeTypeOK, Stages
<1>3. \/ stage' = stage
      \/ stage[x] \notin Past /\ \E st : stage' = [stage EXCEPT ![x] = st]
  BY <1>1, StepShape
<1>4. \A y \in Exchanges : y # x => stage'[y] = stage[y]
  BY <1>1, <1>3 DEF ExchangeTypeOK
<1>5. connected \subseteq Exchanges
  BY DEF RuntimeInv, TypeOK
<1>6. Live' \subseteq Live
  <2>1. CASE stage' = stage
    BY <1>1, <2>1 DEF Live
  <2>2. CASE stage[x] \notin Past
    BY <1>1, <1>2, <1>4, <1>5, <2>2 DEF Live
  <2>. QED
    BY <1>3, <2>1, <2>2
<1>. QED
  BY <1>2, <1>6

(* A step that sends no event.                                                *)
LEMMA ServeSilently ==
  ASSUME RuntimeInv, NEW x \in Exchanges, Serve(x), events'[x] = events[x]
  PROVE  RuntimeInv'
<1>1. ExchangeStep(x) /\ UNCHANGED wvars /\ UNCHANGED pvars
  BY DEF Serve
<1>2. ExchangeInv' /\ W!WriterInv' /\ W!CallerInv'
  BY <1>1, StepExchangeInv, WriterStutters DEF RuntimeInv
<1>3. TypeOK'
  BY <1>1, <1>2, TypedNext DEF RuntimeInv, TypeOK, pvars
<1>4. StopInv'
  BY <1>1 DEF RuntimeInv, StopInv, ToldOnce, LeavesLoopTold, DrainsForOwner, AnsweredLast,
              StoppedMeansFlushed, Told, wvars, pvars, W!TooLate
<1>5. Offered'
  <2>1. \A y \in Exchanges : events'[y] = events[y]
    BY <1>1, StepShape DEF RuntimeInv, ExchangeInv, ExchangeTypeOK
  <2>. QED
    BY <1>1, <2>1 DEF RuntimeInv, SentInv, Offered, wvars
<1>6. RefusedCounted' /\ LateIsNoted'
  BY <1>1 DEF RuntimeInv, SentInv, RefusedCounted, Refused, LateIsNoted, Told, wvars, pvars,
              W!TooLate
<1>7. Noted'
  BY <1>1, ServeLives DEF RuntimeInv, SentInv, Noted, Told, pvars
<1>. QED
  BY <1>2, <1>3, <1>4, <1>5, <1>6, <1>7 DEF RuntimeInv, SentInv

(* A step that sends the event, which the channel takes or which is counted.  *)
LEMMA ServeSends ==
  ASSUME RuntimeInv, NEW x \in Exchanges, Serve(x), events'[x] # events[x]
  PROVE  RuntimeInv'
<1>1. ExchangeStep(x) /\ W!TrySend(x) /\ UNCHANGED pvars /\ ExchangeTypeOK
  BY DEF Serve, RuntimeInv, ExchangeInv
<1>2. stage[x] \notin Past /\ events[x] = << >> /\ events'[x] # << >>
  BY <1>1, SendShape DEF RuntimeInv
<1>3. sent_in[x] = "unsent"
  BY <1>2 DEF RuntimeInv, SentInv, Offered
<1>4. [W!Next]_(W!vars)
  BY <1>1, <1>3 DEF W!Next, W!Offer
<1>5. ExchangeInv' /\ W!WriterInv' /\ W!CallerInv'
  BY <1>1, <1>4, StepExchangeInv, WriterKeepsInv DEF RuntimeInv
<1>6. TypeOK'
  BY <1>1, <1>5, TypedNext DEF RuntimeInv, TypeOK, pvars
<1>7. /\ handles /\ UNCHANGED <<handles, wstate, done, caller>>
      /\ \/ W!HasPermit /\ sent_in' = [sent_in EXCEPT ![x] = wstate]
            /\ dropped_events' = dropped_events
         \/ sent_in' = [sent_in EXCEPT ![x] = "refused"]
            /\ dropped_events' = dropped_events + 1
  BY <1>1 DEF W!TrySend, W!task
<1>8. /\ sent_in \in [Exchanges -> W!WriterStates \cup {"unsent", "refused"}]
      /\ wstate \in W!WriterStates
      /\ dropped_events \in Nat
  BY DEF RuntimeInv, TypeOK, W!TypeOK
<1>9. StopInv'
  BY <1>1, <1>7 DEF RuntimeInv, StopInv, ToldOnce, LeavesLoopTold, DrainsForOwner,
              AnsweredLast, StoppedMeansFlushed, Told, pvars, W!TooLate
<1>10. \A y \in Exchanges : y # x => sent_in'[y] = sent_in[y]
  BY <1>7, <1>8
<1>11. sent_in'[x] = "refused" \/ sent_in'[x] = wstate
  BY <1>7, <1>8
<1>12. Offered'
  <2>1. sent_in'[x] # "unsent"
    BY <1>8, <1>11 DEF W!WriterStates
  <2>2. \A y \in Exchanges : y # x => events'[y] = events[y]
    BY <1>1, StepShape DEF ExchangeTypeOK
  <2>. QED
    BY <1>2, <1>10, <2>1, <2>2 DEF RuntimeInv, SentInv, Offered
<1>13. RefusedCounted'
  <2>1. IsFiniteSet(Refused) /\ dropped_events = Cardinality(Refused) /\ x \notin Refused
    BY <1>3 DEF RuntimeInv, SentInv, RefusedCounted, Refused
  <2>2. CASE sent_in' = [sent_in EXCEPT ![x] = wstate] /\ dropped_events' = dropped_events
    <3>1. Refused' = Refused
      BY <1>3, <1>8, <1>10, <2>2 DEF Refused, W!WriterStates
    <3>. QED
      BY <2>1, <2>2, <3>1 DEF RefusedCounted
  <2>3. CASE sent_in' = [sent_in EXCEPT ![x] = "refused"]
             /\ dropped_events' = dropped_events + 1
    <3>1. Refused' = Refused \cup {x}
      BY <1>8, <1>10, <2>3 DEF Refused
    <3>2. /\ IsFiniteSet(Refused \cup {x})
          /\ Cardinality(Refused \cup {x}) = Cardinality(Refused) + 1
      BY <2>1, FS_AddElement
    <3>. QED
      BY <2>1, <2>3, <3>1, <3>2 DEF RefusedCounted
  <2>. QED
    BY <1>7, <2>2, <2>3
<1>14. Noted'
  BY <1>1, ServeLives DEF RuntimeInv, SentInv, Noted, Told, pvars
<1>15. LateIsNoted'
  <2>1. Told' = Told /\ outlived' = outlived
    BY <1>1 DEF Told, pvars
  <2>2. ASSUME sent_in'[x] \in W!TooLate PROVE Told /\ x \in outlived
    <3>1. wstate \in W!TooLate
      BY <2>2, <1>11 DEF W!TooLate
    <3>2. Told
      BY <1>7, <3>1 DEF RuntimeInv, StopInv, LeavesLoopTold
    <3>. QED
      BY <1>2, <3>2, ServeLives DEF RuntimeInv, SentInv, Noted
  <2>. QED
    BY <1>10, <2>1, <2>2 DEF RuntimeInv, SentInv, LateIsNoted, W!TooLate
<1>. QED
  BY <1>5, <1>6, <1>9, <1>12, <1>13, <1>14, <1>15 DEF RuntimeInv, SentInv
-----------------------------------------------------------------------------
(* The theorems.                                                             *)

(* Every step of a connection, the server task, the owner or the writer       *)
(* keeps the invariant.                                                       *)
LEMMA NextRuntimeInv == RuntimeInv /\ [Next]_vars => RuntimeInv'
<1>. SUFFICES ASSUME RuntimeInv, [Next]_vars PROVE RuntimeInv'
  OBVIOUS
<1>1. /\ server \in ServerStates /\ stop \in BOOLEAN /\ owner \in OwnerStates
      /\ connected \in SUBSET Exchanges
      /\ Told => server \in Over
  BY DEF RuntimeInv, TypeOK, SentInv, Noted
<1>. USE DEF ServerStates, OwnerStates, Over, Told
<1>2. CASE UNCHANGED vars
  BY <1>1, <1>2, QuietStep DEF vars, pvars
<1>3. ASSUME NEW x \in Exchanges, Accept(x) PROVE RuntimeInv'
  BY <1>1, <1>3, QuietStep DEF Accept
<1>4. ASSUME NEW x \in Exchanges, Disconnect(x) PROVE RuntimeInv'
  BY <1>1, <1>4, QuietStep DEF Disconnect
<1>5. ASSUME NEW x \in Exchanges, Serve(x) PROVE RuntimeInv'
  BY <1>5, ServeSilently, ServeSends
<1>6. CASE Bind \/ BeginGraceful \/ EndTask
  BY <1>1, <1>6, QuietStep DEF Bind, BeginGraceful, EndTask
<1>7. CASE Signal \/ BeginShutdown \/ DropRuntime
  BY <1>1, <1>7, QuietStep DEF Signal, BeginShutdown, DropRuntime
<1>8. CASE JoinTask
  <2>1. CASE server \in {"ended", "aborted"} /\ StopWriter
    BY <1>8, <2>1, StopWriterStep DEF JoinTask
  <2>2. CASE /\ owner = "stopping" /\ owner' = "failed"
             /\ UNCHANGED <<server, stop, connected, outlived, xvars, wvars>>
    BY <1>1, <2>2, QuietStep
  <2>. QED
    BY <1>8, <2>1, <2>2 DEF JoinTask
<1>9. CASE AbortTask
  BY <1>9, StopWriterStep DEF AbortTask
<1>10. CASE SendShutdown \/ DropHandles \/ WriterStep
  BY <1>10, WriterMoves DEF SendShutdown, DropHandles, WriterStep
<1>11. CASE WriterStopped
  BY <1>1, <1>11, QuietStep DEF WriterStopped
<1>. QED
  BY <1>2, <1>3, <1>4, <1>5, <1>6, <1>7, <1>8, <1>9, <1>10, <1>11
     DEF Next, ServerStep, OwnerStep

(* The inductive invariant holds while a proxy runs and is being stopped.     *)
THEOREM RuntimeInvariant == Spec => []RuntimeInv
BY InitRuntimeInv, NextRuntimeInv, PTL DEF Spec

(* Exchanges, writer, server task and owner stay in their types, the channel  *)
(* within max_inflight_events.                                                *)
THEOREM RuntimeTypeCorrect == Spec => []TypeOK
<1>1. RuntimeInv => TypeOK
  BY DEF RuntimeInv
<1>. QED
  BY <1>1, RuntimeInvariant, PTL

(* Whatever the order of its steps, a running proxy offers each exchange's    *)
(* event to the writer once, and dropped_events is the number of events the   *)
(* channel refused (capture.rs finalize_and_send, writer.rs try_send).        *)
THEOREM PipelineAccountingHolds == Spec => []PipelineAccounting
<1>1. RuntimeInv => PipelineAccounting
  BY DEF RuntimeInv, W!WriterInv, SentInv, Offered, RefusedCounted, Refused,
         PipelineAccounting
<1>. QED
  BY <1>1, RuntimeInvariant, PTL

(* Stopping a runtime loses no event silently, but those of connections that  *)
(* were alive when the writer was told (runtime_manager.rs                    *)
(* shutdown_active_runtime, writer.rs drain_pending_events).                  *)
THEOREM OnlyOutlivedIsLostHolds == Spec => []OnlyOutlivedIsLost
<1>1. RuntimeInv => OnlyOutlivedIsLost
  <2>. SUFFICES ASSUME RuntimeInv, NEW x \in W!Lost
                PROVE  x \in outlived \/ write_failures > 0
    BY DEF OnlyOutlivedIsLost
  <2>1. sent_in[x] \in W!TooLate \/ write_failures > 0
    BY DEF RuntimeInv, W!WriterInv, W!LossIsLateOrCounted
  <2>2. x \in Exchanges
    BY DEF RuntimeInv, TypeOK, W!TypeOK, W!Lost, W!Accepted
  <2>. QED
    BY <2>1, <2>2 DEF RuntimeInv, SentInv, LateIsNoted
<1>. QED
  BY <1>1, RuntimeInvariant, PTL

(* shutdown_active_runtime returns Ok only after the writer's last flush,     *)
(* whether the server task ended or was aborted.                              *)
THEOREM StoppedMeansFlushedHolds == Spec => []StoppedMeansFlushed
<1>1. RuntimeInv => StoppedMeansFlushed
  BY DEF RuntimeInv, StopInv
<1>. QED
  BY <1>1, RuntimeInvariant, PTL

-----------------------------------------------------------------------------
(* The composition uses its parts as they are specified.                     *)

(* A step of the runtime is a step of its writer or leaves it alone; here the *)
(* events come from exchanges, each of which sends at most one.               *)
LEMMA WriterSees == RuntimeInv /\ [Next]_vars => [W!Next]_(W!vars)
<1>. SUFFICES ASSUME RuntimeInv, [Next]_vars PROVE [W!Next]_(W!vars)
  OBVIOUS
<1>1. CASE UNCHANGED wvars
  BY <1>1 DEF wvars, W!vars
<1>2. ASSUME NEW x \in Exchanges, Serve(x) PROVE [W!Next]_(W!vars)
  <2>1. CASE events'[x] = events[x]
    BY <1>1, <1>2, <2>1 DEF Serve
  <2>2. CASE events'[x] # events[x]
    <3>1. events[x] = << >> /\ W!TrySend(x)
      BY <1>2, <2>2, SendShape DEF Serve, RuntimeInv
    <3>. QED
      BY <3>1 DEF RuntimeInv, SentInv, Offered, W!Next, W!Offer
  <2>. QED
    BY <2>1, <2>2
<1>3. CASE JoinTask \/ AbortTask
  BY <1>1, <1>3 DEF JoinTask, AbortTask, StopWriter, W!Next
<1>4. CASE SendShutdown \/ DropHandles \/ WriterStep
  BY <1>4 DEF SendShutdown, DropHandles, WriterStep, W!Next
<1>. QED
  BY <1>1, <1>2, <1>3, <1>4
     DEF Next, ServerStep, OwnerStep, Accept, Disconnect, Bind, BeginGraceful, EndTask,
         Signal, BeginShutdown, DropRuntime, WriterStopped, vars

(* The writer inside a running proxy behaves as the writer specified alone.   *)
THEOREM RunsTheWriter == Spec => W!Spec
<1>1. Init => W!Init
  BY DEF Init
<1>. QED
  BY <1>1, WriterSees, RuntimeInvariant, PTL DEF Spec, W!Spec

(* A step of the runtime is a step of one exchange or leaves them alone.      *)
LEMMA ExchangesSee == [Next]_vars => [ExchangeNext]_xvars
BY DEF Next, ServerStep, OwnerStep, Accept, Disconnect, Serve, Bind, BeginGraceful, EndTask,
       Signal, BeginShutdown, DropRuntime, JoinTask, AbortTask, StopWriter, SendShutdown,
       DropHandles, WriterStep, WriterStopped, vars, ExchangeNext

(* Its exchanges behave as the exchanges specified alone, whatever the owner  *)
(* and the writer do meanwhile.                                               *)
THEOREM RunsTheExchanges == Spec => ExchangeSpec
<1>1. Init => ExchangeInit
  BY DEF Init
<1>. QED
  BY <1>1, ExchangesSee, PTL DEF Spec, ExchangeSpec

(* So what an event says is true in a running proxy too.                      *)
COROLLARY RuntimeEventTruthful == Spec => []EventTruthful
BY RunsTheExchanges, EventTruthfulHolds, PTL

(* And when the owner is answered, everything that was accepted before the    *)
(* drain ended is in the table, or a failed write was counted.                *)
COROLLARY RuntimeAcknowledged == Spec => W!AcknowledgedMeansWritten
<1>1. WP!Spec => WP!AcknowledgedMeansWritten
  BY WP!AcknowledgedMeansWrittenHolds, WriterAssumed
<1>2. W!Spec => WP!Spec
  BY SameSteps, PTL DEF W!Spec, WP!Spec
<1>3. WP!AcknowledgedMeansWritten => W!AcknowledgedMeansWritten
  BY DEF WP!AcknowledgedMeansWritten, W!AcknowledgedMeansWritten, WP!Accepted, W!Accepted,
         WP!TooLate, W!TooLate, WP!vars, W!vars
<1>. QED
  BY <1>1, <1>2, <1>3, RunsTheWriter, PTL
=============================================================================

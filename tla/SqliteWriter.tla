---------------------------- MODULE SqliteWriter ----------------------------
(* src/src/writer.rs: the bounded channel, the writer task that batches      *)
(* events into SQLite transactions, and the handle's shutdown() protocol.    *)
(*                                                                           *)
(* A message of the channel is an event (WriterMessage::Event) or the caller *)
(* of shutdown() whose oneshot sender it carries (WriterMessage::Shutdown).  *)
EXTENDS Naturals, Sequences, FiniteSets

CONSTANTS Events,          \* proxy events that are offered to the writer
          Callers,         \* calls of SqliteWriterHandle::shutdown
          MaxInflight,     \* cfg.max_inflight_events: capacity of the channel
          FlushRows,       \* cfg.flush_rows
          MaxInsertRows,   \* rows one INSERT can bind (SQLite's variable limit)
          MaxFailures      \* bound: transient SQLite failures that are explored

ASSUME WriterAssumption ==
  /\ Events \cap Callers = {}
  /\ MaxInflight \in Nat \ {0}          \* validate_positive, config.rs
  /\ FlushRows \in Nat \ {0}            \* validate_positive, config.rs
  /\ MaxInsertRows \in Nat \ {0}
  /\ MaxFailures \in Nat \ {0}

VARIABLES queue,           \* the mpsc channel, oldest message first
          handles,         \* some SqliteWriterHandle (a Sender) is alive
          wstate,          \* where the writer task is, see WriterStates
          buffer,          \* WriterState.buffer
          stored,          \* committed rows of proxy_events
          dropped_events,  \* AtomicU64
          write_failures,  \* AtomicU64, counted up to MaxFailures
          done,            \* the oneshot sender run() answers when it ends
          caller,          \* progress of each shutdown() call
          accepted,        \* history: events try_send took, in order
          sent_in          \* history: writer state in which an event was taken

chan == <<queue, handles>>
task == <<wstate, buffer, done>>
db == <<stored, write_failures>>
history == <<accepted, sent_in>>
vars == <<queue, handles, wstate, buffer, stored, dropped_events,
          write_failures, done, caller, accepted, sent_in>>

(* select  waiting in tokio::select! for a message or the ticker             *)
(* flush   try_flush inside the loop, the transaction is under way           *)
(* drain   drain_pending_events                                              *)
(* final   the last try_flush                                                *)
(* ack     about to answer `done`                                            *)
(* close   run() returns, rx is about to be dropped                          *)
(* done    rx is gone                                                        *)
WriterStates == {"select", "flush", "drain", "final", "ack", "close", "done"}
CallerStates == {"idle", "sending", "waiting", "acked", "dropped"}
Messages == Events \cup Callers

Queued == { queue[i] : i \in DOMAIN queue } \cap Events
Accepted == { accepted[i] : i \in DOMAIN accepted }
Lost == Accepted \ (Queued \cup buffer \cup stored)

TypeOK ==
  /\ queue \in Seq(Messages)
  /\ Len(queue) <= MaxInflight
  /\ handles \in BOOLEAN
  /\ wstate \in WriterStates
  /\ buffer \in SUBSET Events
  /\ stored \in SUBSET Events
  /\ dropped_events \in Nat
  /\ write_failures \in 0..MaxFailures
  /\ done \in SUBSET Callers
  /\ caller \in [Callers -> CallerStates]
  /\ accepted \in Seq(Events)
  /\ sent_in \in [Events -> WriterStates \cup {"unsent", "refused"}]

\* spawn_writer: an empty channel, zero counters, a freshly spawned task.
Init ==
  /\ queue = << >>
  /\ handles = TRUE
  /\ wstate = "select"
  /\ buffer = {}
  /\ stored = {}
  /\ dropped_events = 0
  /\ write_failures = 0
  /\ done = {}
  /\ caller = [c \in Callers |-> "idle"]
  /\ accepted = << >>
  /\ sent_in = [e \in Events |-> "unsent"]

-----------------------------------------------------------------------------
(* The handle.                                                               *)

\* Mutant: one message too many fits in.
HasPermitExtra == wstate # "done" /\ Len(queue) <= MaxInflight

\* mpsc::Sender::try_send succeeds: the receiver lives and there is a permit.
HasPermit == wstate # "done" /\ Len(queue) < MaxInflight

\* Mutant: a refused event is not counted.
TrySendUncounted(e) ==
  /\ handles
  /\ IF HasPermit
     THEN /\ queue' = Append(queue, e)
          /\ accepted' = Append(accepted, e)
          /\ sent_in' = [sent_in EXCEPT ![e] = wstate]
     ELSE /\ sent_in' = [sent_in EXCEPT ![e] = "refused"]
          /\ UNCHANGED <<queue, accepted>>
  /\ UNCHANGED <<handles, task, db, caller, dropped_events>>

\* SqliteWriterHandle::try_send: never waits; a full or closed channel costs
\* the event, which is counted.
TrySend(e) ==
  /\ handles
  /\ \/ /\ HasPermit
        /\ queue' = Append(queue, e)
        /\ accepted' = Append(accepted, e)
        /\ sent_in' = [sent_in EXCEPT ![e] = wstate]
        /\ UNCHANGED dropped_events
     \/ /\ ~ HasPermit
        /\ dropped_events' = dropped_events + 1
        /\ sent_in' = [sent_in EXCEPT ![e] = "refused"]
        /\ UNCHANGED <<queue, accepted>>
  /\ UNCHANGED <<handles, task, db, caller>>

\* The capture layer offers each event once (capture.rs, cap.finalized).
Offer(e) == sent_in[e] = "unsent" /\ TrySend(e)

\* shutdown() is entered.
Shutdown(c) ==
  /\ handles
  /\ caller[c] = "idle"
  /\ caller' = [caller EXCEPT ![c] = "sending"]
  /\ UNCHANGED <<chan, task, db, dropped_events, history>>

\* Mutant: TrySendError::Closed is retried like TrySendError::Full.
SendShutdownRetries(c) ==
  /\ caller[c] = "sending"
  /\ HasPermit
  /\ queue' = Append(queue, c)
  /\ caller' = [caller EXCEPT ![c] = "waiting"]
  /\ UNCHANGED <<handles, task, db, dropped_events, history>>

\* One turn of shutdown()'s loop that leaves it. A full channel is retried
\* after 10 ms, which changes nothing; on a closed one the message, and the
\* oneshot sender inside it, are dropped and rx.await returns at once.
SendShutdown(c) ==
  /\ caller[c] = "sending"
  /\ \/ /\ HasPermit
        /\ queue' = Append(queue, c)
        /\ caller' = [caller EXCEPT ![c] = "waiting"]
     \/ /\ wstate = "done"
        /\ caller' = [caller EXCEPT ![c] = "dropped"]
        /\ UNCHANGED queue
  /\ UNCHANGED <<handles, task, db, dropped_events, history>>

\* The last handle goes away. shutdown() borrows one until it returns.
DropHandles ==
  /\ handles
  /\ \A c \in Callers : caller[c] \notin {"sending", "waiting"}
  /\ handles' = FALSE
  /\ UNCHANGED <<queue, task, db, dropped_events, caller, history>>

-----------------------------------------------------------------------------
(* The writer task.                                                          *)

\* run(): an event is pushed, and a full buffer is flushed.
RecvEvent ==
  /\ wstate = "select"
  /\ queue # << >>
  /\ Head(queue) \in Events
  /\ queue' = Tail(queue)
  /\ buffer' = buffer \cup {Head(queue)}
  /\ wstate' = IF Cardinality(buffer') >= FlushRows THEN "flush" ELSE "select"
  /\ UNCHANGED <<handles, db, dropped_events, done, caller, history>>

\* Mutant: run() goes to its last flush without draining the channel.
RecvShutdownNoDrain ==
  /\ wstate = "select"
  /\ queue # << >>
  /\ Head(queue) \in Callers
  /\ queue' = Tail(queue)
  /\ done' = {Head(queue)}
  /\ wstate' = "final"
  /\ UNCHANGED <<handles, buffer, db, dropped_events, caller, history>>

\* run(): Shutdown starts the drain.
RecvShutdown ==
  /\ wstate = "select"
  /\ queue # << >>
  /\ Head(queue) \in Callers
  /\ queue' = Tail(queue)
  /\ done' = {Head(queue)}
  /\ wstate' = "drain"
  /\ UNCHANGED <<handles, buffer, db, dropped_events, caller, history>>

\* Mutants: the loop is left without a last flush; None is not the end.
RecvNoneNoFlush ==
  /\ wstate = "select" /\ ~ handles /\ queue = << >>
  /\ wstate' = "close"
  /\ UNCHANGED <<chan, buffer, done, db, dropped_events, caller, history>>
RecvNoneContinues ==
  /\ wstate = "select" /\ ~ handles /\ queue = << >>
  /\ UNCHANGED vars

\* run(): recv() yields None once every sender is gone and the queue is empty.
RecvNone ==
  /\ wstate = "select"
  /\ ~ handles
  /\ queue = << >>
  /\ wstate' = "final"
  /\ UNCHANGED <<chan, buffer, done, db, dropped_events, caller, history>>

\* Mutant: the ticker flushes full batches only.
TickFull ==
  /\ wstate = "select"
  /\ Cardinality(buffer) >= FlushRows
  /\ wstate' = "flush"
  /\ UNCHANGED <<chan, buffer, done, db, dropped_events, caller, history>>

\* run(): ticker.tick(); with an empty buffer try_flush returns at once.
Tick ==
  /\ wstate = "select"
  /\ buffer # {}
  /\ wstate' = "flush"
  /\ UNCHANGED <<chan, buffer, done, db, dropped_events, caller, history>>

\* event_to_active_model sets 65 columns, each a variable of the INSERT.
Insertable(batch) == Cardinality(batch) <= MaxInsertRows

\* Where try_flush returns to.
AfterFlush ==
  CASE wstate = "flush" -> "select"
    [] wstate = "final" /\ done # {} -> "ack"
    [] OTHER -> "close"

\* Mutant: buffer.clear() is missing.
FlushOkKeeps ==
  /\ wstate \in {"flush", "final"}
  /\ Insertable(buffer)
  /\ stored' = stored \cup buffer
  /\ wstate' = AfterFlush
  /\ UNCHANGED <<chan, buffer, done, write_failures, dropped_events, caller, history>>

\* flush(): begin, insert_many, commit, and only then buffer.clear().
FlushOk ==
  /\ wstate \in {"flush", "final"}
  /\ Insertable(buffer)
  /\ stored' = stored \cup buffer
  /\ buffer' = {}
  /\ wstate' = AfterFlush
  /\ UNCHANGED <<chan, done, write_failures, dropped_events, caller, history>>

\* Mutant: the buffer is taken before the insert, so a failed batch is gone.
FlushFailDrops ==
  /\ wstate \in {"flush", "final"}
  /\ buffer # {}
  /\ write_failures < MaxFailures
  /\ write_failures' = write_failures + 1
  /\ buffer' = {}
  /\ wstate' = AfterFlush
  /\ UNCHANGED <<chan, done, stored, dropped_events, caller, history>>

\* try_flush(): the batch cannot be bound, or SQLite fails for a while; the
\* transaction is rolled back and the buffer kept for the next attempt.
FlushFail ==
  /\ wstate \in {"flush", "final"}
  /\ buffer # {}
  /\ \/ ~ Insertable(buffer)
     \/ write_failures < MaxFailures
  /\ write_failures' = IF write_failures < MaxFailures
                       THEN write_failures + 1 ELSE write_failures
  /\ wstate' = AfterFlush
  /\ UNCHANGED <<chan, buffer, done, stored, dropped_events, caller, history>>

\* drain_pending_events(): events are pushed whatever the buffer's size, and a
\* second Shutdown is answered on the spot.
DrainRecv ==
  /\ wstate = "drain"
  /\ queue # << >>
  /\ queue' = Tail(queue)
  /\ \/ /\ Head(queue) \in Events
        /\ buffer' = buffer \cup {Head(queue)}
        /\ UNCHANGED caller
     \/ /\ Head(queue) \in Callers
        /\ caller' = [caller EXCEPT ![Head(queue)] = "acked"]
        /\ UNCHANGED buffer
  /\ UNCHANGED <<handles, wstate, done, db, dropped_events, history>>

\* Mutant: done.send(()) comes before the last flush.
DrainEndAcks ==
  /\ wstate = "drain"
  /\ queue = << >>
  /\ wstate' = "ack"
  /\ UNCHANGED <<chan, buffer, done, db, dropped_events, caller, history>>

\* Mutant: the drain goes on until the channel is closed.
DrainEndClosed ==
  /\ wstate = "drain"
  /\ queue = << >> /\ ~ handles
  /\ wstate' = "final"
  /\ UNCHANGED <<chan, buffer, done, db, dropped_events, caller, history>>

\* drain_pending_events(): nothing arrived for 100 ms.
DrainEnd ==
  /\ wstate = "drain"
  /\ queue = << >>
  /\ wstate' = "final"
  /\ UNCHANGED <<chan, buffer, done, db, dropped_events, caller, history>>

\* run(): done.send(()).
Acknowledge ==
  /\ wstate = "ack"
  /\ caller' = [c \in Callers |-> IF c \in done THEN "acked" ELSE caller[c]]
  /\ done' = {}
  /\ wstate' = "close"
  /\ UNCHANGED <<chan, buffer, db, dropped_events, history>>

\* run() has returned: rx, the messages in it and the buffer are dropped.
Close ==
  /\ wstate = "close"
  /\ wstate' = "done"
  /\ queue' = << >>
  /\ buffer' = {}
  /\ caller' = [c \in Callers |->
                  IF \E i \in DOMAIN queue : queue[i] = c
                  THEN "dropped" ELSE caller[c]]
  /\ UNCHANGED <<handles, done, db, dropped_events, history>>

Recv == RecvEvent \/ RecvShutdown \/ RecvNone
Flush == FlushOk \/ FlushFail
WriterStep ==
  Recv \/ Tick \/ Flush \/ DrainRecv \/ DrainEnd \/ Acknowledge \/ Close

Next ==
  \/ \E e \in Events : Offer(e)
  \/ \E c \in Callers : Shutdown(c) \/ SendShutdown(c)
  \/ DropHandles
  \/ WriterStep

(* The task is scheduled and its ticker fires; select! picks its branches at *)
(* random, so a receive that is ready again and again is taken; shutdown()   *)
(* retries until it leaves its loop.                                         *)
Fairness ==
  /\ WF_vars(WriterStep)
  /\ SF_vars(Recv)
  /\ \A c \in Callers : SF_vars(SendShutdown(c))

Spec == Init /\ [][Next]_vars
FairSpec == Spec /\ Fairness

-----------------------------------------------------------------------------
(* Safety.                                                                   *)

\* The states in which the drain is over and the channel still accepts.
TooLate == {"final", "ack", "close"}

(* Every event try_send accepted is in exactly one place: once in the        *)
(* channel, in the buffer or in the table; it can be lost only by the task's *)
(* end (writer.rs: flush clears the buffer after commit, run drops rx last). *)
Conservation ==
  /\ \A i, j \in DOMAIN queue :
       queue[i] = queue[j] /\ queue[i] \in Events => i = j
  /\ Queued \cap buffer = {} /\ Queued \cap stored = {} /\ buffer \cap stored = {}
  /\ Queued \cup buffer \cup stored \subseteq Accepted
  /\ Lost # {} => wstate = "done"

(* Rows reach the table in arrival order: an event is stored only after every *)
(* event accepted before it, whatever flushes failed in between, so a gap in  *)
(* proxy_events is always a refused event (writer.rs: failed batches stay in  *)
(* front of the buffer).                                                      *)
StoredInOrder ==
  \A i, j \in DOMAIN accepted :
    i < j /\ accepted[j] \in stored => accepted[i] \in stored

(* An accepted event is lost without a trace in write_failures only if it     *)
(* was accepted after the drain had ended (writer.rs: drain_pending_events,   *)
(* then the last try_flush, then rx is dropped).                              *)
LossIsLateOrCounted ==
  \A e \in Lost : sent_in[e] \in TooLate \/ write_failures > 0

(* When run() answers a shutdown() call, every event accepted before the      *)
(* drain ended is in the table, or a failed write has been counted (writer.rs: *)
(* drain, then try_flush, then done.send).                                    *)
AcknowledgedMeansWritten ==
  [][\A c \in done :
       caller'[c] = "acked" =>
         \A e \in Accepted :
           sent_in[e] \in TooLate \/ e \in stored \/ write_failures > 0]_vars

(* The strengthening that makes the invariants above inductive. An accepted   *)
(* event left a mark in sent_in; the channel keeps arrival order and is       *)
(* younger than the buffer; and once the drain is over, the channel holds     *)
(* latecomers only, and a buffer that survived the last flush was counted.    *)
MarkedOnce ==
  \A e \in Events : e \in Accepted <=> sent_in[e] \notin {"unsent", "refused"}
BufferInOrder ==
  \A i, j \in DOMAIN accepted :
    i < j /\ accepted[j] \in buffer => accepted[i] \notin Queued
QueueInOrder ==
  \A i, j \in DOMAIN accepted : \A p, q \in DOMAIN queue :
    i < j /\ queue[p] = accepted[i] /\ queue[q] = accepted[j] => p < q
LateQueue ==
  wstate \in TooLate \cup {"done"} => \A e \in Queued : sent_in[e] \in TooLate
FailedBuffer ==
  wstate \in {"ack", "close"} /\ buffer # {} => write_failures > 0
WriterInv ==
  /\ TypeOK /\ Conservation /\ StoredInOrder /\ LossIsLateOrCounted
  /\ MarkedOnce /\ BufferInOrder /\ QueueInOrder /\ LateQueue /\ FailedBuffer

(* A shutdown() call waits for exactly one oneshot sender: the one in its own *)
(* message, queued once, or the one run() answers at its end.                 *)
CallerInv ==
  /\ \A i, j \in DOMAIN queue :
       queue[i] = queue[j] /\ queue[i] \in Callers => i = j
  /\ \A i \in DOMAIN queue :
       queue[i] \in Callers => caller[queue[i]] = "waiting" /\ queue[i] \notin done
  /\ \A c \in done : caller[c] = "waiting"

(* What the writer does is what EventLog promises.                            *)
Log == INSTANCE EventLog WITH pending <- Queued \cup buffer,
                              open <- (wstate # "done")
ImplementsEventLog == Log!Spec

-----------------------------------------------------------------------------
(* Liveness.                                                                 *)

(* An accepted event is stored, or the writer ends: no batch waits for ever   *)
(* (writer.rs: the ticker retries what a failed flush left behind).           *)
EventuallyStored ==
  \A e \in Events :
    (e \in Queued \cup buffer) ~> (e \in stored \/ wstate = "done")

(* Every call of shutdown() returns, whether its message was answered, was    *)
(* left in the channel when the task ended, or never fitted in.               *)
ShutdownReturns ==
  \A c \in Callers : (caller[c] = "sending") ~> (caller[c] \in {"acked", "dropped"})

=============================================================================

------------------------- MODULE SqliteWriterProofs -------------------------
(* Proofs, for every channel capacity, batch size and set of events, of the  *)
(* safety properties of SqliteWriter and of its refinement of EventLog.      *)
EXTENDS SqliteWriter, TLAPS

-----------------------------------------------------------------------------
(* Sequences: what Append and Tail do to the elements of a channel.          *)

Elements(s) == { s[i] : i \in DOMAIN s }

(* Append adds one element at the end (mpsc::Sender::try_send). *)
LEMMA AppendFacts ==
  ASSUME NEW S, NEW s \in Seq(S), NEW x \in S
  PROVE  /\ Append(s, x) \in Seq(S)
         /\ Len(Append(s, x)) = Len(s) + 1
         /\ DOMAIN s = 1..Len(s)
         /\ DOMAIN Append(s, x) = 1..(Len(s) + 1)
         /\ \A i \in 1..Len(s) : Append(s, x)[i] = s[i]
         /\ Append(s, x)[Len(s) + 1] = x
         /\ Elements(Append(s, x)) = Elements(s) \cup {x}
<1>1. /\ Append(s, x) \in Seq(S)
      /\ Len(Append(s, x)) = Len(s) + 1
      /\ DOMAIN s = 1..Len(s)
      /\ DOMAIN Append(s, x) = 1..(Len(s) + 1)
      /\ \A i \in 1..Len(s) : Append(s, x)[i] = s[i]
      /\ Append(s, x)[Len(s) + 1] = x
  OBVIOUS
<1>2. Len(s) \in Nat
  OBVIOUS
<1>3. Elements(Append(s, x)) = Elements(s) \cup {x}
  BY <1>1, <1>2 DEF Elements
<1>. QED
  BY <1>1, <1>3

(* Tail removes the first element (mpsc::Receiver::recv). *)
LEMMA TailFacts ==
  ASSUME NEW S, NEW s \in Seq(S), s # << >>
  PROVE  /\ Head(s) \in S
         /\ Tail(s) \in Seq(S)
         /\ Len(s) \in Nat \ {0}
         /\ Len(Tail(s)) = Len(s) - 1
         /\ DOMAIN s = 1..Len(s)
         /\ DOMAIN Tail(s) = 1..(Len(s) - 1)
         /\ s[1] = Head(s)
         /\ \A i \in 1..(Len(s) - 1) : Tail(s)[i] = s[i + 1]
         /\ Elements(s) = Elements(Tail(s)) \cup {Head(s)}
<1>1. /\ Head(s) \in S
      /\ Tail(s) \in Seq(S)
      /\ Len(s) \in Nat \ {0}
      /\ Len(Tail(s)) = Len(s) - 1
      /\ DOMAIN s = 1..Len(s)
      /\ DOMAIN Tail(s) = 1..(Len(s) - 1)
      /\ s[1] = Head(s)
      /\ \A i \in 1..(Len(s) - 1) : Tail(s)[i] = s[i + 1]
  OBVIOUS
<1>2. ASSUME NEW i \in 1..Len(s), i # 1
      PROVE  /\ i - 1 \in 1..(Len(s) - 1)
             /\ Tail(s)[i - 1] = s[i]
  BY <1>1, <1>2
<1>3. ASSUME NEW i \in 1..(Len(s) - 1)
      PROVE  i + 1 \in 1..Len(s)
  BY <1>1
<1>4. Elements(s) \subseteq Elements(Tail(s)) \cup {Head(s)}
  <2>. SUFFICES ASSUME NEW i \in 1..Len(s)
                PROVE  s[i] \in Elements(Tail(s)) \cup {Head(s)}
    BY <1>1 DEF Elements
  <2>1. CASE i = 1
    BY <2>1, <1>1
  <2>2. CASE i # 1
    BY <2>2, <1>1, <1>2 DEF Elements
  <2>. QED
    BY <2>1, <2>2
<1>5. Elements(Tail(s)) \cup {Head(s)} \subseteq Elements(s)
  BY <1>1, <1>3 DEF Elements
<1>. QED
  BY <1>1, <1>4, <1>5

-----------------------------------------------------------------------------
(* Type correctness.                                                         *)

(* spawn_writer starts in a well-typed state. *)
LEMMA InitTypeOK == Init => TypeOK
BY WriterAssumption DEF Init, TypeOK, WriterStates, CallerStates, Messages

(* No step of a sender, a shutdown() call or the task leaves the types. *)
LEMMA NextTypeOK == TypeOK /\ [Next]_vars => TypeOK'
<1>. SUFFICES ASSUME TypeOK, [Next]_vars PROVE TypeOK'
  OBVIOUS
<1>. USE DEF TypeOK, WriterStates, CallerStates, Messages, chan, task, db, history
<1>1. ASSUME NEW e \in Events, Offer(e) PROVE TypeOK'
  <2>1. CASE HasPermit
    <3>1. /\ queue' = Append(queue, e) /\ accepted' = Append(accepted, e)
          /\ sent_in' = [sent_in EXCEPT ![e] = wstate]
          /\ UNCHANGED <<handles, wstate, buffer, stored, dropped_events,
                         write_failures, done, caller>>
      BY <1>1, <2>1 DEF Offer, TrySend
    <3>2. queue' \in Seq(Messages) /\ Len(queue') <= MaxInflight
      BY <3>1, <2>1, WriterAssumption, AppendFacts DEF HasPermit
    <3>3. accepted' \in Seq(Events)
      BY <3>1, AppendFacts
    <3>. QED
      BY <3>1, <3>2, <3>3
  <2>2. CASE ~ HasPermit
    <3>1. /\ sent_in' = [sent_in EXCEPT ![e] = "refused"]
          /\ dropped_events' = dropped_events + 1
          /\ UNCHANGED <<queue, accepted, handles, wstate, buffer, stored,
                         write_failures, done, caller>>
      BY <1>1, <2>2 DEF Offer, TrySend
    <3>. QED
      BY <3>1
  <2>. QED
    BY <2>1, <2>2
<1>2. ASSUME NEW c \in Callers, Shutdown(c) PROVE TypeOK'
  BY <1>2 DEF Shutdown
<1>3. ASSUME NEW c \in Callers, SendShutdown(c) PROVE TypeOK'
  <2>1. CASE HasPermit /\ queue' = Append(queue, c)
                       /\ caller' = [caller EXCEPT ![c] = "waiting"]
    <3>1. queue' \in Seq(Messages) /\ Len(queue') <= MaxInflight
      BY <2>1, WriterAssumption, AppendFacts DEF HasPermit
    <3>. QED
      BY <1>3, <2>1, <3>1 DEF SendShutdown
  <2>2. CASE queue' = queue /\ caller' = [caller EXCEPT ![c] = "dropped"]
    BY <1>3, <2>2 DEF SendShutdown
  <2>. QED
    BY <1>3, <2>1, <2>2 DEF SendShutdown
<1>4. CASE DropHandles
  BY <1>4 DEF DropHandles
<1>5. CASE RecvEvent
  <2>1. queue # << >> /\ queue' = Tail(queue) /\ Head(queue) \in Events
    BY <1>5 DEF RecvEvent
  <2>2. queue' \in Seq(Messages) /\ Len(queue') <= MaxInflight
    BY <2>1, TailFacts, WriterAssumption
  <2>. QED
    BY <1>5, <2>1, <2>2 DEF RecvEvent
<1>6. CASE RecvShutdown
  <2>1. queue # << >> /\ queue' = Tail(queue) /\ Head(queue) \in Callers
    BY <1>6 DEF RecvShutdown
  <2>2. queue' \in Seq(Messages) /\ Len(queue') <= MaxInflight
    BY <2>1, TailFacts, WriterAssumption
  <2>. QED
    BY <1>6, <2>1, <2>2 DEF RecvShutdown
<1>7. CASE RecvNone
  BY <1>7 DEF RecvNone
<1>8. CASE Tick
  BY <1>8 DEF Tick
<1>9. CASE FlushOk
  BY <1>9 DEF FlushOk, AfterFlush
<1>10. CASE FlushFail
  BY <1>10, WriterAssumption DEF FlushFail, AfterFlush
<1>11. CASE DrainRecv
  <2>1. queue # << >> /\ queue' = Tail(queue) /\ Head(queue) \in Messages
    BY <1>11, TailFacts DEF DrainRecv
  <2>2. queue' \in Seq(Messages) /\ Len(queue') <= MaxInflight
    BY <2>1, TailFacts, WriterAssumption
  <2>. QED
    BY <1>11, <2>1, <2>2 DEF DrainRecv
<1>12. CASE DrainEnd
  BY <1>12 DEF DrainEnd
<1>13. CASE Acknowledge
  BY <1>13 DEF Acknowledge
<1>14. CASE Close
  BY <1>14, WriterAssumption DEF Close
<1>15. CASE UNCHANGED vars
  BY <1>15 DEF vars
<1>. QED
  BY <1>1, <1>2, <1>3, <1>4, <1>5, <1>6, <1>7, <1>8, <1>9, <1>10, <1>11,
     <1>12, <1>13, <1>14, <1>15 DEF Next, WriterStep, Recv, Flush

(* Every state of the writer is well typed; in particular the channel never   *)
(* holds more than max_inflight_events messages.                              *)
THEOREM TypeCorrect == Spec => []TypeOK
<1>1. Init => TypeOK
  BY InitTypeOK
<1>2. TypeOK /\ [Next]_vars => TypeOK'
  BY NextTypeOK
<1>. QED
  BY <1>1, <1>2, PTL DEF Spec

-----------------------------------------------------------------------------
(* The inductive invariant. One lemma for each way in which a step touches   *)
(* the channel, the buffer or the table.                                     *)

(* try_send puts a new event at the end of the channel. *)
LEMMA PushEvent ==
  ASSUME WriterInv, TypeOK', NEW e \in Events, sent_in[e] = "unsent",
         wstate # "done",
         queue' = Append(queue, e), accepted' = Append(accepted, e),
         sent_in' = [sent_in EXCEPT ![e] = wstate],
         UNCHANGED <<wstate, buffer, stored, write_failures>>
  PROVE  WriterInv'
<1>1. /\ queue \in Seq(Messages) /\ accepted \in Seq(Events) /\ e \in Messages
      /\ sent_in \in [Events -> WriterStates \cup {"unsent", "refused"}]
      /\ wstate \in WriterStates
  BY DEF WriterInv, TypeOK, Messages
<1>2. /\ DOMAIN queue = 1..Len(queue) /\ Len(queue) \in Nat
      /\ DOMAIN queue' = 1..(Len(queue) + 1)
      /\ \A i \in 1..Len(queue) : queue'[i] = queue[i]
      /\ queue'[Len(queue) + 1] = e
      /\ Elements(queue') = Elements(queue) \cup {e}
  BY <1>1, AppendFacts
<1>3. /\ DOMAIN accepted = 1..Len(accepted) /\ Len(accepted) \in Nat
      /\ DOMAIN accepted' = 1..(Len(accepted) + 1)
      /\ \A i \in 1..Len(accepted) : accepted'[i] = accepted[i]
      /\ accepted'[Len(accepted) + 1] = e
      /\ Elements(accepted') = Elements(accepted) \cup {e}
  BY <1>1, AppendFacts
<1>4. Queued' = Queued \cup {e} /\ Accepted' = Accepted \cup {e}
  BY <1>2, <1>3 DEF Queued, Accepted, Elements
<1>5. e \notin Accepted
  BY DEF WriterInv, MarkedOnce
<1>6. e \notin Queued /\ e \notin buffer /\ e \notin stored
  BY <1>5 DEF WriterInv, Conservation
<1>7. Conservation'
  <2>1. \A i, j \in DOMAIN queue' :
          queue'[i] = queue'[j] /\ queue'[i] \in Events => i = j
    <3>1. \A i \in 1..Len(queue) : queue[i] # e
      BY <1>2, <1>6 DEF Queued
    <3>. QED
      BY <1>2, <3>1 DEF WriterInv, Conservation
  <2>2. Lost' = Lost
    BY <1>4, <1>5 DEF Lost
  <2>. QED
    BY <1>4, <1>6, <2>1, <2>2 DEF WriterInv, Conservation
<1>8. StoredInOrder'
  BY <1>3, <1>6 DEF WriterInv, StoredInOrder
<1>9. LossIsLateOrCounted'
  BY <1>7 DEF Conservation, LossIsLateOrCounted
<1>10. MarkedOnce'
  BY <1>1, <1>4, <1>5 DEF WriterInv, MarkedOnce, WriterStates
<1>11. BufferInOrder'
  <2>. SUFFICES ASSUME NEW i \in DOMAIN accepted', NEW j \in DOMAIN accepted',
                       i < j, accepted'[j] \in buffer
                PROVE  accepted'[i] \notin Queued'
    BY DEF BufferInOrder
  <2>1. j # Len(accepted) + 1 /\ j \in 1..Len(accepted) /\ i \in 1..Len(accepted)
    BY <1>3, <1>6
  <2>2. accepted[i] \in Accepted /\ accepted[i] \notin Queued
    BY <1>3, <2>1 DEF WriterInv, BufferInOrder, Accepted
  <2>. QED
    BY <1>3, <1>4, <1>5, <2>1, <2>2
<1>12. QueueInOrder'
  <2>. SUFFICES ASSUME NEW i \in DOMAIN accepted', NEW j \in DOMAIN accepted',
                       NEW p \in DOMAIN queue', NEW q \in DOMAIN queue',
                       i < j, queue'[p] = accepted'[i], queue'[q] = accepted'[j]
                PROVE  p < q
    BY DEF QueueInOrder
  <2>1. i \in 1..Len(accepted) /\ accepted'[i] = accepted[i] /\ accepted[i] # e
    BY <1>3, <1>5 DEF Accepted
  <2>2. p \in 1..Len(queue) /\ queue'[p] = queue[p]
    BY <1>2, <2>1
  <2>3. CASE j = Len(accepted) + 1
    <3>1. \A k \in 1..Len(queue) : queue[k] # e
      BY <1>2, <1>6 DEF Queued
    <3>2. q = Len(queue) + 1
      BY <1>2, <1>3, <2>3, <3>1
    <3>. QED
      BY <2>2, <3>2, <1>2
  <2>4. CASE j \in 1..Len(accepted)
    <3>1. accepted[j] # e /\ accepted'[j] = accepted[j]
      BY <1>3, <1>5, <2>4 DEF Accepted
    <3>2. q \in 1..Len(queue) /\ queue'[q] = queue[q]
      BY <1>2, <3>1
    <3>. QED
      BY <1>2, <1>3, <2>1, <2>2, <2>4, <3>1, <3>2 DEF WriterInv, QueueInOrder
  <2>. QED
    BY <1>3, <2>3, <2>4
<1>13. LateQueue'
  <2>1. \A x \in Queued : sent_in'[x] = sent_in[x]
    BY <1>1, <1>6
  <2>2. sent_in'[e] = wstate
    BY <1>1
  <2>. QED
    BY <1>4, <2>1, <2>2 DEF WriterInv, LateQueue, TooLate
<1>14. FailedBuffer'
  BY DEF WriterInv, FailedBuffer
<1>. QED
  BY <1>7, <1>8, <1>9, <1>10, <1>11, <1>12, <1>13, <1>14 DEF WriterInv

(* shutdown() puts its message at the end of the channel. *)
LEMMA PushCaller ==
  ASSUME WriterInv, TypeOK', NEW c \in Callers,
         queue' = Append(queue, c),
         UNCHANGED <<wstate, buffer, stored, write_failures, accepted, sent_in>>
  PROVE  WriterInv'
<1>1. /\ queue \in Seq(Messages) /\ accepted \in Seq(Events)
      /\ c \in Messages /\ c \notin Events
  BY WriterAssumption DEF WriterInv, TypeOK, Messages
<1>2. /\ DOMAIN queue = 1..Len(queue) /\ Len(queue) \in Nat
      /\ DOMAIN queue' = 1..(Len(queue) + 1)
      /\ \A i \in 1..Len(queue) : queue'[i] = queue[i]
      /\ queue'[Len(queue) + 1] = c
      /\ Elements(queue') = Elements(queue) \cup {c}
  BY <1>1, AppendFacts
<1>3. \A i \in DOMAIN accepted : accepted[i] \in Events
  BY <1>1
<1>4. Queued' = Queued /\ Accepted' = Accepted
  BY <1>1, <1>2 DEF Queued, Accepted, Elements
<1>5. Lost' = Lost
  BY <1>4 DEF Lost
<1>6. \A i \in DOMAIN queue' :
        queue'[i] \in Events => i \in DOMAIN queue /\ queue[i] = queue'[i]
  BY <1>1, <1>2
<1>7. Conservation'
  BY <1>4, <1>5, <1>6 DEF WriterInv, Conservation
<1>8. QueueInOrder'
  <2>. SUFFICES ASSUME NEW i \in DOMAIN accepted, NEW j \in DOMAIN accepted,
                       NEW p \in DOMAIN queue', NEW q \in DOMAIN queue',
                       i < j, queue'[p] = accepted[i], queue'[q] = accepted[j]
                PROVE  p < q
    BY DEF QueueInOrder
  <2>. QED
    BY <1>3, <1>6 DEF WriterInv, QueueInOrder
<1>. QED
  BY <1>4, <1>5, <1>7, <1>8 DEF WriterInv, StoredInOrder, LossIsLateOrCounted,
     MarkedOnce, BufferInOrder, LateQueue, FailedBuffer

(* recv() takes the oldest message out of the channel: what stays keeps its   *)
(* order and was behind it.                                                   *)
LEMMA PopQueue ==
  ASSUME WriterInv, queue # << >>, queue' = Tail(queue)
  PROVE  /\ DOMAIN queue = 1..Len(queue) /\ Len(queue) \in Nat \ {0}
         /\ Head(queue) = queue[1] /\ Head(queue) \in Messages
         /\ DOMAIN queue' = 1..(Len(queue) - 1)
         /\ \A i \in DOMAIN queue' :
              i \in Nat /\ i + 1 \in DOMAIN queue /\ i + 1 # 1
                        /\ queue'[i] = queue[i + 1]
         /\ Queued = Queued' \cup ({Head(queue)} \cap Events)
         /\ Head(queue) \in Events => Head(queue) \notin Queued'
<1>1. queue \in Seq(Messages)
  BY DEF WriterInv, TypeOK
<1>2. /\ DOMAIN queue = 1..Len(queue) /\ Len(queue) \in Nat \ {0}
      /\ Head(queue) = queue[1] /\ Head(queue) \in Messages
      /\ DOMAIN queue' = 1..(Len(queue) - 1)
      /\ \A i \in 1..(Len(queue) - 1) : queue'[i] = queue[i + 1]
      /\ Elements(queue) = Elements(queue') \cup {Head(queue)}
  BY <1>1, TailFacts
<1>3. \A i \in DOMAIN queue' :
        i \in Nat /\ i + 1 \in DOMAIN queue /\ i + 1 # 1 /\ queue'[i] = queue[i + 1]
  BY <1>2
<1>4. Queued = Queued' \cup ({Head(queue)} \cap Events)
  BY <1>2 DEF Queued, Elements
<1>5. Head(queue) \in Events => Head(queue) \notin Queued'
  <2>. SUFFICES ASSUME Head(queue) \in Events, NEW i \in DOMAIN queue',
                       queue'[i] = Head(queue)
                PROVE  FALSE
    BY DEF Queued
  <2>. QED
    BY <1>2, <1>3 DEF WriterInv, Conservation
<1>. QED
  BY <1>2, <1>3, <1>4, <1>5

(* The channel stays in arrival order when its head is taken. *)
LEMMA PopKeepsOrder ==
  ASSUME WriterInv, queue # << >>, queue' = Tail(queue), UNCHANGED accepted
  PROVE  QueueInOrder'
<1>. SUFFICES ASSUME NEW i \in DOMAIN accepted, NEW j \in DOMAIN accepted,
                     NEW p \in DOMAIN queue', NEW q \in DOMAIN queue',
                     i < j, queue'[p] = accepted[i], queue'[q] = accepted[j]
              PROVE  p < q
  BY DEF QueueInOrder
<1>1. p + 1 < q + 1
  BY PopQueue DEF WriterInv, QueueInOrder
<1>. QED
  BY <1>1, PopQueue

(* An event moves from the head of the channel to the buffer. *)
LEMMA PopEvent ==
  ASSUME WriterInv, TypeOK', queue # << >>, queue' = Tail(queue),
         Head(queue) \in Events, buffer' = buffer \cup {Head(queue)},
         wstate \in {"select", "drain"}, wstate' \in {"select", "flush", "drain"},
         UNCHANGED <<stored, write_failures, accepted, sent_in>>
  PROVE  WriterInv'
<1>1. /\ Queued = Queued' \cup {Head(queue)} /\ Head(queue) \notin Queued'
      /\ Accepted' = Accepted
  BY PopQueue DEF Accepted
<1>2. Lost' = Lost
  BY <1>1 DEF Lost
<1>3. Conservation'
  <2>1. \A i, j \in DOMAIN queue' :
          queue'[i] = queue'[j] /\ queue'[i] \in Events => i = j
    <3>. SUFFICES ASSUME NEW i \in DOMAIN queue', NEW j \in DOMAIN queue',
                         queue'[i] = queue'[j], queue'[i] \in Events
                  PROVE  i = j
      OBVIOUS
    <3>1. i + 1 = j + 1
      BY PopQueue DEF WriterInv, Conservation
    <3>. QED
      BY <3>1, PopQueue
  <2>2. Lost = {}
    BY DEF WriterInv, Conservation
  <2>. QED
    BY <1>1, <1>2, <2>1, <2>2 DEF WriterInv, Conservation
<1>4. BufferInOrder'
  <2>. SUFFICES ASSUME NEW i \in DOMAIN accepted, NEW j \in DOMAIN accepted,
                       i < j, accepted[j] \in buffer', accepted[i] \in Queued'
                PROVE  FALSE
    BY DEF BufferInOrder
  <2>1. CASE accepted[j] \in buffer
    BY <1>1, <2>1 DEF WriterInv, BufferInOrder
  <2>2. CASE accepted[j] = Head(queue)
    <3>1. PICK p \in DOMAIN queue' : queue'[p] = accepted[i]
      BY DEF Queued
    <3>2. 1 \in DOMAIN queue /\ queue[1] = accepted[j]
      BY <2>2, PopQueue
    <3>3. p + 1 < 1
      BY <3>1, <3>2, PopQueue DEF WriterInv, QueueInOrder
    <3>. QED
      BY <3>3, PopQueue
  <2>. QED
    BY <2>1, <2>2
<1>5. QueueInOrder'
  BY PopKeepsOrder
<1>6. LateQueue' /\ FailedBuffer'
  BY DEF LateQueue, FailedBuffer, TooLate
<1>. QED
  BY <1>1, <1>2, <1>3, <1>4, <1>5, <1>6
     DEF WriterInv, StoredInOrder, LossIsLateOrCounted, MarkedOnce

(* A Shutdown message leaves the head of the channel. *)
LEMMA PopCaller ==
  ASSUME WriterInv, TypeOK', queue # << >>, queue' = Tail(queue),
         Head(queue) \in Callers,
         wstate \in {"select", "drain"}, wstate' = "drain",
         UNCHANGED <<buffer, stored, write_failures, accepted, sent_in>>
  PROVE  WriterInv'
<1>1. Queued' = Queued /\ Accepted' = Accepted
  <2>1. Head(queue) \notin Events
    BY WriterAssumption
  <2>. QED
    BY <2>1, PopQueue DEF Accepted
<1>2. Lost' = Lost
  BY <1>1 DEF Lost
<1>3. Conservation'
  <2>1. \A i, j \in DOMAIN queue' :
          queue'[i] = queue'[j] /\ queue'[i] \in Events => i = j
    <3>. SUFFICES ASSUME NEW i \in DOMAIN queue', NEW j \in DOMAIN queue',
                         queue'[i] = queue'[j], queue'[i] \in Events
                  PROVE  i = j
      OBVIOUS
    <3>1. i + 1 = j + 1
      BY PopQueue DEF WriterInv, Conservation
    <3>. QED
      BY <3>1, PopQueue
  <2>2. Lost = {}
    BY DEF WriterInv, Conservation
  <2>. QED
    BY <1>1, <1>2, <2>1, <2>2 DEF WriterInv, Conservation
<1>4. QueueInOrder'
  BY PopKeepsOrder
<1>5. LateQueue' /\ FailedBuffer'
  BY DEF LateQueue, FailedBuffer, TooLate
<1>. QED
  BY <1>1, <1>2, <1>3, <1>4, <1>5
     DEF WriterInv, StoredInOrder, LossIsLateOrCounted, MarkedOnce, BufferInOrder

(* spawn_writer establishes the inductive invariant: nothing is accepted yet. *)
LEMMA InitWriterInv == Init => WriterInv
<1>. SUFFICES ASSUME Init PROVE WriterInv
  OBVIOUS
<1>1. TypeOK
  BY InitTypeOK
<1>2. /\ queue = << >> /\ accepted = << >> /\ buffer = {} /\ stored = {}
      /\ wstate = "select" /\ sent_in = [e \in Events |-> "unsent"]
  BY DEF Init
<1>3. Queued = {} /\ Accepted = {} /\ Lost = {}
  BY <1>2 DEF Queued, Accepted, Lost
<1>. QED
  BY <1>1, <1>2, <1>3 DEF WriterInv, Conservation, StoredInOrder,
     LossIsLateOrCounted, MarkedOnce, BufferInOrder, QueueInOrder, LateQueue,
     FailedBuffer, TooLate

(* Every step preserves it; one case per action of writer.rs. *)
LEMMA NextWriterInv == WriterInv /\ [Next]_vars => WriterInv'
<1>. SUFFICES ASSUME WriterInv, [Next]_vars PROVE WriterInv'
  OBVIOUS
<1>0. TypeOK' /\ TypeOK
  BY NextTypeOK DEF WriterInv
<1>. USE DEF chan, task, db, history
<1>1. ASSUME NEW e \in Events, Offer(e) PROVE WriterInv'
  <2>1. CASE HasPermit
    BY <1>0, <1>1, <2>1, PushEvent DEF Offer, TrySend, HasPermit
  <2>2. CASE ~ HasPermit
    <3>1. /\ sent_in[e] = "unsent" /\ sent_in' = [sent_in EXCEPT ![e] = "refused"]
          /\ UNCHANGED <<queue, accepted, wstate, buffer, stored, write_failures>>
      BY <1>1, <2>2 DEF Offer, TrySend
    <3>2. Queued' = Queued /\ Accepted' = Accepted /\ Lost' = Lost
      BY <3>1 DEF Queued, Accepted, Lost
    <3>3. e \notin Accepted /\ e \notin Queued
      BY <3>1 DEF WriterInv, MarkedOnce, Conservation
    <3>4. \A x \in Events : x # e => sent_in'[x] = sent_in[x]
      BY <1>0, <3>1 DEF TypeOK
    <3>5. sent_in'[e] = "refused"
      BY <1>0, <3>1 DEF TypeOK
    <3>6. MarkedOnce'
      BY <3>2, <3>3, <3>4, <3>5 DEF WriterInv, MarkedOnce
    <3>7. LossIsLateOrCounted' /\ LateQueue'
      <4>1. Lost \subseteq Events \ {e} /\ Queued \subseteq Events \ {e}
        BY <1>0, <3>3 DEF Lost, Queued, Accepted, TypeOK
      <4>. QED
        BY <3>1, <3>2, <3>4, <4>1 DEF WriterInv, LossIsLateOrCounted, LateQueue
    <3>. QED
      BY <1>0, <3>1, <3>2, <3>6, <3>7 DEF WriterInv, Conservation, StoredInOrder,
         BufferInOrder, QueueInOrder, FailedBuffer
  <2>. QED
    BY <2>1, <2>2
<1>2. ASSUME UNCHANGED <<queue, accepted, sent_in, wstate, buffer, stored,
                         write_failures>>
      PROVE  WriterInv'
  BY <1>0, <1>2 DEF WriterInv, Conservation, Queued, Accepted, Lost,
     StoredInOrder, LossIsLateOrCounted, MarkedOnce, BufferInOrder, QueueInOrder,
     LateQueue, FailedBuffer
<1>3. ASSUME NEW c \in Callers, Shutdown(c) PROVE WriterInv'
  BY <1>2, <1>3 DEF Shutdown
<1>4. ASSUME NEW c \in Callers, SendShutdown(c) PROVE WriterInv'
  BY <1>0, <1>2, <1>4, PushCaller DEF SendShutdown
<1>5. CASE DropHandles
  BY <1>2, <1>5 DEF DropHandles
<1>6. CASE RecvEvent
  BY <1>0, <1>6, PopEvent DEF RecvEvent
<1>7. CASE RecvShutdown
  BY <1>0, <1>7, PopCaller DEF RecvShutdown
<1>8. ASSUME UNCHANGED <<queue, accepted, sent_in, buffer, stored, write_failures>>,
             wstate # "done", wstate' # "done",
             wstate' \in TooLate => Queued = {} \/ wstate \in TooLate,
             wstate' \in {"ack", "close"} => wstate \in {"ack", "close"}
      PROVE  WriterInv'
  <2>1. Queued' = Queued /\ Accepted' = Accepted /\ Lost' = Lost
    BY <1>8 DEF Queued, Accepted, Lost
  <2>2. Conservation' /\ LateQueue'
    BY <1>8, <2>1 DEF WriterInv, Conservation, LateQueue
  <2>. QED
    BY <1>0, <1>8, <2>1, <2>2 DEF WriterInv, StoredInOrder, LossIsLateOrCounted,
       MarkedOnce, BufferInOrder, QueueInOrder, FailedBuffer
<1>9. CASE RecvNone
  BY <1>8, <1>9 DEF RecvNone, Queued, TooLate
<1>10. CASE Tick
  BY <1>8, <1>10 DEF Tick, TooLate
<1>11. CASE DrainEnd
  BY <1>8, <1>11 DEF DrainEnd, Queued, TooLate
<1>12. CASE Acknowledge
  BY <1>8, <1>12 DEF Acknowledge, TooLate
<1>13. CASE FlushOk
  <2>1. /\ stored' = stored \cup buffer /\ buffer' = {}
        /\ wstate \in {"flush", "final"} /\ wstate' = AfterFlush
        /\ UNCHANGED <<queue, accepted, sent_in, write_failures>>
    BY <1>13 DEF FlushOk
  <2>2. Queued' = Queued /\ Accepted' = Accepted /\ Lost' = Lost
    BY <2>1 DEF Queued, Accepted, Lost
  <2>3. Lost = {}
    BY <2>1 DEF WriterInv, Conservation
  <2>4. Conservation'
    BY <2>1, <2>2, <2>3 DEF WriterInv, Conservation
  <2>5. StoredInOrder'
    <3>. SUFFICES ASSUME NEW i \in DOMAIN accepted, NEW j \in DOMAIN accepted,
                         i < j, accepted[j] \in stored \cup buffer
                  PROVE  accepted[i] \in stored \cup buffer
      BY <2>1 DEF StoredInOrder
    <3>1. CASE accepted[j] \in stored
      BY <3>1 DEF WriterInv, StoredInOrder
    <3>2. CASE accepted[j] \in buffer
      <4>1. accepted[i] \notin Queued /\ accepted[i] \in Accepted
        BY <3>2 DEF WriterInv, BufferInOrder, Accepted
      <4>. QED
        BY <2>3, <4>1 DEF Lost
    <3>. QED
      BY <3>1, <3>2
  <2>6. LateQueue'
    BY <2>1, <2>2 DEF WriterInv, LateQueue, AfterFlush, TooLate
  <2>7. FailedBuffer' /\ BufferInOrder'
    BY <2>1 DEF FailedBuffer, BufferInOrder
  <2>8. LossIsLateOrCounted'
    BY <2>2, <2>3 DEF LossIsLateOrCounted
  <2>. QED
    BY <1>0, <2>1, <2>2, <2>4, <2>5, <2>6, <2>7, <2>8
       DEF WriterInv, MarkedOnce, QueueInOrder
<1>14. CASE FlushFail
  <2>1. /\ wstate \in {"flush", "final"} /\ wstate' = AfterFlush
        /\ UNCHANGED <<queue, accepted, sent_in, stored, buffer>>
        /\ write_failures' > 0
    BY <1>0, <1>14, WriterAssumption DEF FlushFail, TypeOK
  <2>2. Queued' = Queued /\ Accepted' = Accepted /\ Lost' = Lost
    BY <2>1 DEF Queued, Accepted, Lost
  <2>3. Conservation' /\ LossIsLateOrCounted'
    BY <2>1, <2>2 DEF WriterInv, Conservation, LossIsLateOrCounted
  <2>4. LateQueue'
    BY <2>1, <2>2 DEF WriterInv, LateQueue, AfterFlush, TooLate
  <2>. QED
    BY <1>0, <2>1, <2>2, <2>3, <2>4 DEF WriterInv, StoredInOrder,
       MarkedOnce, BufferInOrder, QueueInOrder, FailedBuffer
<1>15. CASE DrainRecv
  BY <1>0, <1>15, PopEvent, PopCaller DEF DrainRecv
<1>16. CASE Close
  <2>1. /\ wstate = "close" /\ wstate' = "done" /\ queue' = << >> /\ buffer' = {}
        /\ UNCHANGED <<accepted, sent_in, stored, write_failures>>
    BY <1>16 DEF Close
  <2>2. /\ Queued' = {} /\ Accepted' = Accepted
        /\ Lost' = Accepted \ stored /\ Lost = {}
    BY <2>1 DEF Queued, Accepted, Lost, WriterInv, Conservation
  <2>3. Conservation'
    BY <2>1, <2>2 DEF WriterInv, Conservation
  <2>4. LossIsLateOrCounted'
    <3>. SUFFICES ASSUME NEW e \in Lost'
                  PROVE  sent_in[e] \in TooLate \/ write_failures > 0
      BY <2>1 DEF LossIsLateOrCounted
    <3>1. e \in Queued \/ e \in buffer
      BY <2>2 DEF Lost
    <3>. QED
      BY <2>1, <3>1 DEF WriterInv, LateQueue, FailedBuffer, TooLate
  <2>5. LateQueue' /\ FailedBuffer'
    BY <2>1, <2>2 DEF LateQueue, FailedBuffer
  <2>6. BufferInOrder' /\ QueueInOrder'
    BY <2>1 DEF BufferInOrder, QueueInOrder
  <2>. QED
    BY <1>0, <2>1, <2>2, <2>3, <2>4, <2>5, <2>6
       DEF WriterInv, StoredInOrder, MarkedOnce
<1>17. CASE UNCHANGED vars
  BY <1>2, <1>17 DEF vars
<1>. QED
  BY <1>1, <1>3, <1>4, <1>5, <1>6, <1>7, <1>9, <1>10, <1>11, <1>12, <1>13,
     <1>14, <1>15, <1>16, <1>17 DEF Next, WriterStep, Recv, Flush

(* The inductive invariant holds throughout: the named properties together with *)
(* where an accepted event's mark, the channel's order and its latecomers are.   *)
THEOREM WriterInvariant == Spec => []WriterInv
BY InitWriterInv, NextWriterInv, PTL DEF Spec

(* No accepted event is duplicated, and none disappears before the writer     *)
(* task ends (writer.rs, flush and run).                                      *)
THEOREM ConservationHolds == Spec => []Conservation
<1>1. WriterInv => Conservation
  BY DEF WriterInv
<1>. QED
  BY <1>1, WriterInvariant, PTL

(* Failed flushes never reorder the table (writer.rs, try_flush).             *)
THEOREM StoredInOrderHolds == Spec => []StoredInOrder
<1>1. WriterInv => StoredInOrder
  BY DEF WriterInv
<1>. QED
  BY <1>1, WriterInvariant, PTL

(* The only silent loss is that of an event accepted after the drain          *)
(* (writer.rs, drain_pending_events and run).                                 *)
THEOREM LossIsLateOrCountedHolds == Spec => []LossIsLateOrCounted
<1>1. WriterInv => LossIsLateOrCounted
  BY DEF WriterInv
<1>. QED
  BY <1>1, WriterInvariant, PTL

-----------------------------------------------------------------------------
(* The shutdown protocol.                                                    *)

(* The facts about the channel that CallerInv needs when its head is taken.   *)
LEMMA PopCallerFacts ==
  ASSUME TypeOK, CallerInv, queue # << >>, queue' = Tail(queue)
  PROVE  /\ \A i, j \in DOMAIN queue' :
              queue'[i] = queue'[j] /\ queue'[i] \in Callers => i = j
         /\ \A i \in DOMAIN queue' :
              queue'[i] \in Callers => /\ caller[queue'[i]] = "waiting"
                                       /\ queue'[i] \notin done
                                       /\ queue'[i] # Head(queue)
         /\ Head(queue) \in Callers =>
              caller[Head(queue)] = "waiting" /\ Head(queue) \notin done
<1>1. queue \in Seq(Messages)
  BY DEF TypeOK
<1>2. /\ DOMAIN queue = 1..Len(queue) /\ Len(queue) \in Nat \ {0}
      /\ Head(queue) = queue[1]
      /\ DOMAIN queue' = 1..(Len(queue) - 1)
      /\ \A i \in 1..(Len(queue) - 1) : queue'[i] = queue[i + 1]
  BY <1>1, TailFacts
<1>3. \A i \in DOMAIN queue' :
        i \in Nat /\ i + 1 \in DOMAIN queue /\ i + 1 # 1 /\ queue'[i] = queue[i + 1]
  BY <1>2
<1>4. 1 \in DOMAIN queue
  BY <1>2
<1>5. ASSUME NEW i \in DOMAIN queue', NEW j \in DOMAIN queue',
             queue'[i] = queue'[j], queue'[i] \in Callers
      PROVE  i = j
  <2>1. i + 1 = j + 1
    BY <1>3, <1>5 DEF CallerInv
  <2>. QED
    BY <1>3, <2>1
<1>6. ASSUME NEW i \in DOMAIN queue', queue'[i] \in Callers
      PROVE  /\ caller[queue'[i]] = "waiting" /\ queue'[i] \notin done
             /\ queue'[i] # Head(queue)
  BY <1>2, <1>3, <1>4, <1>6 DEF CallerInv
<1>7. Head(queue) \in Callers =>
        caller[Head(queue)] = "waiting" /\ Head(queue) \notin done
  BY <1>2, <1>4 DEF CallerInv
<1>. QED
  BY <1>5, <1>6, <1>7

(* Every step keeps each waiting shutdown() call tied to one oneshot sender. *)
LEMMA NextCallerInv == TypeOK /\ CallerInv /\ [Next]_vars => CallerInv'
<1>. SUFFICES ASSUME TypeOK, CallerInv, [Next]_vars PROVE CallerInv'
  OBVIOUS
<1>. USE DEF chan, task, db, history
<1>0. /\ queue \in Seq(Messages) /\ caller \in [Callers -> CallerStates]
      /\ done \subseteq Callers
      /\ DOMAIN queue = 1..Len(queue) /\ Len(queue) \in Nat
  BY DEF TypeOK
<1>1. ASSUME UNCHANGED <<queue, caller, done>> PROVE CallerInv'
  BY <1>1 DEF CallerInv
<1>2. ASSUME NEW e \in Events, Offer(e) PROVE CallerInv'
  <2>1. CASE HasPermit
    <3>1. queue' = Append(queue, e) /\ UNCHANGED <<caller, done>>
      BY <1>2, <2>1 DEF Offer, TrySend
    <3>2. e \in Messages /\ e \notin Callers
      BY WriterAssumption DEF Messages
    <3>3. /\ DOMAIN queue' = 1..(Len(queue) + 1)
          /\ \A i \in 1..Len(queue) : queue'[i] = queue[i]
          /\ queue'[Len(queue) + 1] = e
      BY <1>0, <3>1, <3>2, AppendFacts
    <3>4. \A i \in DOMAIN queue' :
            queue'[i] \in Callers => i \in DOMAIN queue /\ queue[i] = queue'[i]
      BY <1>0, <3>2, <3>3
    <3>. QED
      BY <3>1, <3>4 DEF CallerInv
  <2>2. CASE ~ HasPermit
    BY <1>1, <1>2, <2>2 DEF Offer, TrySend
  <2>. QED
    BY <2>1, <2>2
<1>3. ASSUME NEW c \in Callers, caller[c] # "waiting", NEW s \in CallerStates,
             caller' = [caller EXCEPT ![c] = s], UNCHANGED <<queue, done>>
      PROVE  CallerInv'
  BY <1>0, <1>3 DEF CallerInv
<1>4. ASSUME NEW c \in Callers, Shutdown(c) PROVE CallerInv'
  BY <1>3, <1>4 DEF Shutdown, CallerStates
<1>5. ASSUME NEW c \in Callers, SendShutdown(c) PROVE CallerInv'
  <2>1. CASE wstate = "done"
    BY <1>3, <1>5, <2>1 DEF SendShutdown, CallerStates, HasPermit
  <2>2. CASE wstate # "done"
    <3>1. /\ queue' = Append(queue, c) /\ caller[c] = "sending"
          /\ caller' = [caller EXCEPT ![c] = "waiting"] /\ done' = done
      BY <1>5, <2>2 DEF SendShutdown
    <3>2. c \in Messages
      BY DEF Messages
    <3>3. /\ DOMAIN queue' = 1..(Len(queue) + 1)
          /\ \A i \in 1..Len(queue) : queue'[i] = queue[i]
          /\ queue'[Len(queue) + 1] = c
      BY <1>0, <3>1, <3>2, AppendFacts
    <3>4. /\ \A i \in DOMAIN queue : queue[i] # c
          /\ c \notin done
      BY <3>1 DEF CallerInv
    <3>5. \A x \in Callers : caller'[x] = IF x = c THEN "waiting" ELSE caller[x]
      BY <1>0, <3>1
    <3>6. \A i, j \in DOMAIN queue' :
            queue'[i] = queue'[j] /\ queue'[i] \in Callers => i = j
      BY <1>0, <3>3, <3>4 DEF CallerInv
    <3>7. \A i \in DOMAIN queue' : queue'[i] \in Callers =>
             caller'[queue'[i]] = "waiting" /\ queue'[i] \notin done'
      BY <1>0, <3>1, <3>3, <3>4, <3>5 DEF CallerInv
    <3>8. \A x \in done' : caller'[x] = "waiting"
      BY <1>0, <3>1, <3>5 DEF CallerInv
    <3>. QED
      BY <3>6, <3>7, <3>8 DEF CallerInv
  <2>. QED
    BY <2>1, <2>2
<1>6. CASE DropHandles
  BY <1>1, <1>6 DEF DropHandles
<1>7. CASE RecvEvent
  BY <1>7, PopCallerFacts DEF RecvEvent, CallerInv
<1>8. CASE RecvShutdown
  BY <1>8, PopCallerFacts DEF RecvShutdown, CallerInv
<1>9. CASE RecvNone \/ Tick \/ FlushOk \/ FlushFail \/ DrainEnd
  BY <1>1, <1>9 DEF RecvNone, Tick, FlushOk, FlushFail, DrainEnd
<1>10. CASE DrainRecv
  <2>1. queue # << >> /\ queue' = Tail(queue) /\ done' = done
    BY <1>10 DEF DrainRecv
  <2>2. CASE Head(queue) \in Events /\ caller' = caller
    BY <2>1, <2>2, PopCallerFacts DEF CallerInv
  <2>3. CASE Head(queue) \in Callers
             /\ caller' = [caller EXCEPT ![Head(queue)] = "acked"]
    <3>1. \A x \in Callers : x # Head(queue) => caller'[x] = caller[x]
      BY <1>0, <2>3
    <3>2. /\ \A i, j \in DOMAIN queue' :
               queue'[i] = queue'[j] /\ queue'[i] \in Callers => i = j
          /\ \A i \in DOMAIN queue' :
               queue'[i] \in Callers => /\ caller[queue'[i]] = "waiting"
                                        /\ queue'[i] \notin done
                                        /\ queue'[i] # Head(queue)
          /\ Head(queue) \notin done
      BY <2>1, <2>3, PopCallerFacts
    <3>. QED
      BY <1>0, <2>1, <3>1, <3>2 DEF CallerInv
  <2>. QED
    BY <1>10, <2>2, <2>3 DEF DrainRecv
<1>11. CASE Acknowledge
  <2>1. /\ caller' = [c \in Callers |-> IF c \in done THEN "acked" ELSE caller[c]]
        /\ done' = {} /\ queue' = queue
    BY <1>11 DEF Acknowledge
  <2>. QED
    BY <2>1 DEF CallerInv
<1>12. CASE Close
  <2>1. /\ queue' = << >> /\ done' = done
        /\ caller' = [c \in Callers |->
                        IF \E i \in DOMAIN queue : queue[i] = c
                        THEN "dropped" ELSE caller[c]]
    BY <1>12 DEF Close
  <2>2. \A c \in done : caller'[c] = "waiting"
    BY <1>0, <2>1 DEF CallerInv
  <2>. QED
    BY <2>1, <2>2 DEF CallerInv
<1>13. CASE UNCHANGED vars
  BY <1>1, <1>13 DEF vars
<1>. QED
  BY <1>2, <1>4, <1>5, <1>6, <1>7, <1>8, <1>9, <1>10, <1>11, <1>12, <1>13
     DEF Next, WriterStep, Recv, Flush

(* A shutdown() call waits for exactly one oneshot sender: in its queued message, *)
(* or held by run() until its end (writer.rs, shutdown and run).                  *)
THEOREM CallerInvariant == Spec => []CallerInv
<1>1. Init => CallerInv
  BY DEF Init, CallerInv
<1>. QED
  BY <1>1, NextCallerInv, TypeCorrect, PTL DEF Spec

(* shutdown()'s answer from run() comes after the last flush: what was        *)
(* accepted in time is stored, or the failure is counted (writer.rs, run).    *)
THEOREM AcknowledgedMeansWrittenHolds == Spec => AcknowledgedMeansWritten
<1>. DEFINE Written(c) == caller'[c] = "acked" =>
              \A e \in Accepted :
                sent_in[e] \in TooLate \/ e \in stored \/ write_failures > 0
<1>1. ASSUME WriterInv, CallerInv, [Next]_vars, NEW c \in done
      PROVE  Written(c)
  <2>. SUFFICES ASSUME caller'[c] = "acked"
                PROVE  \A e \in Accepted :
                         sent_in[e] \in TooLate \/ e \in stored \/ write_failures > 0
    OBVIOUS
  <2>. USE DEF chan, task, db, history
  <2>0. /\ caller \in [Callers -> CallerStates] /\ c \in Callers
        /\ caller[c] = "waiting"
    BY <1>1 DEF WriterInv, TypeOK, CallerInv
  <2>1. CASE Acknowledge
    <3>1. wstate = "ack" /\ Lost = {}
      BY <1>1, <2>1 DEF Acknowledge, WriterInv, Conservation
    <3>. QED
      BY <1>1, <3>1 DEF WriterInv, LateQueue, FailedBuffer, Lost, TooLate
  <2>2. CASE DrainRecv
    <3>1. queue # << >> /\ queue' = Tail(queue) /\ TypeOK
      BY <1>1, <2>2 DEF DrainRecv, WriterInv
    <3>2. Head(queue) \in Callers => Head(queue) # c
      BY <1>1, <3>1, PopCallerFacts
    <3>3. caller'[c] = caller[c]
      BY <2>0, <2>2, <3>2 DEF DrainRecv
    <3>. QED
      BY <2>0, <3>3
  <2>3. CASE \E e \in Events : Offer(e)
    BY <2>0, <2>3 DEF Offer, TrySend
  <2>4. CASE \E d \in Callers : Shutdown(d) \/ SendShutdown(d)
    <3>1. PICK d \in Callers : Shutdown(d) \/ SendShutdown(d)
      BY <2>4
    <3>2. d # c
      BY <2>0, <3>1 DEF Shutdown, SendShutdown
    <3>. QED
      BY <2>0, <3>1, <3>2 DEF Shutdown, SendShutdown
  <2>5. CASE DropHandles \/ RecvEvent \/ RecvShutdown \/ RecvNone \/ Tick
             \/ FlushOk \/ FlushFail \/ DrainEnd \/ UNCHANGED vars
    BY <2>0, <2>5 DEF DropHandles, RecvEvent, RecvShutdown, RecvNone, Tick,
       FlushOk, FlushFail, DrainEnd, vars
  <2>6. CASE Close
    BY <2>0, <2>6 DEF Close
  <2>. QED
    BY <1>1, <2>1, <2>2, <2>3, <2>4, <2>5, <2>6 DEF Next, WriterStep, Recv, Flush
<1>2. WriterInv /\ CallerInv /\ [Next]_vars
        => [\A c \in done : Written(c)]_vars
  BY <1>1
<1>. QED
  BY <1>2, WriterInvariant, CallerInvariant, PTL DEF Spec, AcknowledgedMeansWritten

-----------------------------------------------------------------------------
(* Refinement of EventLog.                                                   *)

(* Every step of the writer is a step of EventLog or invisible to it. *)
LEMMA StepRefines == WriterInv /\ [Next]_vars => [Log!Next]_(Log!vars)
<1>. SUFFICES ASSUME WriterInv, [Next]_vars PROVE [Log!Next]_(Log!vars)
  OBVIOUS
<1>. USE DEF chan, task, db, history
<1>. DEFINE pending == Queued \cup buffer
<1>1. ASSUME UNCHANGED <<accepted, stored>>, pending' = pending,
             (wstate # "done") = (wstate' # "done")
      PROVE  [Log!Next]_(Log!vars)
  BY <1>1 DEF Log!vars
<1>2. ASSUME NEW e \in Events, Offer(e) PROVE [Log!Next]_(Log!vars)
  <2>1. CASE HasPermit
    <3>1. /\ queue' = Append(queue, e) /\ accepted' = Append(accepted, e)
          /\ sent_in[e] = "unsent" /\ wstate # "done"
          /\ UNCHANGED <<wstate, buffer, stored>>
      BY <1>2, <2>1 DEF Offer, TrySend, HasPermit
    <3>2. queue \in Seq(Messages) /\ e \in Messages
      BY DEF WriterInv, TypeOK, Messages
    <3>3. Elements(queue') = Elements(queue) \cup {e}
      BY <3>1, <3>2, AppendFacts
    <3>4. pending' = pending \cup {e}
      BY <3>1, <3>3 DEF Queued, Elements
    <3>5. e \notin Log!Accepted
      BY <3>1 DEF WriterInv, MarkedOnce, Accepted, Log!Accepted
    <3>6. Log!Accept(e)
      BY <3>1, <3>4, <3>5 DEF Log!Accept
    <3>. QED
      BY <3>6 DEF Log!Next
  <2>2. CASE ~ HasPermit
    BY <1>1, <1>2, <2>2 DEF Offer, TrySend, Queued
  <2>. QED
    BY <2>1, <2>2
<1>3. ASSUME NEW c \in Callers, Shutdown(c) PROVE [Log!Next]_(Log!vars)
  BY <1>1, <1>3 DEF Shutdown, Queued
<1>4. ASSUME NEW c \in Callers, SendShutdown(c) PROVE [Log!Next]_(Log!vars)
  <2>1. CASE queue' = Append(queue, c)
    <3>1. queue \in Seq(Messages) /\ c \in Messages /\ c \notin Events
      BY WriterAssumption DEF WriterInv, TypeOK, Messages
    <3>2. Elements(queue') = Elements(queue) \cup {c}
      BY <2>1, <3>1, AppendFacts
    <3>3. Queued' = Queued
      BY <3>1, <3>2 DEF Queued, Elements
    <3>. QED
      BY <1>1, <1>4, <3>3 DEF SendShutdown
  <2>2. CASE queue' = queue
    BY <1>1, <1>4, <2>2 DEF SendShutdown, Queued
  <2>. QED
    BY <1>4, <2>1, <2>2 DEF SendShutdown
<1>5. CASE DropHandles
  BY <1>1, <1>5 DEF DropHandles, Queued
<1>6. CASE RecvEvent
  <2>1. Queued = Queued' \cup {Head(queue)}
    BY <1>6, PopQueue DEF RecvEvent
  <2>. QED
    BY <1>1, <1>6, <2>1 DEF RecvEvent
<1>7. CASE RecvShutdown
  <2>1. Queued = Queued'
    BY <1>7, PopQueue, WriterAssumption DEF RecvShutdown
  <2>. QED
    BY <1>1, <1>7, <2>1 DEF RecvShutdown
<1>8. CASE RecvNone
  BY <1>1, <1>8 DEF RecvNone, Queued
<1>9. CASE Tick
  BY <1>1, <1>9 DEF Tick, Queued
<1>10. CASE FlushOk
  <2>1. /\ stored' = stored \cup buffer /\ buffer' = {}
        /\ UNCHANGED <<queue, accepted>>
        /\ wstate # "done" /\ wstate' # "done"
    BY <1>10 DEF FlushOk, AfterFlush
  <2>2. Queued' = Queued /\ Queued \cap buffer = {}
    BY <2>1 DEF WriterInv, Conservation, Queued
  <2>3. CASE buffer = {}
    BY <1>1, <2>1, <2>2, <2>3
  <2>4. CASE buffer # {}
    <3>1. ASSUME NEW a \in buffer, NEW b \in pending \ buffer
          PROVE  ~ Log!Earlier(b, a)
      BY DEF WriterInv, BufferInOrder, Log!Earlier
    <3>2. buffer \in SUBSET pending
      OBVIOUS
    <3>3. pending' = pending \ buffer
      BY <2>1, <2>2
    <3>4. Log!Commit
      BY <2>1, <2>4, <3>1, <3>2, <3>3 DEF Log!Commit
    <3>. QED
      BY <3>4 DEF Log!Next
  <2>. QED
    BY <2>3, <2>4
<1>11. CASE FlushFail
  BY <1>1, <1>11 DEF FlushFail, AfterFlush, Queued
<1>12. CASE DrainRecv
  <2>1. Queued = Queued' \cup ({Head(queue)} \cap Events)
    BY <1>12, PopQueue DEF DrainRecv
  <2>2. pending' = pending
    BY <1>12, <2>1, WriterAssumption DEF DrainRecv
  <2>. QED
    BY <1>1, <1>12, <2>2 DEF DrainRecv
<1>13. CASE DrainEnd
  BY <1>1, <1>13 DEF DrainEnd, Queued
<1>14. CASE Acknowledge
  BY <1>1, <1>14 DEF Acknowledge, Queued
<1>15. CASE Close
  <2>1. pending' = {}
    BY <1>15 DEF Close, Queued
  <2>2. Log!Close
    BY <1>15, <2>1 DEF Close, Log!Close
  <2>. QED
    BY <2>2 DEF Log!Next
<1>16. CASE UNCHANGED vars
  BY <1>1, <1>16 DEF vars, Queued
<1>. QED
  BY <1>2, <1>3, <1>4, <1>5, <1>6, <1>7, <1>8, <1>9, <1>10, <1>11, <1>12,
     <1>13, <1>14, <1>15, <1>16 DEF Next, WriterStep, Recv, Flush

(* The writer keeps EventLog's promise: each of its steps accepts an event,   *)
(* commits an oldest-first batch, closes, or is invisible.                    *)
THEOREM Refinement == Spec => ImplementsEventLog
<1>1. Init => Log!Init
  BY DEF Init, Log!Init, Queued
<1>2. WriterInv /\ [Next]_vars => [Log!Next]_(Log!vars)
  BY StepRefines
<1>. QED
  BY <1>1, <1>2, WriterInvariant, PTL DEF Spec, ImplementsEventLog, Log!Spec
=============================================================================

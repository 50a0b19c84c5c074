------------------------------ MODULE EventLog ------------------------------
(* What the SQLite writer promises to the code that hands it proxy events,   *)
(* free of queues, buffers, transactions and counters: an accepted event     *)
(* waits, waiting events reach the table in the order they were accepted,    *)
(* and only the writer's termination may discard the ones still waiting.     *)
EXTENDS Naturals, Sequences

CONSTANT Events                 \* the proxy events offered to the writer

VARIABLES accepted,             \* the events taken over, in arrival order
          pending,              \* accepted, not yet in the table
          stored,               \* rows of the table proxy_events
          open                  \* the writer task still owns its channel

vars == <<accepted, pending, stored, open>>

Accepted == { accepted[i] : i \in DOMAIN accepted }

\* a was accepted before b.
Earlier(a, b) ==
  \E i, j \in DOMAIN accepted : i < j /\ accepted[i] = a /\ accepted[j] = b

Init ==
  /\ accepted = << >>
  /\ pending = {}
  /\ stored = {}
  /\ open = TRUE

Accept(e) ==
  /\ open
  /\ e \notin Accepted
  /\ accepted' = Append(accepted, e)
  /\ pending' = pending \cup {e}
  /\ UNCHANGED <<stored, open>>

\* One transaction: a batch no waiting event outside of which is older.
Commit ==
  /\ open
  /\ \E batch \in SUBSET pending :
       /\ batch # {}
       /\ \A a \in batch, b \in pending \ batch : ~ Earlier(b, a)
       /\ stored' = stored \cup batch
       /\ pending' = pending \ batch
  /\ UNCHANGED <<accepted, open>>

Close ==
  /\ open
  /\ open' = FALSE
  /\ pending' = {}
  /\ UNCHANGED <<accepted, stored>>

Next == (\E e \in Events : Accept(e)) \/ Commit \/ Close

Spec == Init /\ [][Next]_vars
=============================================================================

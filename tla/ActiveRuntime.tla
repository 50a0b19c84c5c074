--------------------------- MODULE ActiveRuntime ---------------------------
(* One running proxy: the server task of ProxyApp::start with the exchanges  *)
(* it serves, the SQLite writer they send their events to, and the owner     *)
(* that stops both (src/src/proxy.rs ProxyHandle, src/src/runtime_manager.rs *)
(* shutdown_active_runtime). An exchange is also the name of its event.      *)
EXTENDS Exchange, FiniteSets

CONSTANTS Owner,           \* the one caller of SqliteWriterHandle::shutdown
          MaxInflight, FlushRows, MaxInsertRows, MaxFailures

\* Events are not callers; the sizes are positive, as the writer assumes.
ASSUME RuntimeAssumption ==
  /\ Owner \notin Exchanges
  /\ {MaxInflight, FlushRows, MaxInsertRows, MaxFailures} \subseteq Nat \ {0}

VARIABLES server,          \* the task spawned by ProxyApp::start
          stop,            \* stop_tx was used or dropped, or the OS signalled
          connected,       \* exchanges whose connection the server accepted
          owner,           \* progress of whoever owns the ActiveRuntime
          outlived,        \* history: exchanges alive when the writer was told
          queue, handles, wstate, buffer, stored, dropped_events,
          write_failures, done, caller, accepted, sent_in

W == INSTANCE SqliteWriter WITH Events <- Exchanges, Callers <- {Owner}

wvars == <<queue, handles, wstate, buffer, stored, dropped_events,
           write_failures, done, caller, accepted, sent_in>>
pvars == <<server, stop, connected, owner, outlived>>
vars == <<xvars, pvars, wvars>>

(* binding   the listener is not bound yet                                   *)
(* serving   accepting; stopping: the shutdown signal was seen               *)
(* ended     returned Ok; failed: bind error; limit: graceful limit exceeded *)
(* aborted   cancelled by ProxyHandle::shutdown                              *)
ServerStates == {"binding", "serving", "stopping", "ended", "failed", "limit", "aborted"}
Over == {"ended", "failed", "limit", "aborted"}

(* running   in the manager's slot; stopping: ProxyHandle::shutdown          *)
(* draining  SqliteWriterHandle::shutdown; stopped: both returned            *)
(* failed    handle.shutdown() was an error; dropped: never shut down        *)
OwnerStates == {"running", "stopping", "draining", "stopped", "failed", "dropped"}

\* Connections with a request to come or under way: each holds a handle.
Live == { x \in connected : stage[x] \in {"new", "upstream", "buffering", "body"} }

TypeOK ==
  /\ ExchangeTypeOK
  /\ W!TypeOK
  /\ server \in ServerStates
  /\ stop \in BOOLEAN
  /\ owner \in OwnerStates
  /\ connected \in SUBSET Exchanges
  /\ outlived \in SUBSET Exchanges

\* start_active_runtime returned: the writer runs, the server task is spawned.
Init ==
  /\ ExchangeInit
  /\ W!Init
  /\ server = "binding"
  /\ stop = FALSE
  /\ connected = {}
  /\ owner = "running"
  /\ outlived = {}

-----------------------------------------------------------------------------
(* Connections and exchanges. A connection is a task of its own that the end  *)
(* of the server task does not stop.                                          *)

\* The accept loop hands the connection of x to the HTTP server.
Accept(x) ==
  /\ server \in {"serving", "stopping"}
  /\ stage[x] = "new"
  /\ x \notin connected
  /\ connected' = connected \cup {x}
  /\ UNCHANGED <<server, stop, owner, outlived, xvars, wvars>>

\* The connection closes without a request.
Disconnect(x) ==
  /\ x \in connected
  /\ stage[x] = "new"
  /\ connected' = connected \ {x}
  /\ UNCHANGED <<server, stop, owner, outlived, xvars, wvars>>

\* A step of the exchange; finalize_and_send hands the event to the writer.
Serve(x) ==
  /\ x \in connected
  /\ ExchangeStep(x)
  /\ IF events'[x] # events[x] THEN W!TrySend(x) ELSE UNCHANGED wvars
  /\ UNCHANGED pvars

-----------------------------------------------------------------------------
(* The server task.                                                          *)

\* The bind happens inside the task, after start() has returned.
Bind ==
  /\ server = "binding"
  /\ server' \in {"serving", "failed"}
  /\ UNCHANGED <<stop, connected, owner, outlived, xvars, wvars>>

\* SIGINT or SIGTERM, seen through default_signal().
Signal ==
  /\ ~ stop
  /\ stop' = TRUE
  /\ UNCHANGED <<server, connected, owner, outlived, xvars, wvars>>

\* wait_for_shutdown_signal resolves.
BeginGraceful ==
  /\ server = "serving" /\ stop
  /\ server' = "stopping"
  /\ UNCHANGED <<stop, connected, owner, outlived, xvars, wvars>>

\* The task's select!: the accept loop ends, which needs no connection to be
\* over, or the graceful limit passes while one is still alive.
EndTask ==
  /\ server = "stopping"
  /\ \/ server' = "ended"
     \/ Live # {} /\ server' = "limit"
  /\ UNCHANGED <<stop, connected, owner, outlived, xvars, wvars>>

-----------------------------------------------------------------------------
(* The owner.                                                                *)

\* ProxyHandle::shutdown sends the stop signal.
BeginShutdown ==
  /\ owner = "running"
  /\ owner' = "stopping"
  /\ stop' = TRUE
  /\ UNCHANGED <<server, connected, outlived, xvars, wvars>>

\* handle.shutdown() returned Ok: active.writer.shutdown() is called.
StopWriter ==
  /\ owner' = "draining"
  /\ outlived' = Live
  /\ W!Shutdown(Owner)
  /\ UNCHANGED <<stop, connected, xvars>>

\* The task is joined within 5 seconds; `?` returns its error at once.
JoinTask ==
  /\ owner = "stopping"
  /\ \/ server \in {"ended", "aborted"} /\ StopWriter
     \/ /\ server \in {"failed", "limit"}
        /\ owner' = "failed"
        /\ UNCHANGED <<stop, connected, outlived, xvars, wvars>>
  /\ UNCHANGED server

\* 5 seconds passed: the task is aborted, which is no error.
AbortTask ==
  /\ owner = "stopping"
  /\ server \notin Over
  /\ server' = "aborted"
  /\ StopWriter

\* The send loop of SqliteWriterHandle::shutdown gets its message through.
SendShutdown ==
  /\ W!SendShutdown(Owner)
  /\ UNCHANGED <<pvars, xvars>>

\* Mutant: the oneshot answer is not awaited.
WriterStoppedNoWait ==
  /\ owner = "draining"
  /\ caller[Owner] # "sending"
  /\ owner' = "stopped"
  /\ UNCHANGED <<server, stop, connected, outlived, xvars, wvars>>

\* active.writer.shutdown() returned.
WriterStopped ==
  /\ owner = "draining"
  /\ caller[Owner] \in {"acked", "dropped"}
  /\ owner' = "stopped"
  /\ UNCHANGED <<server, stop, connected, outlived, xvars, wvars>>

\* reload_inner returns early: `previous` is dropped, and stop_tx with it.
DropRuntime ==
  /\ owner = "running"
  /\ owner' = "dropped"
  /\ stop' = TRUE
  /\ UNCHANGED <<server, connected, outlived, xvars, wvars>>

\* The ActiveRuntime, the server task and every exchange held a handle.
DropHandles ==
  /\ owner \in {"stopped", "failed", "dropped"}
  /\ server \in Over
  /\ Live = {}
  /\ W!DropHandles
  /\ UNCHANGED <<pvars, xvars>>

WriterStep == W!WriterStep /\ UNCHANGED <<pvars, xvars>>

OwnerStep == JoinTask \/ AbortTask \/ SendShutdown \/ WriterStopped \/ DropHandles
ServerStep == Bind \/ BeginGraceful \/ EndTask

Next ==
  \/ \E x \in Exchanges : Accept(x) \/ Disconnect(x) \/ Serve(x)
  \/ ServerStep \/ Signal
  \/ BeginShutdown \/ DropRuntime \/ OwnerStep
  \/ WriterStep

(* Tasks are scheduled and timers fire. Nothing is assumed of clients and     *)
(* backends: an exchange may stay alive for ever.                             *)
Fairness ==
  /\ WF_vars(OwnerStep) /\ WF_vars(ServerStep)
  /\ WF_vars(WriterStep)
  /\ SF_vars(W!Recv /\ UNCHANGED <<pvars, xvars>>) /\ SF_vars(SendShutdown)

Spec == Init /\ [][Next]_vars
FairSpec == Spec /\ Fairness

-----------------------------------------------------------------------------
(* Properties.                                                               *)

(* The writer's accounting holds for what the proxy really sends it: each     *)
(* answered exchange was offered exactly once, and is in the channel, in the  *)
(* buffer, in the table, counted as dropped, or lost at the writer's end.     *)
PipelineAccounting ==
  /\ W!Conservation
  /\ \A x \in Exchanges : events[x] = << >> <=> sent_in[x] = "unsent"
  /\ dropped_events = Cardinality({ x \in Exchanges : sent_in[x] = "refused" })

(* An exchange whose event is neither stored nor counted anywhere had a       *)
(* connection when the owner told the writer to stop: stopping a quiet proxy, or   *)
(* dropping a runtime without shutting it down, loses nothing silently.       *)
OnlyOutlivedIsLost ==
  \A x \in W!Lost : x \in outlived \/ write_failures > 0

(* shutdown_active_runtime returns Ok only after the writer has done its last *)
(* flush, whichever way the server task ended.                                *)
StoppedMeansFlushed ==
  owner = "stopped" => wstate \in {"close", "done"}

(* Stopping a runtime terminates, although exchanges may never end: the task  *)
(* is aborted after 5 seconds and the drain waits for the channel only.       *)
ShutdownTerminates == (owner = "stopping") ~> (owner \in {"stopped", "failed"})

(* A runtime whose writer is never told to stop (handle.shutdown() failed, or *)
(* the runtime was dropped by a failed reload) still flushes and ends once    *)
(* its last exchange is over.                                                 *)
AbandonedWriterEnds ==
  (owner \in {"failed", "dropped"} /\ server \in Over /\ Live = {})
     ~> (wstate = "done" /\ buffer = {})
=============================================================================

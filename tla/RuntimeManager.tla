--------------------------- MODULE RuntimeManager ---------------------------
(* src/src/runtime_manager.rs: saving the config file and replacing the      *)
(* running proxy, with the admin handlers that call them running at the same *)
(* time. A reload and a save release the controller lock between their       *)
(* steps, so each step here is what happens between two lock operations,     *)
(* file-system calls or awaits.                                              *)
(*                                                                           *)
(* A runtime is named after the call that started it: Boot, or a reload      *)
(* (which starts one at most). ActiveRuntime models the inside of a runtime. *)
EXTENDS Naturals, FiniteSets

CONSTANTS Configs,       \* valid contents of the config file
          Addrs,         \* socket addresses
          ListenAddr,    \* listen_addr of each config
          ForeignAddrs,  \* addresses another process listens on
          Reloads,       \* calls of RuntimeManager::reload
          Saves,         \* calls of RuntimeManager::save_config
          Boot,          \* RuntimeManager::start
          NotJson,       \* a file that is truncated, half written or written
                         \* by two saves at once
          NoConfig,      \* where there is no config yet
          Sigterm        \* whether the process may be sent SIGTERM (or SIGINT,
                         \* while the admin server is still up)

Runtimes == {Boot} \cup Reloads
Nobody == "nobody"

ASSUME ManagerAssumption ==
  /\ Configs # {}
  /\ ListenAddr \in [Configs -> Addrs]
  /\ ForeignAddrs \subseteq Addrs
  /\ Boot \notin Reloads
  /\ Nobody \notin Runtimes
  /\ {NotJson, NoConfig} \cap Configs = {}
  /\ Sigterm \in BOOLEAN

VARIABLES disk,          \* the config file: a config, or NotJson
          active,        \* RuntimeController.active, a runtime or Nobody
          proxy,         \* every runtime: its config and its server task
          snapshot,      \* RuntimeManagerState
          reload,        \* program counter and locals of each reload
          save,          \* program counter and locals of each save
          main           \* main(): serving the admin UI, or its shutdown

vars == <<disk, active, proxy, snapshot, reload, save, main>>

TaskStates == {"none", "binding", "serving", "stopping", "over", "failed"}
\* Where a reload owns `previous` and the controller's slot is empty.
Section == {"load", "stop", "join", "release", "start", "publish", "fallback",
            "restore"}
Finished == {"idle", "ok", "err"}
ReloadSteps ==
  Section \cup Finished \cup {"summary", "snapshot", "note_restore", "note_failure"}
SaveSteps == Finished \cup {"compare", "truncate", "write", "snapshot"}

ProxyRecord ==
  [cfg : Configs \cup {NoConfig}, state : TaskStates, stop : BOOLEAN]
RuntimeManagerState ==
  [saved_config : Configs, active_runtime : Configs,
   pending_reload : BOOLEAN, last_reload_error : BOOLEAN]
ReloadRecord ==
  [pc : ReloadSteps, previous : Runtimes \cup {Nobody},
   loaded : Configs \cup {NoConfig}, summary : Configs \cup {NoConfig}]
SaveRecord ==
  [pc : SaveSteps, cfg : Configs \cup {NoConfig}, active_matches : BOOLEAN]

TypeOK ==
  /\ disk \in Configs \cup {NotJson}
  /\ active \in Runtimes \cup {Nobody}
  /\ proxy \in [Runtimes -> ProxyRecord]
  /\ snapshot \in RuntimeManagerState
  /\ reload \in [Reloads -> ReloadRecord]
  /\ save \in [Saves -> SaveRecord]
  /\ main \in {"serving", "stopping", "exit_err"}

\* RuntimeManager::start: the file was loaded and its runtime started.
Init ==
  \E c \in Configs :
    /\ disk = c
    /\ active = Boot
    /\ proxy = [i \in Runtimes |->
                  IF i = Boot THEN [cfg |-> c, state |-> "binding", stop |-> FALSE]
                  ELSE [cfg |-> NoConfig, state |-> "none", stop |-> FALSE]]
    /\ snapshot = [saved_config |-> c, active_runtime |-> c,
                   pending_reload |-> FALSE, last_reload_error |-> FALSE]
    /\ reload = [r \in Reloads |-> [pc |-> "idle", previous |-> Nobody,
                                    loaded |-> NoConfig, summary |-> NoConfig]]
    /\ save = [s \in Saves |-> [pc |-> "idle", cfg |-> NoConfig,
                                active_matches |-> FALSE]]
    /\ main = "serving"

-----------------------------------------------------------------------------
(* Server tasks (ProxyApp::start, see ActiveRuntime) and their addresses.     *)

Listening(i) == proxy[i].state \in {"serving", "stopping"}
Held(a) == a \in ForeignAddrs
           \/ \E i \in Runtimes : Listening(i) /\ ListenAddr[proxy[i].cfg] = a

\* The task binds after start() returned; a failure ends the task silently.
Bind(i) ==
  /\ proxy[i].state = "binding"
  /\ proxy' = [proxy EXCEPT ![i].state =
                 IF Held(ListenAddr[proxy[i].cfg]) THEN "failed" ELSE "serving"]
  /\ UNCHANGED <<disk, active, snapshot, reload, save, main>>

\* The stop signal, or a dropped stop_tx, is seen; then the listener closes.
TaskStops(i) ==
  /\ proxy[i].stop
  /\ \/ proxy[i].state = "serving" /\ proxy' = [proxy EXCEPT ![i].state = "stopping"]
     \/ proxy[i].state = "stopping" /\ proxy' = [proxy EXCEPT ![i].state = "over"]
  /\ UNCHANGED <<disk, active, snapshot, reload, save, main>>

\* wait_for_shutdown_signal also listens to SIGTERM, which main() does not:
\* the admin server goes on. A task that is still starting may not listen yet.
Signal ==
  /\ Sigterm
  /\ \E deaf \in SUBSET { i \in Runtimes : proxy[i].state = "binding" } :
       proxy' = [i \in Runtimes |->
                   [proxy[i] EXCEPT !.stop = @ \/ (proxy[i].state \in {"binding", "serving"}
                                                     /\ i \notin deaf)]]
  /\ UNCHANGED <<disk, active, snapshot, reload, save, main>>

\* start_active_runtime(c): spawn_writer and ProxyApp::new can fail, the bind
\* cannot be seen to.
Started(i, c) ==
  proxy' = [proxy EXCEPT ![i] = [cfg |-> c, state |-> "binding", stop |-> FALSE]]

-----------------------------------------------------------------------------
(* reload_inner.                                                             *)

Goto(r, l) == reload' = [reload EXCEPT ![r].pc = l]

\* Mutant: the slot is cloned from, not taken.
ReloadTakeClone(r) ==
  /\ main = "serving"
  /\ reload[r].pc = "idle"
  /\ active # Nobody
  /\ reload' = [reload EXCEPT ![r].pc = "load", ![r].previous = active]
  /\ UNCHANGED <<disk, active, proxy, snapshot, save, main>>

\* controller.active.take(); nothing to take is an error.
ReloadTake(r) ==
  /\ main = "serving"
  /\ reload[r].pc = "idle"
  /\ IF active = Nobody
     THEN Goto(r, "err") /\ UNCHANGED active
     ELSE /\ reload' = [reload EXCEPT ![r].pc = "load", ![r].previous = active]
          /\ active' = Nobody
  /\ UNCHANGED <<disk, proxy, snapshot, save, main>>

\* load_json and to_runtime_config succeed.
ReloadLoad(r) ==
  /\ reload[r].pc = "load"
  /\ disk \in Configs
  /\ reload' = [reload EXCEPT ![r].pc = "stop", ![r].loaded = disk]
  /\ UNCHANGED <<disk, active, proxy, snapshot, save, main>>

\* Mutant: dropping a ProxyHandle does not stop its task.
ReloadLoadFailsDetached(r) ==
  /\ reload[r].pc = "load"
  /\ Goto(r, "err")
  /\ UNCHANGED <<disk, active, proxy, snapshot, save, main>>

\* The file does not parse, or names files that are gone: `?` drops previous.
ReloadLoadFails(r) ==
  /\ reload[r].pc = "load"
  /\ Goto(r, "err")
  /\ proxy' = [proxy EXCEPT ![reload[r].previous].stop = TRUE]
  /\ UNCHANGED <<disk, active, snapshot, save, main>>

\* Mutant: the next runtime is started as soon as the signal is sent.
ReloadStopNoWait(r) ==
  /\ reload[r].pc = "stop"
  /\ Goto(r, "start")
  /\ proxy' = [proxy EXCEPT ![reload[r].previous].stop = TRUE]
  /\ UNCHANGED <<disk, active, snapshot, save, main>>

\* shutdown_active_runtime(previous): the stop signal is sent ...
ReloadStop(r) ==
  /\ reload[r].pc = "stop"
  /\ Goto(r, "join")
  /\ proxy' = [proxy EXCEPT ![reload[r].previous].stop = TRUE]
  /\ UNCHANGED <<disk, active, snapshot, save, main>>

\* ... and the task is joined, or aborted after 5 seconds; then the writer is
\* shut down, a wait without a limit that SqliteWriter and ActiveRuntime model:
\* here it ends, and nothing of it shows in this module's state. An error of
\* either is only logged.
ReloadJoin(r) ==
  /\ reload[r].pc = "join"
  /\ Goto(r, "release")
  /\ proxy' = [proxy EXCEPT ![reload[r].previous].state =
                 IF @ = "failed" THEN @ ELSE "over"]
  /\ UNCHANGED <<disk, active, snapshot, save, main>>

\* wait_for_listener_release: previous's address can be bound again ...
ReloadReleased(r) ==
  /\ reload[r].pc = "release"
  /\ ~ Held(ListenAddr[proxy[reload[r].previous].cfg])
  /\ Goto(r, "start")
  /\ UNCHANGED <<disk, active, proxy, snapshot, save, main>>

\* Mutant: the wait has no deadline.
ReloadNotReleasedRetries(r) ==
  /\ reload[r].pc = "release"
  /\ Held(ListenAddr[proxy[reload[r].previous].cfg])
  /\ UNCHANGED vars

\* ... or 5 seconds pass, and `?` leaves the slot empty.
ReloadNotReleased(r) ==
  /\ reload[r].pc = "release"
  /\ Held(ListenAddr[proxy[reload[r].previous].cfg])
  /\ Goto(r, "err")
  /\ UNCHANGED <<disk, active, proxy, snapshot, save, main>>

ReloadStart(r) ==
  /\ reload[r].pc = "start"
  /\ \/ Goto(r, "publish") /\ Started(r, reload[r].loaded)
     \/ Goto(r, "fallback") /\ UNCHANGED proxy
  /\ UNCHANGED <<disk, active, snapshot, save, main>>

\* Mutant: the summary is not refreshed.
ReloadPublishOnly(r) ==
  /\ reload[r].pc = "publish"
  /\ active' = r
  /\ Goto(r, "snapshot")
  /\ UNCHANGED <<disk, proxy, snapshot, save, main>>

\* controller.active = Some(active).
ReloadPublish(r) ==
  /\ reload[r].pc = "publish"
  /\ active' = r
  /\ Goto(r, "summary")
  /\ UNCHANGED <<disk, proxy, snapshot, save, main>>

\* runtime_summary: what the sidebar shows is derived from the config.
RuntimeSummary(i) == proxy[i].cfg

\* The slot is read again, after the lock was released.
ReloadSummary(r) ==
  /\ reload[r].pc = "summary"
  /\ IF active = Nobody THEN Goto(r, "err")
     ELSE reload' = [reload EXCEPT ![r].pc = "snapshot",
                                   ![r].summary = RuntimeSummary(active)]
  /\ UNCHANGED <<disk, active, proxy, snapshot, save, main>>

ReloadSnapshot(r) ==
  /\ reload[r].pc = "snapshot"
  /\ snapshot' = [saved_config |-> reload[r].loaded,
                  active_runtime |-> reload[r].summary,
                  pending_reload |-> FALSE, last_reload_error |-> FALSE]
  /\ Goto(r, "ok")
  /\ UNCHANGED <<disk, active, proxy, save, main>>

\* Mutant: the fallback retries the new config.
ReloadFallbackLoaded(r) ==
  /\ reload[r].pc = "fallback"
  /\ \/ Goto(r, "restore") /\ Started(r, reload[r].loaded)
     \/ Goto(r, "note_failure") /\ UNCHANGED proxy
  /\ UNCHANGED <<disk, active, snapshot, save, main>>

\* The new runtime did not start: the previous config is started again.
ReloadFallback(r) ==
  /\ reload[r].pc = "fallback"
  /\ \/ Goto(r, "restore") /\ Started(r, proxy[reload[r].previous].cfg)
     \/ Goto(r, "note_failure") /\ UNCHANGED proxy
  /\ UNCHANGED <<disk, active, snapshot, save, main>>

ReloadRestore(r) ==
  /\ reload[r].pc = "restore"
  /\ active' = r
  /\ Goto(r, "note_restore")
  /\ UNCHANGED <<disk, proxy, snapshot, save, main>>

ReloadNote(r) ==
  /\ \/ /\ reload[r].pc = "note_restore"
        /\ snapshot' = [snapshot EXCEPT !.last_reload_error = TRUE,
                                        !.pending_reload = TRUE]
     \/ /\ reload[r].pc = "note_failure"
        /\ snapshot' = [snapshot EXCEPT !.last_reload_error = TRUE]
  /\ Goto(r, "err")
  /\ UNCHANGED <<disk, active, proxy, save, main>>

ReloadStep(r) ==
  \/ ReloadLoad(r) \/ ReloadLoadFails(r) \/ ReloadStop(r) \/ ReloadJoin(r)
  \/ ReloadReleased(r) \/ ReloadNotReleased(r) \/ ReloadStart(r)
  \/ ReloadPublish(r) \/ ReloadSummary(r) \/ ReloadSnapshot(r)
  \/ ReloadFallback(r) \/ ReloadRestore(r) \/ ReloadNote(r)

-----------------------------------------------------------------------------
(* save_config.                                                              *)

\* to_runtime_config accepts the draft, or nothing happens at all.
SaveBegin(s, c) ==
  /\ main = "serving"
  /\ save[s].pc = "idle"
  /\ save' = [save EXCEPT ![s].pc = "compare", ![s].cfg = c]
  /\ UNCHANGED <<disk, active, proxy, snapshot, reload, main>>

\* Mutant: the draft is compared with the saved file.
SaveCompareSaved(s) ==
  /\ save[s].pc = "compare"
  /\ save' = [save EXCEPT ![s].pc = "truncate",
                ![s].active_matches = snapshot.saved_config = save[s].cfg]
  /\ UNCHANGED <<disk, active, proxy, snapshot, reload, main>>

\* active_matches is computed under the controller lock, which is released.
SaveCompare(s) ==
  /\ save[s].pc = "compare"
  /\ save' = [save EXCEPT ![s].pc = "truncate",
                ![s].active_matches = active # Nobody /\ proxy[active].cfg = save[s].cfg]
  /\ UNCHANGED <<disk, active, proxy, snapshot, reload, main>>

\* write_json is fs::write: the file is truncated ...
SaveTruncate(s) ==
  /\ save[s].pc = "truncate"
  /\ \/ disk' = NotJson /\ save' = [save EXCEPT ![s].pc = "write"]
     \/ UNCHANGED disk /\ save' = [save EXCEPT ![s].pc = "err"]
  /\ UNCHANGED <<active, proxy, snapshot, reload, main>>

\* ... and written from offset 0. Over what another save wrote meanwhile, the
\* result is this config or, if the other text is longer, no JSON at all.
SaveWrite(s) ==
  /\ save[s].pc = "write"
  /\ \/ /\ disk' \in IF disk \in Configs \ {save[s].cfg}
                     THEN {save[s].cfg, NotJson} ELSE {save[s].cfg}
        /\ save' = [save EXCEPT ![s].pc = "snapshot"]
     \/ UNCHANGED disk /\ save' = [save EXCEPT ![s].pc = "err"]
  /\ UNCHANGED <<active, proxy, snapshot, reload, main>>

\* Mutant: the snapshot keeps the config that was loaded.
SaveSnapshotFlags(s) ==
  /\ save[s].pc = "snapshot"
  /\ snapshot' = [snapshot EXCEPT !.pending_reload = ~ save[s].active_matches,
                                  !.last_reload_error = FALSE]
  /\ save' = [save EXCEPT ![s].pc = "ok"]
  /\ UNCHANGED <<disk, active, proxy, reload, main>>

SaveSnapshot(s) ==
  /\ save[s].pc = "snapshot"
  /\ snapshot' = [snapshot EXCEPT !.saved_config = save[s].cfg,
                                  !.pending_reload = ~ save[s].active_matches,
                                  !.last_reload_error = FALSE]
  /\ save' = [save EXCEPT ![s].pc = "ok"]
  /\ UNCHANGED <<disk, active, proxy, reload, main>>

SaveStep(s) == SaveCompare(s) \/ SaveTruncate(s) \/ SaveWrite(s) \/ SaveSnapshot(s)

-----------------------------------------------------------------------------
(* main(): the admin server has stopped; RuntimeManager::shutdown.           *)

MainShutdown ==
  /\ main = "serving"
  /\ IF active = Nobody
     THEN main' = "exit_err" /\ UNCHANGED <<active, proxy>>
     ELSE /\ main' = "stopping"
          /\ active' = Nobody
          /\ proxy' = [proxy EXCEPT ![active].stop = TRUE]
  /\ UNCHANGED <<disk, snapshot, reload, save>>

Next ==
  \/ \E i \in Runtimes : Bind(i) \/ TaskStops(i)
  \/ \E r \in Reloads : ReloadTake(r) \/ ReloadStep(r)
  \/ \E s \in Saves : SaveStep(s) \/ \E c \in Configs : SaveBegin(s, c)
  \/ MainShutdown \/ Signal

\* Tasks run; a reload is a blocking task of its own, a save a handler's future.
Fairness ==
  /\ \A i \in Runtimes : WF_vars(Bind(i)) /\ WF_vars(TaskStops(i))
  /\ \A r \in Reloads : WF_vars(ReloadStep(r))
  /\ \A s \in Saves : WF_vars(SaveStep(s))

Spec == Init /\ [][Next]_vars
FairSpec == Spec /\ Fairness

-----------------------------------------------------------------------------
(* Properties.                                                               *)

\* No call is under way and every server task has bound, failed or ended.
Quiet ==
  /\ main = "serving"
  /\ \A r \in Reloads : reload[r].pc \in Finished
  /\ \A s \in Saves : save[s].pc \in Finished
  /\ \A i \in Runtimes : proxy[i].state \notin {"binding", "stopping"}
                         /\ ~ (proxy[i].state = "serving" /\ proxy[i].stop)

Owns(r, i) ==
  \/ reload[r].pc \in Section /\ reload[r].previous = i
  \/ reload[r].pc \in {"publish", "restore"} /\ i = r

(* The emptied slot works as a lock: while a reload is replacing the runtime, *)
(* the slot stays empty and no other reload gets past take(), although the    *)
(* controller mutex is released in between.                                   *)
OneReloadAtATime ==
  \A r \in Reloads : reload[r].pc \in Section =>
    /\ active = Nobody
    /\ \A q \in Reloads \ {r} : reload[q].pc \notin Section

(* No proxy escapes control: a runtime that is bound or about to bind is in   *)
(* the slot, or owned by one reload that will stop or publish it, or has been *)
(* told to stop.                                                              *)
NoOrphan ==
  \A i \in Runtimes :
    proxy[i].state \in {"binding", "serving", "stopping"} =>
      active = i \/ proxy[i].stop \/ \E r \in Reloads : Owns(r, i)

(* A runtime never loses its address to another one of this program: reload   *)
(* stops the previous runtime and waits for the listener's release before it  *)
(* starts the next, so a task that failed to bind met another process.        *)
OnlyForeignersBlock ==
  \A i \in Runtimes : proxy[i].state = "failed" =>
    ListenAddr[proxy[i].cfg] \in ForeignAddrs

(* A reload that took the running proxy out of the slot returns: its waits    *)
(* for the server task and for the address have limits, no lock is held       *)
(* across a wait, and the writer's shutdown, which has no limit, ends by      *)
(* SqliteWriter's ShutdownTerminates.                                         *)
ReloadReturns ==
  \A r \in Reloads : (reload[r].pc = "load") ~> (reload[r].pc \in {"ok", "err"})

-----------------------------------------------------------------------------
(* Claims of the admin UI that the code does not keep.                       *)

(* admin.rs, AdminSidebar: "Running proxy matches the saved config."          *)
SidebarIsRight ==
  Quiet /\ ~ snapshot.pending_reload /\ active # Nobody /\ disk \in Configs
    => proxy[active].cfg = disk
=============================================================================

------------------------ MODULE RuntimeManagerProofs ------------------------
(* Proofs, for every number of configs, addresses, reloads, saves and pages,  *)
(* of the safety properties of RuntimeManager and ResultsPages.               *)
EXTENDS ResultsPages, TLAPS

-----------------------------------------------------------------------------
(* The inductive invariant.                                                  *)

Live(i) == proxy[i].state \in {"binding", "serving", "stopping"}

\* From load_json on, a reload knows a valid config.
LoadedValid ==
  \A r \in Reloads :
    reload[r].pc \in (Section \ {"load"}) \cup {"summary", "snapshot"}
      => reload[r].loaded \in Configs

\* save_config writes a draft that to_runtime_config accepted.
DraftValid ==
  \A s \in Saves :
    save[s].pc \in {"compare", "truncate", "write", "snapshot"}
      => save[s].cfg \in Configs

\* The summary it publishes is that of a runtime that was started.
SummaryKnown ==
  \A r \in Reloads : reload[r].pc = "snapshot" => reload[r].summary \in Configs

\* A started runtime has a config.
Born == \A i \in Runtimes : proxy[i].state # "none" => proxy[i].cfg \in Configs

\* A reload starts its runtime once, after it stopped the previous one.
NotBornYet ==
  \A r \in Reloads :
    /\ reload[r].pc \in {"idle"} \cup (Section \ {"publish", "restore"})
         => proxy[r].state = "none"
    /\ reload[r].pc \in {"publish", "restore"} => proxy[r].state # "none"

\* Only started runtimes are put into the slot ...
SlotBorn == active # Nobody => proxy[active].state # "none"

\* ... and taken from it.
PreviousBorn ==
  \A r \in Reloads : reload[r].pc \in Section =>
    /\ reload[r].previous \in Runtimes
    /\ proxy[reload[r].previous].state # "none"

\* shutdown_active_runtime leaves no task behind.
PreviousEnded ==
  \A r \in Reloads :
    reload[r].pc \in {"release", "start", "publish", "fallback", "restore"}
      => proxy[reload[r].previous].state \in {"over", "failed"}

\* NoOrphan, with what is true of a runtime nobody holds: it was told to stop,
\* the slot is empty and no reload will ever fill it.
Abandoned(i) ==
  proxy[i].stop /\ active = Nobody /\ \A r \in Reloads : reload[r].pc \notin Section
Kept ==
  \A i \in Runtimes : Live(i) =>
    active = i \/ Abandoned(i) \/ \E r \in Reloads : Owns(r, i)

\* At most one runtime has an address or is about to take one.
OneLive == \A i, j \in Runtimes : Live(i) /\ Live(j) => i = j

SlotInv ==
  /\ OneReloadAtATime /\ LoadedValid /\ SummaryKnown /\ Born /\ NotBornYet
  /\ SlotBorn /\ PreviousBorn /\ PreviousEnded /\ Kept /\ OneLive
  /\ OnlyForeignersBlock

Control == DraftValid /\ SlotInv

ManagerInv == TypeOK /\ Control

-----------------------------------------------------------------------------
(* RuntimeManager::start leaves one runtime, in the slot. *)
LEMMA InitManagerInv == Init => ManagerInv
<1>. SUFFICES ASSUME Init PROVE ManagerInv
  OBVIOUS
<1>. USE ManagerAssumption DEF Init
<1>1. TypeOK
  BY DEF TypeOK, ProxyRecord, RuntimeManagerState, ReloadRecord, SaveRecord,
         Runtimes, TaskStates, ReloadSteps, SaveSteps, Finished
<1>2. /\ OneReloadAtATime /\ LoadedValid /\ SummaryKnown /\ DraftValid
      /\ Born /\ NotBornYet
  BY DEF OneReloadAtATime, LoadedValid, SummaryKnown, DraftValid, Born, NotBornYet,
         Section, Runtimes
<1>3. SlotBorn /\ PreviousBorn /\ PreviousEnded /\ Kept
  BY DEF SlotBorn, PreviousBorn, PreviousEnded, Kept, Live, Section, Runtimes
<1>4. OneLive /\ OnlyForeignersBlock
  BY DEF OneLive, OnlyForeignersBlock, Live, Runtimes
<1>. QED
  BY <1>1, <1>2, <1>3, <1>4 DEF ManagerInv, Control, SlotInv

(* The labels of the model are program points of reload_inner, save_config and  *)
(* the server task.                                                             *)
LEMMA Labels ==
  /\ \A l \in {"load", "stop", "join", "release", "start", "publish", "fallback",
               "restore", "summary", "snapshot", "note_restore", "note_failure",
               "ok", "err"} : l \in ReloadSteps
  /\ \A l \in {"compare", "truncate", "write", "snapshot", "ok", "err"} :
       l \in SaveSteps
  /\ \A l \in {"binding", "serving", "stopping", "over", "failed"} :
       l \in TaskStates
BY DEF ReloadSteps, SaveSteps, TaskStates, Section, Finished

(* What a step of a reload writes into its locals is well typed.                *)
LEMMA ReloadUpdates ==
  ASSUME reload \in [Reloads -> ReloadRecord], NEW r \in Reloads,
         NEW l \in ReloadSteps
  PROVE  /\ [reload EXCEPT ![r].pc = l] \in [Reloads -> ReloadRecord]
         /\ \A i \in Runtimes :
              [reload EXCEPT ![r].pc = l, ![r].previous = i]
                \in [Reloads -> ReloadRecord]
         /\ \A c \in Configs :
              [reload EXCEPT ![r].pc = l, ![r].loaded = c]
                \in [Reloads -> ReloadRecord]
         /\ \A c \in Configs \cup {NoConfig} :
              [reload EXCEPT ![r].pc = l, ![r].summary = c]
                \in [Reloads -> ReloadRecord]
BY DEF ReloadRecord

(* What is done to a runtime is well typed: starting it, telling it to stop, and *)
(* the progress of its task.                                                     *)
LEMMA ProxyUpdates ==
  ASSUME proxy \in [Runtimes -> ProxyRecord], NEW i \in Runtimes
  PROVE  /\ [proxy EXCEPT ![i].stop = TRUE] \in [Runtimes -> ProxyRecord]
         /\ \A t \in TaskStates :
              [proxy EXCEPT ![i].state = t] \in [Runtimes -> ProxyRecord]
         /\ \A c \in Configs \cup {NoConfig} :
              [proxy EXCEPT ![i] = [cfg |-> c, state |-> "binding", stop |-> FALSE]]
                \in [Runtimes -> ProxyRecord]
         /\ proxy[i].state \in TaskStates
         /\ proxy[i].cfg \in Configs \cup {NoConfig}
BY Labels DEF ProxyRecord

(* The fields of the locals of a reload and of a save.                           *)
LEMMA LocalTypes ==
  ASSUME TypeOK
  PROVE  /\ \A r \in Reloads : /\ reload[r].previous \in Runtimes \cup {Nobody}
                               /\ reload[r].loaded \in Configs \cup {NoConfig}
                               /\ reload[r].summary \in Configs \cup {NoConfig}
         /\ \A s \in Saves : save[s].cfg \in Configs \cup {NoConfig}
BY DEF TypeOK, ReloadRecord, SaveRecord

(* No step of a task, a reload, a save or main() leaves the types: what is       *)
(* stored in the snapshot is a config, by LoadedValid, SummaryKnown, DraftValid. *)
LEMMA NextTypeOK == ManagerInv /\ [Next]_vars => TypeOK'
<1>. SUFFICES ASSUME ManagerInv, [Next]_vars PROVE TypeOK'
  OBVIOUS
<1>. USE DEF ManagerInv, TypeOK
<1>l. ASSUME NEW r \in Reloads, reload[r].pc \in Section
      PROVE  reload[r].previous \in Runtimes
  BY <1>l DEF Control, SlotInv, PreviousBorn
<1>1. ASSUME NEW i \in Runtimes, Bind(i) PROVE TypeOK'
  BY <1>1, Labels, ProxyUpdates DEF Bind
<1>2. ASSUME NEW i \in Runtimes, TaskStops(i) PROVE TypeOK'
  <2>. UNCHANGED <<disk, active, snapshot, reload, save, main>>
    BY <1>2 DEF TaskStops
  <2>1. PICK t \in {"stopping", "over"} : proxy' = [proxy EXCEPT ![i].state = t]
    BY <1>2 DEF TaskStops
  <2>. QED
    BY <2>1, Labels, ProxyUpdates
<1>3. ASSUME Signal PROVE TypeOK'
  <2>1. PICK deaf \in SUBSET { i \in Runtimes : proxy[i].state = "binding" } :
          proxy' = [i \in Runtimes |->
            [proxy[i] EXCEPT !.stop = @ \/ (proxy[i].state \in {"binding", "serving"}
                                              /\ i \notin deaf)]]
    BY <1>3 DEF Signal
  <2>2. ASSUME NEW i \in Runtimes, NEW b \in BOOLEAN
        PROVE  [proxy[i] EXCEPT !.stop = b] \in ProxyRecord
    BY DEF ProxyRecord
  <2>3. ASSUME NEW i \in Runtimes
        PROVE  (proxy[i].stop \/ (proxy[i].state \in {"binding", "serving"}
                                     /\ i \notin deaf)) \in BOOLEAN
    OBVIOUS
  <2>4. proxy' \in [Runtimes -> ProxyRecord]
    BY <2>1, <2>2, <2>3
  <2>. QED
    BY <1>3, <2>4 DEF Signal
<1>4. ASSUME NEW r \in Reloads, ReloadTake(r) PROVE TypeOK'
  <2>1. reload' \in [Reloads -> ReloadRecord]
    <3>1. CASE Goto(r, "err")
      BY <3>1, Labels, ReloadUpdates DEF Goto
    <3>2. CASE reload' = [reload EXCEPT ![r].pc = "load", ![r].previous = active]
      BY <3>2, Labels DEF ReloadRecord
    <3>. QED
      BY <1>4, <3>1, <3>2 DEF ReloadTake
  <2>. QED
    BY <1>4, <2>1 DEF ReloadTake
<1>5. ASSUME NEW r \in Reloads, ReloadLoad(r) PROVE TypeOK'
  BY <1>5, Labels, ReloadUpdates DEF ReloadLoad
<1>6. ASSUME NEW r \in Reloads, ReloadLoadFails(r) PROVE TypeOK'
  BY <1>6, Labels, ReloadUpdates, ProxyUpdates, <1>l DEF ReloadLoadFails, Goto, Section
<1>7. ASSUME NEW r \in Reloads, ReloadStop(r) PROVE TypeOK'
  BY <1>7, Labels, ReloadUpdates, ProxyUpdates, <1>l DEF ReloadStop, Goto, Section
<1>8. ASSUME NEW r \in Reloads, ReloadJoin(r) PROVE TypeOK'
  BY <1>8, Labels, ReloadUpdates, ProxyUpdates, <1>l DEF ReloadJoin, Goto, Section
<1>9. ASSUME NEW r \in Reloads, ReloadReleased(r) PROVE TypeOK'
  BY <1>9, Labels, ReloadUpdates DEF ReloadReleased, Goto
<1>10. ASSUME NEW r \in Reloads, ReloadNotReleased(r) PROVE TypeOK'
  BY <1>10, Labels, ReloadUpdates DEF ReloadNotReleased, Goto
<1>11. ASSUME NEW r \in Reloads, ReloadStart(r) PROVE TypeOK'
  <2>. r \in Runtimes
    BY DEF Runtimes
  <2>1. reload' \in [Reloads -> ReloadRecord]
    <3>1. PICK l \in {"publish", "fallback"} : Goto(r, l)
      BY <1>11 DEF ReloadStart
    <3>. QED
      BY <3>1, Labels, ReloadUpdates DEF Goto
  <2>2. proxy' \in [Runtimes -> ProxyRecord]
    <3>1. CASE UNCHANGED proxy
      BY <3>1
    <3>2. CASE Started(r, reload[r].loaded)
      BY <3>2, Labels, LocalTypes DEF Started, ProxyRecord
    <3>. QED
      BY <1>11, <3>1, <3>2 DEF ReloadStart
  <2>. QED
    BY <1>11, <2>1, <2>2 DEF ReloadStart
<1>12. ASSUME NEW r \in Reloads, ReloadPublish(r) PROVE TypeOK'
  BY <1>12, Labels, ReloadUpdates DEF ReloadPublish, Goto, Runtimes
<1>13. ASSUME NEW r \in Reloads, ReloadSummary(r) PROVE TypeOK'
  <2>1. reload' \in [Reloads -> ReloadRecord]
    <3>1. CASE active = Nobody
      <4>1. Goto(r, "err")
        BY <1>13, <3>1 DEF ReloadSummary
      <4>. QED
        BY <4>1, Labels, ReloadUpdates DEF Goto
    <3>2. CASE active # Nobody
      <4>1. RuntimeSummary(active) \in Configs \cup {NoConfig}
        BY <3>2, ProxyUpdates DEF RuntimeSummary
      <4>2. reload' = [reload EXCEPT ![r].pc = "snapshot",
                                     ![r].summary = RuntimeSummary(active)]
        BY <1>13, <3>2 DEF ReloadSummary
      <4>. QED
        BY <4>1, <4>2, Labels DEF ReloadRecord
    <3>. QED
      BY <3>1, <3>2
  <2>. QED
    BY <1>13, <2>1 DEF ReloadSummary
<1>14. ASSUME NEW r \in Reloads, ReloadSnapshot(r) PROVE TypeOK'
  BY <1>14, Labels, ReloadUpdates
     DEF ReloadSnapshot, Goto, Control, SlotInv, LoadedValid, SummaryKnown,
         RuntimeManagerState
<1>15. ASSUME NEW r \in Reloads, ReloadFallback(r) PROVE TypeOK'
  <2>. r \in Runtimes
    BY DEF Runtimes
  <2>1. reload' \in [Reloads -> ReloadRecord]
    <3>1. PICK l \in {"restore", "note_failure"} : Goto(r, l)
      BY <1>15 DEF ReloadFallback
    <3>. QED
      BY <3>1, Labels, ReloadUpdates DEF Goto
  <2>2. proxy[reload[r].previous].cfg \in Configs \cup {NoConfig}
    BY <1>15, <1>l, ProxyUpdates DEF ReloadFallback, Section
  <2>3. proxy' \in [Runtimes -> ProxyRecord]
    <3>1. CASE UNCHANGED proxy
      BY <3>1
    <3>2. CASE Started(r, proxy[reload[r].previous].cfg)
      BY <3>2, <2>2, Labels DEF Started, ProxyRecord
    <3>. QED
      BY <1>15, <3>1, <3>2 DEF ReloadFallback
  <2>. QED
    BY <1>15, <2>1, <2>3 DEF ReloadFallback
<1>16. ASSUME NEW r \in Reloads, ReloadRestore(r) PROVE TypeOK'
  BY <1>16, Labels, ReloadUpdates DEF ReloadRestore, Goto, Runtimes
<1>17. ASSUME NEW r \in Reloads, ReloadNote(r) PROVE TypeOK'
  BY <1>17, Labels, ReloadUpdates DEF ReloadNote, Goto, RuntimeManagerState
<1>18. ASSUME NEW s \in Saves, SaveCompare(s) PROVE TypeOK'
  BY <1>18, Labels DEF SaveCompare, SaveRecord
<1>19. ASSUME NEW s \in Saves, SaveTruncate(s) PROVE TypeOK'
  BY <1>19, Labels DEF SaveTruncate, SaveRecord
<1>20. ASSUME NEW s \in Saves, SaveWrite(s) PROVE TypeOK'
  BY <1>20, Labels DEF SaveWrite, SaveRecord, Control, DraftValid
<1>21. ASSUME NEW s \in Saves, SaveSnapshot(s) PROVE TypeOK'
  BY <1>21, Labels DEF SaveSnapshot, SaveRecord, Control, DraftValid, RuntimeManagerState
<1>22. ASSUME NEW s \in Saves, NEW c \in Configs, SaveBegin(s, c) PROVE TypeOK'
  BY <1>22, Labels DEF SaveBegin, SaveRecord
<1>23. ASSUME MainShutdown PROVE TypeOK'
  BY <1>23, Labels, ProxyUpdates DEF MainShutdown
<1>24. ASSUME UNCHANGED vars PROVE TypeOK'
  BY <1>24 DEF vars
<1>. QED
  BY <1>1, <1>2, <1>3, <1>4, <1>5, <1>6, <1>7, <1>8, <1>9, <1>10, <1>11,
     <1>12, <1>13, <1>14, <1>15, <1>16, <1>17, <1>18, <1>19, <1>20, <1>21,
     <1>22, <1>23, <1>24 DEF Next, ReloadStep, SaveStep

(* save_config keeps to the draft it was given. *)
LEMMA NextDraftValid == ManagerInv /\ [Next]_vars => DraftValid'
<1>. SUFFICES ASSUME ManagerInv, [Next]_vars PROVE DraftValid'
  OBVIOUS
<1>. USE DEF ManagerInv, TypeOK, SaveRecord, Control, DraftValid
<1>1. CASE UNCHANGED save
  BY <1>1
<1>2. ASSUME NEW s \in Saves, SaveCompare(s) PROVE DraftValid'
  BY <1>2 DEF SaveCompare
<1>3. ASSUME NEW s \in Saves, SaveTruncate(s) PROVE DraftValid'
  BY <1>3 DEF SaveTruncate
<1>4. ASSUME NEW s \in Saves, SaveWrite(s) PROVE DraftValid'
  BY <1>4 DEF SaveWrite
<1>5. ASSUME NEW s \in Saves, SaveSnapshot(s) PROVE DraftValid'
  BY <1>5 DEF SaveSnapshot
<1>6. ASSUME NEW s \in Saves, NEW c \in Configs, SaveBegin(s, c) PROVE DraftValid'
  BY <1>6 DEF SaveBegin
<1>. QED
  BY <1>1, <1>2, <1>3, <1>4, <1>5, <1>6 DEF Next, vars, ReloadStep,
     SaveStep, Bind, TaskStops, Signal, MainShutdown, ReloadTake,
     ReloadLoad, ReloadLoadFails, ReloadStop, ReloadJoin, ReloadReleased,
     ReloadNotReleased, ReloadStart, ReloadPublish, ReloadSummary,
     ReloadSnapshot, ReloadFallback, ReloadRestore, ReloadNote

-----------------------------------------------------------------------------
(* What the steps do, field by field.                                        *)

(* A jump of reload_inner changes one program counter. *)
LEMMA GotoEffect ==
  ASSUME TypeOK, NEW r \in Reloads, NEW l, Goto(r, l)
  PROVE  \A q \in Reloads :
           /\ reload'[q].pc = IF q = r THEN l ELSE reload[q].pc
           /\ reload'[q].previous = reload[q].previous
           /\ reload'[q].loaded = reload[q].loaded
           /\ reload'[q].summary = reload[q].summary
BY DEF Goto, TypeOK, ReloadRecord

(* The stop signal of shutdown(), or a dropped stop_tx, concerns one runtime. *)
LEMMA StopEffect ==
  ASSUME TypeOK, NEW i \in Runtimes, proxy' = [proxy EXCEPT ![i].stop = TRUE]
  PROVE  \A j \in Runtimes :
           /\ proxy'[j].cfg = proxy[j].cfg
           /\ proxy'[j].state = proxy[j].state
           /\ proxy[j].stop => proxy'[j].stop
           /\ j = i => proxy'[j].stop
BY DEF TypeOK, ProxyRecord

(* The progress of a server task concerns one runtime. *)
LEMMA StateEffect ==
  ASSUME TypeOK, NEW i \in Runtimes, NEW t, proxy' = [proxy EXCEPT ![i].state = t]
  PROVE  \A j \in Runtimes :
           /\ proxy'[j].cfg = proxy[j].cfg
           /\ proxy'[j].state = IF j = i THEN t ELSE proxy[j].state
           /\ proxy[j].stop => proxy'[j].stop
BY DEF TypeOK, ProxyRecord

(* start_active_runtime replaces one runtime and leaves the others alone. *)
LEMMA StartEffect ==
  ASSUME TypeOK, NEW i \in Runtimes, NEW c, Started(i, c)
  PROVE  /\ proxy'[i].cfg = c
         /\ proxy'[i].state = "binding"
         /\ \A j \in Runtimes \ {i} : proxy'[j] = proxy[j]
BY DEF TypeOK, Started

-----------------------------------------------------------------------------
(* Preservation of the invariant of the slot.                                *)

(* It only depends on the slot, the runtimes and the locals of the reloads. *)
LEMMA SlotFrame ==
  ASSUME SlotInv, UNCHANGED <<active, proxy, reload>> PROVE SlotInv'
BY DEF SlotInv, OneReloadAtATime, LoadedValid, SummaryKnown, Born, NotBornYet,
       SlotBorn, PreviousBorn, PreviousEnded, Kept, OneLive, OnlyForeignersBlock,
       Abandoned, Owns, Live

(* Server tasks cannot break it on their own: they only move forward, they are *)
(* only told to stop, and only another process keeps one from binding.         *)
LEMMA TasksProgress ==
  ASSUME TypeOK, SlotInv, UNCHANGED <<active, reload>>,
         \A j \in Runtimes :
           /\ proxy'[j].cfg = proxy[j].cfg
           /\ proxy[j].stop => proxy'[j].stop
           /\ proxy'[j].state = "none" <=> proxy[j].state = "none"
           /\ proxy[j].state \in {"over", "failed"} => proxy'[j].state = proxy[j].state
           /\ Live(j)' => Live(j)
           /\ proxy'[j].state = "failed" =>
                proxy[j].state = "failed" \/ ListenAddr[proxy[j].cfg] \in ForeignAddrs
  PROVE  SlotInv'
<1>. USE DEF SlotInv
<1>r. \A r \in Reloads : r \in Runtimes
  BY DEF Runtimes
<1>1. OneReloadAtATime' /\ LoadedValid' /\ SummaryKnown'
  BY DEF OneReloadAtATime, LoadedValid, SummaryKnown
<1>2. Born' /\ NotBornYet' /\ OnlyForeignersBlock' /\ OneLive'
  BY <1>r DEF Born, NotBornYet, OnlyForeignersBlock, OneLive
<1>3. SlotBorn'
  BY DEF SlotBorn, TypeOK
<1>4. PreviousBorn'
  BY DEF PreviousBorn
<1>5. PreviousEnded'
  BY DEF PreviousEnded, PreviousBorn, Section
<1>6. Kept'
  <2>. SUFFICES ASSUME NEW j \in Runtimes, Live(j)
                PROVE  (active = j \/ Abandoned(j) \/ \E r \in Reloads : Owns(r, j))'
    BY DEF Kept
  <2>1. CASE active = j
    BY <2>1
  <2>2. CASE Abandoned(j)
    BY <2>2 DEF Abandoned
  <2>3. ASSUME NEW r \in Reloads, Owns(r, j) PROVE Owns(r, j)'
    BY <2>3 DEF Owns
  <2>. QED
    BY <2>1, <2>2, <2>3 DEF Kept
<1>. QED
  BY <1>1, <1>2, <1>3, <1>4, <1>5, <1>6

(* The bind of a server task: by OneLive nobody else of this program listens. *)
LEMMA BindSlotInv ==
  ASSUME TypeOK, SlotInv, NEW i \in Runtimes, Bind(i) PROVE SlotInv'
<1>1. Held(ListenAddr[proxy[i].cfg]) => ListenAddr[proxy[i].cfg] \in ForeignAddrs
  BY DEF Bind, Held, Listening, SlotInv, OneLive, Live
<1>2. PICK t \in {"failed", "serving"} :
        /\ proxy' = [proxy EXCEPT ![i].state = t]
        /\ t = "failed" => ListenAddr[proxy[i].cfg] \in ForeignAddrs
  BY <1>1 DEF Bind
<1>3. UNCHANGED <<active, reload>> /\ proxy[i].state = "binding"
  BY DEF Bind
<1>. QED
  BY <1>2, <1>3, StateEffect, TasksProgress DEF Live

(* The end of a server task. *)
LEMMA TaskStopsSlotInv ==
  ASSUME TypeOK, SlotInv, NEW i \in Runtimes, TaskStops(i) PROVE SlotInv'
<1>1. PICK t \in {"stopping", "over"} : proxy' = [proxy EXCEPT ![i].state = t]
  BY DEF TaskStops
<1>2. UNCHANGED <<active, reload>> /\ proxy[i].state \in {"serving", "stopping"}
  BY DEF TaskStops
<1>. QED
  BY <1>1, <1>2, StateEffect, TasksProgress DEF Live

(* SIGTERM only tells tasks to stop. *)
LEMMA SignalSlotInv == ASSUME TypeOK, SlotInv, Signal PROVE SlotInv'
<1>1. \A j \in Runtimes : /\ proxy'[j].cfg = proxy[j].cfg
                          /\ proxy'[j].state = proxy[j].state
                          /\ proxy[j].stop => proxy'[j].stop
  BY DEF Signal, TypeOK, ProxyRecord
<1>. QED
  BY <1>1, TasksProgress DEF Signal, Live

(* What a reload that took a runtime out of the slot can rely on: the slot is  *)
(* empty, no other reload is in its section, and a live runtime is its own.    *)
LEMMA InSection ==
  ASSUME TypeOK, SlotInv, NEW r \in Reloads, reload[r].pc \in Section
  PROVE  /\ r \in Runtimes
         /\ active = Nobody
         /\ \A q \in Reloads \ {r} : reload[q].pc \notin Section
         /\ reload[r].previous \in Runtimes
         /\ proxy[reload[r].previous].state # "none"
         /\ \A j \in Runtimes : Live(j) => Owns(r, j)
<1>1. /\ r \in Runtimes
      /\ active = Nobody
      /\ \A q \in Reloads \ {r} : reload[q].pc \notin Section
      /\ reload[r].previous \in Runtimes
      /\ proxy[reload[r].previous].state # "none"
  BY DEF SlotInv, OneReloadAtATime, PreviousBorn, Runtimes
<1>2. ASSUME NEW j \in Runtimes, Live(j) PROVE Owns(r, j)
  <2>1. active # j /\ ~ Abandoned(j)
    BY <1>1, ManagerAssumption DEF Abandoned
  <2>2. PICK q \in Reloads : Owns(q, j)
    BY <1>2, <2>1 DEF SlotInv, Kept
  <2>3. reload[q].pc \in Section
    BY <2>2 DEF Owns, Section
  <2>. QED
    BY <1>1, <2>2, <2>3
<1>. QED
  BY <1>1, <1>2

(* take() gives the slot's runtime to this reload, and to no other. *)
LEMMA TakeSlotInv ==
  ASSUME TypeOK, SlotInv, NEW r \in Reloads, ReloadTake(r) PROVE SlotInv'
<1>. USE DEF SlotInv
<1>r. \A q \in Reloads : q \in Runtimes
  BY DEF Runtimes
<1>0. reload[r].pc = "idle" /\ UNCHANGED proxy
  BY DEF ReloadTake
<1>1. CASE active = Nobody
  <2>1. Goto(r, "err") /\ UNCHANGED active
    BY <1>1 DEF ReloadTake
  <2>. USE <1>0, <2>1, GotoEffect
  <2>2. OneReloadAtATime' /\ LoadedValid' /\ SummaryKnown'
    BY DEF OneReloadAtATime, LoadedValid, SummaryKnown, Section
  <2>3. Born' /\ NotBornYet' /\ OnlyForeignersBlock' /\ OneLive'
    BY DEF Born, NotBornYet, OnlyForeignersBlock, OneLive, Live, Section
  <2>4. SlotBorn' /\ PreviousBorn' /\ PreviousEnded'
    BY DEF SlotBorn, PreviousBorn, PreviousEnded, Section
  <2>5. Kept'
    BY DEF Kept, Live, Abandoned, Owns, Section
  <2>. QED
    BY <2>2, <2>3, <2>4, <2>5
<1>2. CASE active # Nobody
  <2>1. /\ active' = Nobody
        /\ active \in Runtimes
        /\ \A q \in Reloads :
             /\ reload'[q].pc = IF q = r THEN "load" ELSE reload[q].pc
             /\ reload'[q].previous = IF q = r THEN active ELSE reload[q].previous
             /\ reload'[q].loaded = reload[q].loaded
             /\ reload'[q].summary = reload[q].summary
    BY <1>2 DEF ReloadTake, TypeOK, ReloadRecord
  <2>2. \A q \in Reloads : reload[q].pc \notin Section
    BY <1>2 DEF OneReloadAtATime
  <2>. USE <1>0, <2>1, <2>2
  <2>3. OneReloadAtATime' /\ LoadedValid' /\ SummaryKnown'
    BY DEF OneReloadAtATime, LoadedValid, SummaryKnown, Section
  <2>4. Born' /\ NotBornYet' /\ OnlyForeignersBlock' /\ OneLive'
    BY DEF Born, NotBornYet, OnlyForeignersBlock, OneLive, Live, Section
  <2>5. SlotBorn' /\ PreviousBorn' /\ PreviousEnded'
    BY <1>2 DEF SlotBorn, PreviousBorn, PreviousEnded, Section
  <2>6. ASSUME NEW j \in Runtimes, Live(j)' PROVE Owns(r, j)'
    <3>1. active = j
      BY <1>2, <2>6 DEF Kept, Live, Abandoned, Owns, Section
    <3>. QED
      BY <3>1 DEF Owns, Section
  <2>7. Kept'
    BY <2>6 DEF Kept
  <2>. QED
    BY <2>3, <2>4, <2>5, <2>7
<1>. QED
  BY <1>1, <1>2

(* load_json gives this reload a valid config. *)
LEMMA LoadSlotInv ==
  ASSUME TypeOK, SlotInv, NEW r \in Reloads, ReloadLoad(r) PROVE SlotInv'
<1>. USE DEF SlotInv
<1>1. /\ UNCHANGED <<active, proxy>>
      /\ reload[r].pc = "load"
      /\ disk \in Configs
      /\ \A q \in Reloads :
           /\ reload'[q].pc = IF q = r THEN "stop" ELSE reload[q].pc
           /\ reload'[q].previous = reload[q].previous
           /\ reload'[q].loaded = IF q = r THEN disk ELSE reload[q].loaded
           /\ reload'[q].summary = reload[q].summary
  BY DEF ReloadLoad, TypeOK, ReloadRecord
<1>2. reload[r].pc \in Section
  BY <1>1 DEF Section
<1>. USE <1>1
<1>3. OneReloadAtATime' /\ LoadedValid' /\ SummaryKnown'
  BY DEF OneReloadAtATime, LoadedValid, SummaryKnown, Section
<1>4. Born' /\ NotBornYet' /\ OnlyForeignersBlock' /\ OneLive'
  BY DEF Born, NotBornYet, OnlyForeignersBlock, OneLive, Live, Section
<1>5. SlotBorn' /\ PreviousBorn' /\ PreviousEnded'
  BY DEF SlotBorn, PreviousBorn, PreviousEnded, Section
<1>6. ASSUME NEW j \in Runtimes, Live(j)' PROVE Owns(r, j)'
  BY <1>2, <1>6, InSection DEF Live, Owns, Section
<1>7. Kept'
  BY <1>6 DEF Kept
<1>. QED
  BY <1>3, <1>4, <1>5, <1>7

(* A file that does not load: the dropped runtime has been told to stop, and   *)
(* the slot stays empty.                                                       *)
LEMMA LoadFailsSlotInv ==
  ASSUME TypeOK, SlotInv, NEW r \in Reloads, ReloadLoadFails(r) PROVE SlotInv'
<1>. USE DEF SlotInv
<1>1. /\ UNCHANGED active
      /\ reload[r].pc = "load"
      /\ Goto(r, "err")
      /\ proxy' = [proxy EXCEPT ![reload[r].previous].stop = TRUE]
  BY DEF ReloadLoadFails
<1>2. reload[r].pc \in Section
  BY <1>1 DEF Section
<1>. USE <1>1, <1>2, InSection, GotoEffect, StopEffect
<1>3. OneReloadAtATime' /\ LoadedValid' /\ SummaryKnown'
  BY DEF OneReloadAtATime, LoadedValid, SummaryKnown, Section
<1>4. Born' /\ NotBornYet' /\ OnlyForeignersBlock' /\ OneLive'
  BY DEF Born, NotBornYet, OnlyForeignersBlock, OneLive, Live, Section, Runtimes
<1>5. SlotBorn' /\ PreviousBorn' /\ PreviousEnded'
  BY DEF SlotBorn, PreviousBorn, PreviousEnded, Section
<1>6. ASSUME NEW j \in Runtimes, Live(j)' PROVE Abandoned(j)'
  <2>1. j = reload[r].previous
    BY <1>6 DEF Live, Owns
  <2>2. proxy'[j].stop
    BY <2>1
  <2>3. active' = Nobody /\ \A q \in Reloads : reload'[q].pc \notin Section
    BY DEF Section
  <2>. QED
    BY <2>2, <2>3 DEF Abandoned
<1>7. Kept'
  BY <1>6 DEF Kept
<1>. QED
  BY <1>3, <1>4, <1>5, <1>7

(* shutdown_active_runtime sends the stop signal: the runtime stays in hand. *)
LEMMA StopSlotInv ==
  ASSUME TypeOK, SlotInv, NEW r \in Reloads, ReloadStop(r) PROVE SlotInv'
<1>. USE DEF SlotInv
<1>1. /\ UNCHANGED active
      /\ reload[r].pc = "stop"
      /\ Goto(r, "join")
      /\ proxy' = [proxy EXCEPT ![reload[r].previous].stop = TRUE]
  BY DEF ReloadStop
<1>2. reload[r].pc \in Section
  BY <1>1 DEF Section
<1>. USE <1>1, <1>2, InSection, GotoEffect, StopEffect
<1>3. OneReloadAtATime' /\ LoadedValid' /\ SummaryKnown'
  BY DEF OneReloadAtATime, LoadedValid, SummaryKnown, Section
<1>4. Born' /\ NotBornYet' /\ OnlyForeignersBlock' /\ OneLive'
  BY DEF Born, NotBornYet, OnlyForeignersBlock, OneLive, Live, Section, Runtimes
<1>5. SlotBorn' /\ PreviousBorn' /\ PreviousEnded'
  BY DEF SlotBorn, PreviousBorn, PreviousEnded, Section
<1>6. ASSUME NEW j \in Runtimes, Live(j)' PROVE Owns(r, j)'
  <2>1. j = reload[r].previous
    BY <1>6 DEF Live, Owns
  <2>. QED
    BY <2>1 DEF Owns, Section
<1>7. Kept'
  BY <1>6 DEF Kept
<1>. QED
  BY <1>3, <1>4, <1>5, <1>7

(* After the join no runtime of this program is live. *)
LEMMA JoinSlotInv ==
  ASSUME TypeOK, SlotInv, NEW r \in Reloads, ReloadJoin(r) PROVE SlotInv'
<1>. USE DEF SlotInv
<1>1. /\ UNCHANGED active
      /\ reload[r].pc = "join"
      /\ Goto(r, "release")
  BY DEF ReloadJoin
<1>2. reload[r].pc \in Section
  BY <1>1 DEF Section
<1>3. PICK t \in {"over", "failed"} :
        /\ proxy' = [proxy EXCEPT ![reload[r].previous].state = t]
        /\ t = "failed" => proxy[reload[r].previous].state = "failed"
  <2>1. proxy' = [proxy EXCEPT ![reload[r].previous].state =
                    IF proxy[reload[r].previous].state = "failed"
                    THEN "failed" ELSE "over"]
    BY <1>2, InSection DEF ReloadJoin, TypeOK, ProxyRecord
  <2>. QED
    BY <2>1
<1>i. /\ reload[r].previous \in Runtimes
      /\ active = Nobody
      /\ proxy[reload[r].previous].state # "none"
      /\ \A q \in Reloads \ {r} : reload[q].pc \notin Section
      /\ \A j \in Runtimes : Live(j) => Owns(r, j)
  BY <1>2, InSection
<1>e. \A j \in Runtimes :
        /\ proxy'[j].cfg = proxy[j].cfg
        /\ proxy'[j].state = IF j = reload[r].previous THEN t ELSE proxy[j].state
  BY <1>i, <1>3 DEF TypeOK, ProxyRecord
<1>. USE <1>1, <1>2, <1>3, <1>e, <1>i, GotoEffect
<1>4. OneReloadAtATime' /\ LoadedValid' /\ SummaryKnown'
  BY DEF OneReloadAtATime, LoadedValid, SummaryKnown, Section
<1>5. ASSUME NEW j \in Runtimes PROVE ~ Live(j)'
  <2>1. CASE j = reload[r].previous
    BY <2>1 DEF Live
  <2>2. CASE j # reload[r].previous
    BY <2>2 DEF Live, Owns
  <2>. QED
    BY <2>1, <2>2
<1>6. Born' /\ OnlyForeignersBlock'
  BY DEF Born, OnlyForeignersBlock
<1>10. OneLive' /\ Kept'
  BY <1>5 DEF OneLive, Kept
<1>7. NotBornYet'
  BY DEF NotBornYet, Section, Runtimes
<1>8. SlotBorn' /\ PreviousBorn'
  BY DEF SlotBorn, PreviousBorn, Section
<1>9. PreviousEnded'
  BY DEF PreviousEnded, Section
<1>. QED
  BY <1>4, <1>6, <1>7, <1>8, <1>9, <1>10

(* The address is free again. *)
LEMMA ReleasedSlotInv ==
  ASSUME TypeOK, SlotInv, NEW r \in Reloads, ReloadReleased(r) PROVE SlotInv'
<1>. USE DEF SlotInv
<1>1. /\ UNCHANGED <<active, proxy>>
      /\ reload[r].pc = "release"
      /\ Goto(r, "start")
  BY DEF ReloadReleased
<1>2. reload[r].pc \in Section
  BY <1>1 DEF Section
<1>. USE <1>1, <1>2, InSection, GotoEffect
<1>3. OneReloadAtATime' /\ LoadedValid' /\ SummaryKnown'
  BY DEF OneReloadAtATime, LoadedValid, SummaryKnown, Section
<1>4. ASSUME NEW j \in Runtimes PROVE ~ Live(j)
  BY DEF Live, Owns, PreviousEnded
<1>5. Born' /\ OnlyForeignersBlock' /\ OneLive' /\ Kept'
  BY <1>4 DEF Born, OnlyForeignersBlock, OneLive, Kept, Live
<1>6. NotBornYet'
  BY DEF NotBornYet, Section
<1>7. SlotBorn' /\ PreviousBorn' /\ PreviousEnded'
  BY DEF SlotBorn, PreviousBorn, PreviousEnded, Section
<1>. QED
  BY <1>3, <1>5, <1>6, <1>7

(* The address is not released: the slot stays empty, but nothing is live. *)
LEMMA NotReleasedSlotInv ==
  ASSUME TypeOK, SlotInv, NEW r \in Reloads, ReloadNotReleased(r) PROVE SlotInv'
<1>. USE DEF SlotInv
<1>1. /\ UNCHANGED <<active, proxy>>
      /\ reload[r].pc = "release"
      /\ Goto(r, "err")
  BY DEF ReloadNotReleased
<1>2. reload[r].pc \in Section
  BY <1>1 DEF Section
<1>. USE <1>1, <1>2, InSection, GotoEffect
<1>3. OneReloadAtATime' /\ LoadedValid' /\ SummaryKnown'
  BY DEF OneReloadAtATime, LoadedValid, SummaryKnown, Section
<1>4. ASSUME NEW j \in Runtimes PROVE ~ Live(j)
  BY DEF Live, Owns, PreviousEnded
<1>5. Born' /\ OnlyForeignersBlock' /\ OneLive' /\ Kept'
  BY <1>4 DEF Born, OnlyForeignersBlock, OneLive, Kept, Live
<1>6. NotBornYet'
  BY DEF NotBornYet, Section
<1>7. SlotBorn' /\ PreviousBorn' /\ PreviousEnded'
  BY DEF SlotBorn, PreviousBorn, PreviousEnded, Section
<1>. QED
  BY <1>3, <1>5, <1>6, <1>7

(* The next runtime starts when no other is live. *)
LEMMA StartSlotInv ==
  ASSUME TypeOK, SlotInv, NEW r \in Reloads, ReloadStart(r) PROVE SlotInv'
<1>. USE DEF SlotInv
<1>1. UNCHANGED active /\ reload[r].pc = "start"
  BY DEF ReloadStart
<1>2. reload[r].pc \in Section
  BY <1>1 DEF Section
<1>3. ASSUME NEW j \in Runtimes PROVE ~ Live(j)
  BY <1>1, <1>2, InSection DEF Live, Owns, PreviousEnded
<1>4. CASE Goto(r, "publish") /\ Started(r, reload[r].loaded)
  <2>1. reload[r].loaded \in Configs
    BY <1>1, <1>2, InSection DEF LoadedValid, Born, Section
  <2>2. proxy[r].state = "none"
    BY <1>1 DEF NotBornYet, Section
  <2>. USE <1>1, <1>2, <1>4, <2>1, <2>2, InSection, GotoEffect, StartEffect
  <2>3. OneReloadAtATime' /\ LoadedValid' /\ SummaryKnown'
    BY DEF OneReloadAtATime, LoadedValid, SummaryKnown, Section
  <2>4. Born' /\ OnlyForeignersBlock'
    BY DEF Born, OnlyForeignersBlock
  <2>5. NotBornYet'
    BY DEF NotBornYet, Section, Runtimes
  <2>6. SlotBorn' /\ PreviousBorn' /\ PreviousEnded'
    BY DEF SlotBorn, PreviousBorn, PreviousEnded, Section
  <2>7. ASSUME NEW j \in Runtimes, Live(j)' PROVE j = r
    BY <1>3, <2>7 DEF Live
  <2>8. OneLive'
    BY <2>7 DEF OneLive
  <2>9. Owns(r, r)'
    BY DEF Owns
  <2>10. Kept'
    BY <2>7, <2>9 DEF Kept
  <2>. QED
    BY <2>3, <2>4, <2>5, <2>6, <2>8, <2>10
<1>5. CASE Goto(r, "fallback") /\ UNCHANGED proxy
  <2>. USE <1>1, <1>2, <1>5, InSection, GotoEffect
  <2>1. OneReloadAtATime' /\ LoadedValid' /\ SummaryKnown'
    BY DEF OneReloadAtATime, LoadedValid, SummaryKnown, Section
  <2>2. Born' /\ OnlyForeignersBlock' /\ OneLive' /\ Kept'
    BY <1>3 DEF Born, OnlyForeignersBlock, OneLive, Kept, Live
  <2>3. NotBornYet'
    BY DEF NotBornYet, Section
  <2>4. SlotBorn' /\ PreviousBorn' /\ PreviousEnded'
    BY DEF SlotBorn, PreviousBorn, PreviousEnded, Section
  <2>. QED
    BY <2>1, <2>2, <2>3, <2>4
<1>. QED
  BY <1>4, <1>5 DEF ReloadStart

(* So does the previous config when the new one did not start. *)
LEMMA FallbackSlotInv ==
  ASSUME TypeOK, SlotInv, NEW r \in Reloads, ReloadFallback(r) PROVE SlotInv'
<1>. USE DEF SlotInv
<1>1. UNCHANGED active /\ reload[r].pc = "fallback"
  BY DEF ReloadFallback
<1>2. reload[r].pc \in Section
  BY <1>1 DEF Section
<1>3. ASSUME NEW j \in Runtimes PROVE ~ Live(j)
  BY <1>1, <1>2, InSection DEF Live, Owns, PreviousEnded
<1>4. CASE Goto(r, "restore") /\ Started(r, proxy[reload[r].previous].cfg)
  <2>1. proxy[reload[r].previous].cfg \in Configs
    BY <1>1, <1>2, InSection DEF LoadedValid, Born, Section
  <2>2. proxy[r].state = "none"
    BY <1>1 DEF NotBornYet, Section
  <2>. USE <1>1, <1>2, <1>4, <2>1, <2>2, InSection, GotoEffect, StartEffect
  <2>3. OneReloadAtATime' /\ LoadedValid' /\ SummaryKnown'
    BY DEF OneReloadAtATime, LoadedValid, SummaryKnown, Section
  <2>4. Born' /\ OnlyForeignersBlock'
    BY DEF Born, OnlyForeignersBlock
  <2>5. NotBornYet'
    BY DEF NotBornYet, Section, Runtimes
  <2>6. SlotBorn' /\ PreviousBorn' /\ PreviousEnded'
    BY DEF SlotBorn, PreviousBorn, PreviousEnded, Section
  <2>7. ASSUME NEW j \in Runtimes, Live(j)' PROVE j = r
    BY <1>3, <2>7 DEF Live
  <2>8. OneLive'
    BY <2>7 DEF OneLive
  <2>9. Owns(r, r)'
    BY DEF Owns
  <2>10. Kept'
    BY <2>7, <2>9 DEF Kept
  <2>. QED
    BY <2>3, <2>4, <2>5, <2>6, <2>8, <2>10
<1>5. CASE Goto(r, "note_failure") /\ UNCHANGED proxy
  <2>. USE <1>1, <1>2, <1>5, InSection, GotoEffect
  <2>1. OneReloadAtATime' /\ LoadedValid' /\ SummaryKnown'
    BY DEF OneReloadAtATime, LoadedValid, SummaryKnown, Section
  <2>2. Born' /\ OnlyForeignersBlock' /\ OneLive' /\ Kept'
    BY <1>3 DEF Born, OnlyForeignersBlock, OneLive, Kept, Live
  <2>3. NotBornYet'
    BY DEF NotBornYet, Section
  <2>4. SlotBorn' /\ PreviousBorn' /\ PreviousEnded'
    BY DEF SlotBorn, PreviousBorn, PreviousEnded, Section
  <2>. QED
    BY <2>1, <2>2, <2>3, <2>4
<1>. QED
  BY <1>4, <1>5 DEF ReloadFallback

(* Publishing puts the only live runtime into the slot. *)
LEMMA PublishSlotInv ==
  ASSUME TypeOK, SlotInv, NEW r \in Reloads, ReloadPublish(r) PROVE SlotInv'
<1>. USE DEF SlotInv
<1>1. /\ active' = r /\ UNCHANGED proxy
      /\ reload[r].pc = "publish"
      /\ Goto(r, "summary")
  BY DEF ReloadPublish
<1>2. reload[r].pc \in Section
  BY <1>1 DEF Section
<1>. USE <1>1, <1>2, InSection, GotoEffect
<1>3. OneReloadAtATime' /\ LoadedValid' /\ SummaryKnown'
  BY DEF OneReloadAtATime, LoadedValid, SummaryKnown, Section
<1>4. Born' /\ NotBornYet' /\ OnlyForeignersBlock' /\ OneLive'
  BY DEF Born, NotBornYet, OnlyForeignersBlock, OneLive, Live, Section
<1>5. SlotBorn' /\ PreviousBorn' /\ PreviousEnded'
  BY DEF SlotBorn, PreviousBorn, PreviousEnded, NotBornYet, Section
<1>6. ASSUME NEW j \in Runtimes, Live(j)' PROVE j = r
  BY <1>6 DEF Live, Owns, PreviousEnded
<1>7. Kept'
  BY <1>6 DEF Kept
<1>. QED
  BY <1>3, <1>4, <1>5, <1>7

(* So does the restored runtime. *)
LEMMA RestoreSlotInv ==
  ASSUME TypeOK, SlotInv, NEW r \in Reloads, ReloadRestore(r) PROVE SlotInv'
<1>. USE DEF SlotInv
<1>1. /\ active' = r /\ UNCHANGED proxy
      /\ reload[r].pc = "restore"
      /\ Goto(r, "note_restore")
  BY DEF ReloadRestore
<1>2. reload[r].pc \in Section
  BY <1>1 DEF Section
<1>. USE <1>1, <1>2, InSection, GotoEffect
<1>3. OneReloadAtATime' /\ LoadedValid' /\ SummaryKnown'
  BY DEF OneReloadAtATime, LoadedValid, SummaryKnown, Section
<1>4. Born' /\ NotBornYet' /\ OnlyForeignersBlock' /\ OneLive'
  BY DEF Born, NotBornYet, OnlyForeignersBlock, OneLive, Live, Section
<1>5. SlotBorn' /\ PreviousBorn' /\ PreviousEnded'
  BY DEF SlotBorn, PreviousBorn, PreviousEnded, NotBornYet, Section
<1>6. ASSUME NEW j \in Runtimes, Live(j)' PROVE j = r
  BY <1>6 DEF Live, Owns, PreviousEnded
<1>7. Kept'
  BY <1>6 DEF Kept
<1>. QED
  BY <1>3, <1>4, <1>5, <1>7

(* Past its section a reload only moves towards its return. *)
LEMMA AfterSection ==
  ASSUME TypeOK, SlotInv, NEW r \in Reloads, NEW l, Goto(r, l),
         UNCHANGED <<active, proxy>>,
         reload[r].pc \in {"summary", "snapshot", "note_restore", "note_failure"},
         l \in {"ok", "err"}
  PROVE  SlotInv'
<1>. USE GotoEffect DEF SlotInv
<1>1. OneReloadAtATime' /\ LoadedValid' /\ SummaryKnown'
  BY DEF OneReloadAtATime, LoadedValid, SummaryKnown, Section
<1>2. Born' /\ NotBornYet' /\ OnlyForeignersBlock' /\ OneLive'
  BY DEF Born, NotBornYet, OnlyForeignersBlock, OneLive, Live, Section
<1>3. SlotBorn' /\ PreviousBorn' /\ PreviousEnded'
  BY DEF SlotBorn, PreviousBorn, PreviousEnded, Section
<1>4. Kept'
  <2>. SUFFICES ASSUME NEW j \in Runtimes, Live(j)
                PROVE  (active = j \/ Abandoned(j) \/ \E q \in Reloads : Owns(q, j))'
    BY DEF Kept, Live
  <2>1. CASE active = j
    BY <2>1
  <2>2. CASE Abandoned(j)
    BY <2>2 DEF Abandoned, Section
  <2>3. ASSUME NEW q \in Reloads, Owns(q, j) PROVE Owns(q, j)'
    BY <2>3 DEF Owns, Section
  <2>. QED
    BY <2>1, <2>2, <2>3 DEF Kept
<1>. QED
  BY <1>1, <1>2, <1>3, <1>4

(* The summary of the runtime in the slot, which was started (SlotBorn, Born). *)
LEMMA SummarySlotInv ==
  ASSUME TypeOK, SlotInv, NEW r \in Reloads, ReloadSummary(r) PROVE SlotInv'
<1>. USE DEF SlotInv
<1>1. UNCHANGED <<active, proxy>> /\ reload[r].pc = "summary"
  BY DEF ReloadSummary
<1>2. CASE active = Nobody
  <2>1. Goto(r, "err")
    BY <1>2 DEF ReloadSummary
  <2>. QED
    BY <1>1, <2>1, AfterSection
<1>3. CASE active # Nobody
  <2>1. RuntimeSummary(active) \in Configs
    BY <1>3 DEF RuntimeSummary, SlotBorn, Born, TypeOK
  <2>2. \A q \in Reloads :
          /\ reload'[q].pc = IF q = r THEN "snapshot" ELSE reload[q].pc
          /\ reload'[q].previous = reload[q].previous
          /\ reload'[q].loaded = reload[q].loaded
          /\ reload'[q].summary = IF q = r THEN RuntimeSummary(active)
                                  ELSE reload[q].summary
    <3>1. reload' = [reload EXCEPT ![r].pc = "snapshot",
                                   ![r].summary = RuntimeSummary(active)]
      BY <1>3 DEF ReloadSummary
    <3>. QED
      BY <3>1 DEF TypeOK, ReloadRecord
  <2>. USE <1>1, <2>1, <2>2
  <2>3. OneReloadAtATime' /\ LoadedValid' /\ SummaryKnown'
    BY DEF OneReloadAtATime, LoadedValid, SummaryKnown, Section
  <2>4. Born' /\ NotBornYet' /\ OnlyForeignersBlock' /\ OneLive'
    BY DEF Born, NotBornYet, OnlyForeignersBlock, OneLive, Live, Section
  <2>5. SlotBorn' /\ PreviousBorn' /\ PreviousEnded'
    BY DEF SlotBorn, PreviousBorn, PreviousEnded, Section
  <2>6. \A q \in Reloads : reload[q].pc \notin Section
    BY <1>3 DEF OneReloadAtATime
  <2>7. Kept'
    BY <1>3, <2>6 DEF Kept, Live, Abandoned, Owns, Section
  <2>. QED
    BY <2>3, <2>4, <2>5, <2>7
<1>. QED
  BY <1>2, <1>3

(* RuntimeManager::shutdown takes the runtime out of the slot, and stops it. *)
LEMMA MainShutdownSlotInv ==
  ASSUME TypeOK, SlotInv, MainShutdown PROVE SlotInv'
<1>. USE DEF SlotInv
<1>1. CASE active = Nobody
  BY <1>1, SlotFrame DEF MainShutdown
<1>2. CASE active # Nobody
  <2>1. /\ active' = Nobody /\ UNCHANGED reload
        /\ active \in Runtimes
        /\ proxy' = [proxy EXCEPT ![active].stop = TRUE]
    BY <1>2 DEF MainShutdown, TypeOK
  <2>2. \A q \in Reloads : reload[q].pc \notin Section
    BY <1>2 DEF OneReloadAtATime
  <2>. USE <2>1, <2>2, StopEffect
  <2>3. OneReloadAtATime' /\ LoadedValid' /\ SummaryKnown'
    BY DEF OneReloadAtATime, LoadedValid, SummaryKnown
  <2>4. Born' /\ NotBornYet' /\ OnlyForeignersBlock' /\ OneLive'
    BY DEF Born, NotBornYet, OnlyForeignersBlock, OneLive, Live, Runtimes
  <2>5. SlotBorn' /\ PreviousBorn' /\ PreviousEnded'
    BY DEF SlotBorn, PreviousBorn, PreviousEnded, Section
  <2>6. ASSUME NEW j \in Runtimes, Live(j)' PROVE Abandoned(j)'
    <3>1. active = j
      BY <1>2, <2>6 DEF Kept, Live, Abandoned, Owns, Section
    <3>. QED
      BY <3>1 DEF Abandoned
  <2>7. Kept'
    BY <2>6 DEF Kept
  <2>. QED
    BY <2>3, <2>4, <2>5, <2>7
<1>. QED
  BY <1>1, <1>2

(* Every step keeps the invariant of the slot. *)
LEMMA NextSlotInv == ManagerInv /\ [Next]_vars => SlotInv'
<1>. SUFFICES ASSUME TypeOK, SlotInv, [Next]_vars PROVE SlotInv'
  BY DEF ManagerInv, Control
<1>1. ASSUME NEW i \in Runtimes, Bind(i) \/ TaskStops(i) PROVE SlotInv'
  BY <1>1, BindSlotInv, TaskStopsSlotInv
<1>2. CASE Signal \/ MainShutdown
  BY <1>2, SignalSlotInv, MainShutdownSlotInv
<1>3. ASSUME NEW r \in Reloads, ReloadTake(r) \/ ReloadStep(r) PROVE SlotInv'
  <2>1. CASE ReloadTake(r) \/ ReloadLoad(r) \/ ReloadLoadFails(r)
    BY <2>1, TakeSlotInv, LoadSlotInv, LoadFailsSlotInv
  <2>2. CASE ReloadStop(r) \/ ReloadJoin(r) \/ ReloadReleased(r) \/ ReloadNotReleased(r)
    BY <2>2, StopSlotInv, JoinSlotInv, ReleasedSlotInv, NotReleasedSlotInv
  <2>3. CASE ReloadStart(r) \/ ReloadFallback(r) \/ ReloadPublish(r) \/ ReloadRestore(r)
    BY <2>3, StartSlotInv, FallbackSlotInv, PublishSlotInv, RestoreSlotInv
  <2>4. CASE ReloadSummary(r)
    BY <2>4, SummarySlotInv
  <2>5. CASE ReloadSnapshot(r)
    BY <2>5, AfterSection DEF ReloadSnapshot
  <2>6. CASE ReloadNote(r)
    BY <2>6, AfterSection DEF ReloadNote
  <2>. QED
    BY <1>3, <2>1, <2>2, <2>3, <2>4, <2>5, <2>6 DEF ReloadStep
<1>4. CASE UNCHANGED <<active, proxy, reload>>
  BY <1>4, SlotFrame
<1>5. ASSUME NEW s \in Saves, SaveStep(s) \/ \E c \in Configs : SaveBegin(s, c)
      PROVE  UNCHANGED <<active, proxy, reload>>
  BY <1>5 DEF SaveStep, SaveBegin, SaveCompare, SaveTruncate, SaveWrite, SaveSnapshot
<1>. QED
  BY <1>1, <1>2, <1>3, <1>4, <1>5 DEF Next, vars

-----------------------------------------------------------------------------
(* The theorems.                                                             *)

(* Every step of the manager keeps the invariant. *)
LEMMA NextManagerInv == ManagerInv /\ [Next]_vars => ManagerInv'
BY NextTypeOK, NextDraftValid, NextSlotInv DEF ManagerInv, Control

(* The invariant holds in every state of a program with any number of        *)
(* overlapping reloads and saves.                                            *)
THEOREM ManagerInvariant == Spec => []ManagerInv
BY InitManagerInv, NextManagerInv, PTL DEF Spec

(* RuntimeManager's state stays well typed: above all, the snapshot the admin *)
(* UI reads always names configs, although it is put together from locals     *)
(* that were read under an earlier hold of the lock.                          *)
THEOREM TypeCorrect == Spec => []TypeOK
<1>1. ManagerInv => TypeOK
  BY DEF ManagerInv
<1>. QED
  BY <1>1, ManagerInvariant, PTL

(* reload_inner: the emptied slot excludes a second reload, for any number of *)
(* concurrent reloads.                                                        *)
THEOREM OneReloadAtATimeHolds == Spec => []OneReloadAtATime
<1>1. ManagerInv => OneReloadAtATime
  BY DEF ManagerInv, Control, SlotInv
<1>. QED
  BY <1>1, ManagerInvariant, PTL

(* No started proxy escapes: it is in the slot, owned, or told to stop. *)
THEOREM NoOrphanHolds == Spec => []NoOrphan
<1>1. ManagerInv => NoOrphan
  BY DEF ManagerInv, Control, SlotInv, Kept, NoOrphan, Live, Abandoned
<1>. QED
  BY <1>1, ManagerInvariant, PTL

(* A proxy that could not bind its address met another process, never a       *)
(* runtime of this program.                                                   *)
THEOREM OnlyForeignersBlockHolds == Spec => []OnlyForeignersBlock
<1>1. ManagerInv => OnlyForeignersBlock
  BY DEF ManagerInv, Control, SlotInv
<1>. QED
  BY <1>1, ManagerInvariant, PTL
-----------------------------------------------------------------------------
(* The results pages only watch the manager: their steps are stutters of it.  *)
THEOREM ResultsRunManager == ResultsSpec => Spec
<1>1. ResultsInit => Init
  BY DEF ResultsInit
<1>2. [ResultsNext]_resultsVars => [Next]_vars
  BY DEF ResultsNext, ManagerMoves, ResultsOpen, ResultsRender, resultsVars, vars
<1>. QED
  BY <1>1, <1>2, PTL DEF ResultsSpec, Spec

-----------------------------------------------------------------------------
(* What a step of the manager means for the slot and the summary.             *)

SameConfigs == \A i \in Runtimes : proxy'[i].cfg = proxy[i].cfg
SameSummary == snapshot'.active_runtime = snapshot.active_runtime
OthersStay(r) == \A q \in Reloads \ {r} : reload'[q] = reload[q]

\* A server task, a signal, a save or main()'s shutdown.
StepsAside ==
  /\ UNCHANGED reload /\ SameConfigs /\ SameSummary
  /\ active' \in {active, Nobody}

\* take(), which finds a runtime or nothing.
Takes(r) ==
  /\ OthersStay(r) /\ SameConfigs /\ SameSummary
  /\ reload[r].pc = "idle" /\ active' = Nobody
  /\ \/ reload'[r].pc = "load" /\ active # Nobody /\ reload'[r].previous = active
     \/ reload'[r].pc = "err" /\ active = Nobody /\ reload'[r].previous = reload[r].previous

\* Between take() and the filling of the slot; the start gives r a config.
Replaces(r) ==
  /\ OthersStay(r) /\ SameSummary
  /\ active = Nobody /\ active' = Nobody
  /\ reload[r].pc \in Section /\ reload'[r].previous = reload[r].previous
  /\ reload'[r].pc \in Section \cup {"err", "note_failure"}
  /\ \A i \in Runtimes \ {r} : proxy'[i].cfg = proxy[i].cfg
  /\ reload'[r].pc = "restore" => proxy'[r].cfg = proxy[reload[r].previous].cfg

\* The slot is filled with the next runtime or with the previous one again.
Fills(r) ==
  /\ OthersStay(r) /\ SameConfigs /\ SameSummary
  /\ active' = r /\ reload'[r].previous = reload[r].previous
  /\ \/ reload[r].pc = "publish" /\ reload'[r].pc = "summary"
     \/ reload[r].pc = "restore" /\ reload'[r].pc = "note_restore"

\* The tail: the slot is read again, and what was read is stored.
ReadsSlot(r) ==
  /\ OthersStay(r) /\ SameConfigs /\ SameSummary
  /\ UNCHANGED active /\ reload'[r].previous = reload[r].previous
  /\ reload[r].pc = "summary"
  /\ \/ reload'[r].pc = "err"
     \/ /\ reload'[r].pc = "snapshot" /\ active # Nobody
        /\ reload'[r].summary = proxy[active].cfg

StoresSummary(r) ==
  /\ OthersStay(r) /\ SameConfigs
  /\ UNCHANGED active /\ reload'[r].previous = reload[r].previous
  /\ reload[r].pc = "snapshot" /\ reload'[r].pc = "ok"
  /\ snapshot'.active_runtime = reload[r].summary

NotesError(r) ==
  /\ OthersStay(r) /\ SameConfigs /\ SameSummary
  /\ UNCHANGED active /\ reload'[r].previous = reload[r].previous
  /\ reload[r].pc \in {"note_restore", "note_failure"} /\ reload'[r].pc = "err"

(* The steps of reload_inner that replace the previous runtime.               *)
LEMMA SectionKinds ==
  ASSUME ManagerInv, NEW r \in Reloads,
         \/ ReloadLoad(r) \/ ReloadLoadFails(r) \/ ReloadStop(r) \/ ReloadJoin(r)
         \/ ReloadReleased(r) \/ ReloadNotReleased(r) \/ ReloadStart(r) \/ ReloadFallback(r)
  PROVE  Replaces(r)
<1>1. TypeOK /\ r \in Runtimes
  BY DEF ManagerInv, Runtimes
<1>2. reload[r].pc \in Section /\ reload[r].pc # "restore" /\ UNCHANGED <<active, snapshot>>
  BY DEF Section, ReloadLoad, ReloadLoadFails, ReloadStop, ReloadJoin,
         ReloadReleased, ReloadNotReleased, ReloadStart, ReloadFallback
<1>3. active = Nobody /\ reload[r].previous \in Runtimes
  BY <1>2 DEF ManagerInv, Control, SlotInv, OneReloadAtATime, PreviousBorn
<1>4. /\ OthersStay(r) /\ reload'[r].previous = reload[r].previous
      /\ reload'[r].pc \in {"stop", "err", "join", "release", "start", "publish",
                            "fallback", "restore", "note_failure"}
  BY <1>1 DEF ReloadLoad, ReloadLoadFails, ReloadStop, ReloadJoin, ReloadReleased,
              ReloadNotReleased, ReloadStart, ReloadFallback, Goto, TypeOK,
              ReloadRecord, OthersStay
<1>5. CASE \/ ReloadLoad(r) \/ ReloadLoadFails(r) \/ ReloadStop(r) \/ ReloadJoin(r)
           \/ ReloadReleased(r) \/ ReloadNotReleased(r)
  <2>1. \A j \in Runtimes : proxy'[j].cfg = proxy[j].cfg
    BY <1>1, <1>3, <1>5, StopEffect, StateEffect
       DEF ReloadLoad, ReloadLoadFails, ReloadStop, ReloadJoin, ReloadReleased,
           ReloadNotReleased
  <2>2. reload'[r].pc # "restore"
    BY <1>1, <1>5 DEF ReloadLoad, ReloadLoadFails, ReloadStop, ReloadJoin,
              ReloadReleased, ReloadNotReleased, Goto, TypeOK, ReloadRecord
  <2>. QED
    BY <1>2, <1>3, <1>4, <2>1, <2>2 DEF Replaces, Section, SameSummary
<1>6. CASE ReloadStart(r) \/ ReloadFallback(r)
  <2>1. \A i \in Runtimes \ {r} : proxy'[i].cfg = proxy[i].cfg
    BY <1>1, <1>6, StartEffect DEF ReloadStart, ReloadFallback
  <2>2. reload'[r].pc = "restore" => proxy'[r].cfg = proxy[reload[r].previous].cfg
    <3>1. CASE ReloadStart(r)
      BY <1>1, <3>1, GotoEffect DEF ReloadStart
    <3>2. CASE ReloadFallback(r)
      BY <1>1, <3>2, GotoEffect, StartEffect DEF ReloadFallback
    <3>. QED
      BY <1>6, <3>1, <3>2
  <2>. QED
    BY <1>2, <1>3, <1>4, <2>1, <2>2 DEF Replaces, Section, SameSummary
<1>. QED
  BY <1>5, <1>6

(* The steps that fill the slot and publish what is in it.                    *)
LEMMA TailKinds ==
  ASSUME ManagerInv, NEW r \in Reloads,
         \/ ReloadTake(r) \/ ReloadPublish(r) \/ ReloadRestore(r) \/ ReloadSummary(r)
         \/ ReloadSnapshot(r) \/ ReloadNote(r)
  PROVE  Takes(r) \/ Fills(r) \/ ReadsSlot(r) \/ StoresSummary(r) \/ NotesError(r)
<1>1. /\ reload \in [Reloads -> ReloadRecord] /\ snapshot \in RuntimeManagerState
      /\ UNCHANGED proxy
  BY DEF ManagerInv, TypeOK, ReloadTake, ReloadPublish, ReloadRestore, ReloadSummary,
         ReloadSnapshot, ReloadNote
<1>2. SameConfigs /\ OthersStay(r)
  BY <1>1 DEF SameConfigs, OthersStay, ReloadTake, ReloadPublish, ReloadRestore,
              ReloadSummary, ReloadSnapshot, ReloadNote, Goto
<1>3. CASE ReloadTake(r)
  BY <1>1, <1>2, <1>3 DEF ReloadTake, Goto, ReloadRecord, Takes, SameSummary
<1>4. CASE ReloadPublish(r) \/ ReloadRestore(r)
  BY <1>1, <1>2, <1>4 DEF ReloadPublish, ReloadRestore, Goto, ReloadRecord, Fills, SameSummary
<1>5. CASE ReloadSummary(r)
  BY <1>1, <1>2, <1>5
     DEF ReloadSummary, RuntimeSummary, Goto, ReloadRecord, ReadsSlot, SameSummary
<1>6. CASE ReloadSnapshot(r)
  BY <1>1, <1>2, <1>6 DEF ReloadSnapshot, Goto, ReloadRecord, StoresSummary
<1>7. CASE ReloadNote(r)
  <2>1. SameSummary
    BY <1>1, <1>7 DEF ReloadNote, RuntimeManagerState, SameSummary
  <2>2. reload'[r].previous = reload[r].previous /\ reload'[r].pc = "err"
    BY <1>1, <1>7 DEF ReloadNote, Goto, ReloadRecord
  <2>. QED
    BY <1>2, <1>7, <2>1, <2>2 DEF ReloadNote, NotesError
<1>. QED
  BY <1>3, <1>4, <1>5, <1>6, <1>7

(* Every step of the manager is of one of these kinds.                        *)
LEMMA ManagerStepKinds ==
  ASSUME ManagerInv, [Next]_vars
  PROVE  \/ StepsAside
         \/ \E r \in Reloads :
              \/ Takes(r) \/ Replaces(r) \/ Fills(r) \/ ReadsSlot(r)
              \/ StoresSummary(r) \/ NotesError(r)
<1>1. /\ TypeOK /\ active \in Runtimes \cup {Nobody}
      /\ snapshot \in RuntimeManagerState
  BY DEF ManagerInv, TypeOK
<1>. USE DEF StepsAside, SameConfigs, SameSummary
<1>2. CASE UNCHANGED vars
  BY <1>2 DEF vars
<1>3. ASSUME NEW i \in Runtimes, Bind(i) \/ TaskStops(i) PROVE StepsAside
  BY <1>1, <1>3, StateEffect DEF Bind, TaskStops
<1>4. CASE Signal
  BY <1>1, <1>4 DEF Signal, TypeOK, ProxyRecord
<1>5. CASE MainShutdown
  BY <1>1, <1>5, StopEffect DEF MainShutdown
<1>6. ASSUME NEW s \in Saves, SaveStep(s) \/ \E c \in Configs : SaveBegin(s, c)
      PROVE  StepsAside
  BY <1>1, <1>6 DEF SaveStep, SaveBegin, SaveCompare, SaveTruncate, SaveWrite,
                    SaveSnapshot, RuntimeManagerState
<1>. QED
  BY <1>2, <1>3, <1>4, <1>5, <1>6, SectionKinds, TailKinds DEF Next, ReloadStep
-----------------------------------------------------------------------------
(* The sidebar's summary and the caption of the results pages.               *)

Shown(i) == snapshot.active_runtime = proxy[i].cfg

\* A runtime that no reload put in the slot yet was not taken from there.
Unpublished ==
  /\ \A r \in Reloads : reload[r].pc \in Section \cup {"idle"} =>
       active # r /\ ~ Overtaken(r)
  /\ \A r \in Reloads : reload[r].pc = "idle" => reload[r].previous = Nobody

\* In its tail, a reload that is not overtaken has its own runtime in the slot
\* (unless main() took it), and has read nothing else.
TailInv ==
  \A r \in Reloads : InTail(r) /\ ~ Overtaken(r) =>
    /\ active \in {r, Nobody}
    /\ \A q \in Reloads : reload[q].pc \notin Section
    /\ reload[r].pc = "snapshot" => reload[r].summary = proxy[r].cfg

\* The summary is that of the runtime in the slot, of the one a reload took
\* from there, and of the one that a reload is about to put back.
CurrentInv ==
  ~ SummaryBehind =>
    /\ active # Nobody => Shown(active)
    /\ \A r \in Reloads : reload[r].pc \in Section => Shown(reload[r].previous)
    /\ \A r \in Reloads : reload[r].pc = "restore" => Shown(r)

\* The runtimes whose database a page may name.
Known(t) == {query[t]} \cup later[t]

\* They were all in the slot; the summary that is stored, and every one that a
\* reload is about to store, is that of one of them.
QueryAt(t) ==
  /\ active # Nobody => active \in Known(t)
  /\ \A r \in Reloads : reload[r].pc \in Section \cup {"idle"} => r \notin Known(t)
  /\ \E i \in Known(t) : Shown(i)
  /\ \A r \in Reloads : reload[r].pc = "snapshot" =>
       \E i \in Known(t) : reload[r].summary = proxy[i].cfg

QueryInv ==
  /\ query \in [Readers -> Runtimes \cup {Nobody}]
  /\ lagging \in [Readers -> BOOLEAN]
  /\ later \in [Readers -> SUBSET Runtimes]
  /\ \A t \in Readers : query[t] # Nobody /\ ~ lagging[t] => QueryAt(t)

SummaryInv == overtaken \in BOOLEAN /\ Unpublished /\ TailInv /\ CurrentInv
ResultsInv == SummaryInv /\ QueryInv

(* What a reload took stays on record.                                        *)
LEMMA OvertakenStays ==
  ASSUME Unpublished, NEW r \in Reloads, Nobody \notin Runtimes,
         \A q \in Reloads : reload'[q].previous = reload[q].previous \/ reload[q].pc = "idle",
         Overtaken(r)
  PROVE  Overtaken(r)'
BY DEF Unpublished, Overtaken, Runtimes

(* Outside take(), no runtime is newly overtaken, and no reload begins.       *)
LEMMA NotTaken ==
  ASSUME Unpublished, NEW r \in Reloads, OthersStay(r), active' \in {active, Nobody, r},
         reload'[r].previous = reload[r].previous,
         reload[r].pc # "idle", reload'[r].pc # "idle",
         reload'[r].pc \in Section => reload[r].pc \in Section /\ active' # r,
         Nobody \notin Runtimes
  PROVE  /\ Unpublished'
         /\ \A i \in Reloads : Overtaken(i)' <=> Overtaken(i)
<1>1. \A q \in Reloads : reload'[q].previous = reload[q].previous
  BY DEF OthersStay
<1>2. \A i \in Reloads : Overtaken(i)' <=> Overtaken(i)
  BY <1>1 DEF Overtaken
<1>3. ASSUME NEW q \in Reloads, reload'[q].pc \in Section \cup {"idle"}
      PROVE  reload[q].pc \in Section \cup {"idle"} /\ active' # q
  BY <1>3 DEF OthersStay, Unpublished, Runtimes
<1>4. \A q \in Reloads : reload'[q].pc = "idle" => reload'[q].previous = Nobody
  BY <1>1 DEF OthersStay, Unpublished
<1>. QED
  BY <1>2, <1>3, <1>4 DEF Unpublished

(* The history variable follows the end of a reload's tail.                   *)
LEMMA OvertakenBy ==
  ASSUME ManagerMoves, overtaken \in BOOLEAN, NEW r \in Reloads, OthersStay(r)
  PROVE  /\ overtaken' \in BOOLEAN
         /\ Stores(r) => (overtaken' <=> Overtaken(r))
         /\ StoresNothing(r) => overtaken'
         /\ ~ Stores(r) /\ ~ StoresNothing(r) => overtaken' = overtaken
<1>1. \A q \in Reloads \ {r} : ~ Stores(q) /\ ~ StoresNothing(q)
  BY DEF OthersStay, Stores, StoresNothing
<1>2. ~ (Stores(r) /\ StoresNothing(r))
  BY DEF Stores, StoresNothing
<1>. QED
  BY <1>1, <1>2 DEF ManagerMoves

(* Facts about the slot and the runtimes that the steps below share.          *)
LEMMA SlotFacts ==
  ASSUME ManagerInv
  PROVE  /\ Nobody \notin Runtimes /\ Reloads \subseteq Runtimes
         /\ active \in Runtimes \cup {Nobody}
         /\ \A r \in Reloads : reload[r].pc \in Section =>
              /\ active = Nobody /\ reload[r].previous \in Runtimes
              /\ \A q \in Reloads \ {r} : reload[q].pc \notin Section
BY ManagerAssumption
   DEF ManagerInv, TypeOK, Control, SlotInv, OneReloadAtATime, PreviousBorn, Runtimes

(* Server tasks, signals and saves change nothing that the summary depends on; *)
(* main()'s shutdown empties the slot.                                         *)
LEMMA AsideSummary ==
  ASSUME ManagerInv, SummaryInv, ManagerMoves, StepsAside PROVE SummaryInv'
<1>1. overtaken' = overtaken /\ overtaken \in BOOLEAN
  BY DEF StepsAside, ManagerMoves, Stores, StoresNothing, SummaryInv
<1>2. SummaryBehind' <=> SummaryBehind
  BY <1>1 DEF StepsAside, SummaryBehind, InTail
<1>3. \A r \in Reloads : (Overtaken(r)' <=> Overtaken(r)) /\ (InTail(r)' <=> InTail(r))
  BY DEF StepsAside, Overtaken, InTail
<1>4. Unpublished'
  BY <1>3, SlotFacts DEF SummaryInv, StepsAside, Unpublished
<1>5. TailInv'
  BY <1>3, SlotFacts DEF SummaryInv, StepsAside, SameConfigs, TailInv
<1>6. CurrentInv'
  BY <1>2, SlotFacts
     DEF SummaryInv, StepsAside, SameConfigs, SameSummary, CurrentInv, Shown
<1>. QED
  BY <1>1, <1>4, <1>5, <1>6 DEF SummaryInv

(* take(): what was in the slot is now the reload's, and a reload that was in  *)
(* its tail with it is overtaken.                                              *)
LEMMA TakesSummary ==
  ASSUME ManagerInv, SummaryInv, ManagerMoves, NEW r \in Reloads, Takes(r)
  PROVE  SummaryInv'
<1>1. overtaken' = overtaken /\ overtaken \in BOOLEAN
  BY OvertakenBy DEF Takes, Stores, StoresNothing, SummaryInv
<1>2. \A q \in Reloads : InTail(q)' <=> InTail(q)
  BY DEF Takes, OthersStay, InTail
<1>3. SummaryBehind' <=> SummaryBehind
  BY <1>1, <1>2 DEF SummaryBehind
<1>4. \A q \in Reloads : Overtaken(q) => Overtaken(q)'
  BY OvertakenStays, SlotFacts DEF SummaryInv, Takes, OthersStay
<1>5. ASSUME NEW q \in Reloads PROVE Overtaken(q)' => Overtaken(q) \/ active = q
  BY SlotFacts DEF Takes, OthersStay, Overtaken
<1>6. Unpublished'
  <2>1. ASSUME NEW q \in Reloads, reload'[q].pc \in Section \cup {"idle"}
        PROVE  active' # q /\ ~ Overtaken(q)'
    BY <2>1, <1>5, SlotFacts DEF SummaryInv, Unpublished, Takes, OthersStay, Section
  <2>2. \A q \in Reloads : reload'[q].pc = "idle" => reload'[q].previous = Nobody
    BY DEF SummaryInv, Unpublished, Takes, OthersStay
  <2>. QED
    BY <2>1, <2>2 DEF Unpublished
<1>7. TailInv'
  <2>. SUFFICES ASSUME NEW q \in Reloads, InTail(q)', ~ Overtaken(q)'
                PROVE  /\ active' \in {q, Nobody}
                       /\ \A z \in Reloads : reload'[z].pc \notin Section
                       /\ reload'[q].pc = "snapshot" => reload'[q].summary = proxy'[q].cfg
    BY DEF TailInv
  <2>1. InTail(q) /\ ~ Overtaken(q) /\ q # r /\ q \in Runtimes
    BY <1>2, <1>4, SlotFacts DEF Takes, InTail
  <2>2. /\ active \in {q, Nobody}
        /\ \A z \in Reloads : reload[z].pc \notin Section
        /\ reload[q].pc = "snapshot" => reload[q].summary = proxy[q].cfg
    BY <2>1 DEF SummaryInv, TailInv
  <2>3. active = Nobody
    BY <2>2 DEF Takes, Overtaken
  <2>. QED
    BY <2>1, <2>2, <2>3 DEF Takes, OthersStay, SameConfigs, Section
<1>8. CurrentInv'
  BY <1>3, SlotFacts
     DEF SummaryInv, CurrentInv, Takes, OthersStay, SameConfigs, SameSummary, Shown, Section
<1>. QED
  BY <1>1, <1>6, <1>7, <1>8 DEF SummaryInv

(* The steps with an empty slot: the summary stays that of the previous       *)
(* runtime, whose config a fallback starts again.                             *)
LEMMA ReplacesSummary ==
  ASSUME ManagerInv, SummaryInv, ManagerMoves, NEW r \in Reloads, Replaces(r)
  PROVE  SummaryInv'
<1>1. overtaken' = overtaken /\ overtaken \in BOOLEAN
  BY OvertakenBy DEF Replaces, Section, Stores, StoresNothing, SummaryInv
<1>2. \A q \in Reloads : InTail(q)' <=> InTail(q)
  BY DEF Replaces, OthersStay, InTail, Section
<1>3. SummaryBehind' <=> SummaryBehind
  BY <1>1, <1>2 DEF SummaryBehind
<1>4. Unpublished' /\ \A i \in Reloads : Overtaken(i)' <=> Overtaken(i)
  <2>1. reload[r].pc # "idle" /\ reload'[r].pc # "idle" /\ active' # r
    BY SlotFacts DEF Replaces, Section
  <2>. QED
    BY <2>1, NotTaken, SlotFacts DEF Replaces, SummaryInv
<1>5. TailInv'
  BY <1>2, <1>4 DEF SummaryInv, TailInv, Replaces
<1>6. reload[r].previous \in Runtimes \ {r}
  BY SlotFacts DEF Replaces, SummaryInv, Unpublished, Overtaken
<1>7. CurrentInv'
  <2>. SUFFICES ASSUME ~ SummaryBehind
                PROVE  /\ \A q \in Reloads : reload'[q].pc \in Section => Shown(reload[q].previous)'
                       /\ \A q \in Reloads : reload'[q].pc = "restore" => Shown(q)'
    BY <1>3 DEF CurrentInv, Replaces, OthersStay, Shown
  <2>1. Shown(reload[r].previous) /\ \A q \in Reloads \ {r} : reload'[q].pc \notin Section
    BY SlotFacts DEF SummaryInv, CurrentInv, Replaces, OthersStay
  <2>2. snapshot'.active_runtime = proxy'[reload[r].previous].cfg
    BY <1>6, <2>1 DEF Replaces, SameSummary, Shown
  <2>3. reload'[r].pc = "restore" => snapshot'.active_runtime = proxy'[r].cfg
    BY <1>6, <2>1 DEF Replaces, SameSummary, Shown
  <2>. QED
    BY <2>1, <2>2, <2>3 DEF Replaces, Shown, Section
<1>. QED
  BY <1>1, <1>4, <1>5, <1>7 DEF SummaryInv

(* The slot is filled: with the next runtime, and the reload is in its tail,  *)
(* or with the previous config again, which is the one shown.                 *)
LEMMA FillsSummary ==
  ASSUME ManagerInv, SummaryInv, ManagerMoves, NEW r \in Reloads, Fills(r)
  PROVE  SummaryInv'
<1>1. overtaken' = overtaken /\ overtaken \in BOOLEAN
  BY OvertakenBy DEF Fills, Stores, StoresNothing, SummaryInv
<1>2. /\ reload[r].pc \in Section /\ r \in Runtimes /\ r # Nobody
      /\ \A q \in Reloads : reload'[q].pc \notin Section
  BY SlotFacts DEF Fills, OthersStay, Section
<1>3. Unpublished' /\ \A i \in Reloads : Overtaken(i)' <=> Overtaken(i)
  BY <1>2, NotTaken, SlotFacts DEF Fills, SummaryInv, Section
<1>4. TailInv'
  <2>1. ASSUME NEW q \in Reloads, InTail(q)', ~ Overtaken(q)' PROVE q = r /\ reload'[r].pc = "summary"
    BY <1>2, <1>3, <2>1 DEF SummaryInv, TailInv, Fills, OthersStay, InTail
  <2>. QED
    BY <1>2, <2>1 DEF TailInv, Fills
<1>5. CurrentInv'
  <2>. SUFFICES ASSUME ~ SummaryBehind' PROVE Shown(r)'
    BY <1>2 DEF CurrentInv, Fills, Section
  <2>1. reload[r].pc = "restore" /\ reload'[r].pc = "note_restore"
    BY DEF SummaryBehind, InTail, Fills
  <2>2. ~ SummaryBehind
    BY <1>1, <2>1 DEF SummaryBehind, InTail, OthersStay, Fills
  <2>. QED
    BY <1>2, <2>1, <2>2 DEF SummaryInv, CurrentInv, Shown, Fills, SameConfigs, SameSummary
<1>. QED
  BY <1>1, <1>3, <1>4, <1>5 DEF SummaryInv

(* The slot is read again: not overtaken, the reload finds its own runtime.   *)
LEMMA ReadsSummary ==
  ASSUME ManagerInv, SummaryInv, ManagerMoves, NEW r \in Reloads, ReadsSlot(r)
  PROVE  SummaryInv'
<1>1. Unpublished' /\ \A i \in Reloads : Overtaken(i)' <=> Overtaken(i)
  BY NotTaken, SlotFacts DEF ReadsSlot, SummaryInv, Section
<1>2. overtaken' \in BOOLEAN /\ SummaryBehind'
  <2>1. CASE reload'[r].pc = "err"
    BY <2>1, OvertakenBy DEF ReadsSlot, StoresNothing, SummaryInv, SummaryBehind
  <2>2. CASE reload'[r].pc = "snapshot"
    BY <2>2, OvertakenBy DEF ReadsSlot, SummaryInv, SummaryBehind, InTail
  <2>. QED
    BY <2>1, <2>2 DEF ReadsSlot
<1>3. TailInv'
  <2>1. ASSUME NEW q \in Reloads, InTail(q)' PROVE InTail(q)
    BY <2>1 DEF ReadsSlot, OthersStay, InTail
  <2>. QED
    BY <1>1, <2>1, SlotFacts
       DEF SummaryInv, TailInv, InTail, ReadsSlot, OthersStay, SameConfigs, Section
<1>. QED
  BY <1>1, <1>2, <1>3 DEF SummaryInv, CurrentInv

(* The summary is stored: not overtaken, it is that of the runtime in the slot. *)
LEMMA StoresSummaryInv ==
  ASSUME ManagerInv, SummaryInv, ManagerMoves, NEW r \in Reloads, StoresSummary(r)
  PROVE  SummaryInv'
<1>1. Unpublished' /\ \A i \in Reloads : Overtaken(i)' <=> Overtaken(i)
  BY NotTaken, SlotFacts DEF StoresSummary, SummaryInv, Section
<1>2. overtaken' \in BOOLEAN /\ (overtaken' <=> Overtaken(r))
  BY OvertakenBy DEF StoresSummary, Stores, SummaryInv
<1>3. TailInv'
  <2>1. ASSUME NEW q \in Reloads, InTail(q)' PROVE InTail(q) /\ q # r /\ q \in Runtimes
    BY <2>1, SlotFacts DEF StoresSummary, OthersStay, InTail
  <2>. QED
    BY <1>1, <2>1 DEF SummaryInv, TailInv, StoresSummary, OthersStay, SameConfigs, Section
<1>4. CurrentInv'
  <2>. SUFFICES ASSUME ~ Overtaken(r)
                PROVE  /\ active # Nobody => Shown(active)'
                       /\ \A q \in Reloads : reload'[q].pc \notin Section
    BY <1>2 DEF CurrentInv, SummaryBehind, StoresSummary, Section, Shown
  <2>1. /\ active \in {r, Nobody}
        /\ \A q \in Reloads : reload[q].pc \notin Section
        /\ reload[r].summary = proxy[r].cfg
    BY DEF SummaryInv, TailInv, InTail, StoresSummary
  <2>2. \A q \in Reloads : reload'[q].pc \notin Section
    BY <2>1 DEF StoresSummary, OthersStay, Section
  <2>3. active # Nobody => Shown(active)'
    BY <2>1, SlotFacts DEF StoresSummary, SameConfigs, Shown
  <2>. QED
    BY <2>2, <2>3
<1>. QED
  BY <1>1, <1>2, <1>3, <1>4 DEF SummaryInv

(* The note of an error leaves the summary alone.                             *)
LEMMA NotesSummary ==
  ASSUME ManagerInv, SummaryInv, ManagerMoves, NEW r \in Reloads, NotesError(r)
  PROVE  SummaryInv'
<1>1. Unpublished' /\ \A i \in Reloads : Overtaken(i)' <=> Overtaken(i)
  BY NotTaken, SlotFacts DEF NotesError, SummaryInv, Section
<1>2. overtaken' = overtaken /\ overtaken \in BOOLEAN
  BY OvertakenBy DEF NotesError, Stores, StoresNothing, SummaryInv
<1>3. \A q \in Reloads : /\ InTail(q)' <=> InTail(q)
                         /\ reload'[q].pc \in Section => q # r
  BY DEF NotesError, OthersStay, InTail, Section
<1>4. TailInv'
  BY <1>1, <1>3, SlotFacts
     DEF SummaryInv, TailInv, NotesError, OthersStay, SameConfigs
<1>5. SummaryBehind' <=> SummaryBehind
  BY <1>2, <1>3 DEF SummaryBehind
<1>6. CurrentInv'
  BY <1>3, <1>5, SlotFacts
     DEF SummaryInv, CurrentInv, Shown, NotesError, OthersStay, SameConfigs, SameSummary
<1>. QED
  BY <1>1, <1>2, <1>4, <1>6 DEF SummaryInv

(* Every step of the manager and of the pages keeps the invariant of the      *)
(* summary.                                                                   *)
LEMMA NextSummaryInv ==
  ManagerInv /\ SummaryInv /\ [ResultsNext]_resultsVars => SummaryInv'
<1>. SUFFICES ASSUME ManagerInv, SummaryInv, [ResultsNext]_resultsVars PROVE SummaryInv'
  OBVIOUS
<1>1. CASE ManagerMoves
  BY <1>1, ManagerStepKinds, AsideSummary, TakesSummary, ReplacesSummary, FillsSummary,
     ReadsSummary, StoresSummaryInv, NotesSummary DEF ManagerMoves
<1>2. CASE UNCHANGED <<vars, overtaken>>
  BY <1>2 DEF vars, SummaryInv, Unpublished, TailInv, CurrentInv, Shown, SummaryBehind,
              Overtaken, InTail
<1>. QED
  BY <1>1, <1>2 DEF ResultsNext, ResultsOpen, ResultsRender, resultsVars, vars

(* What a step of the manager may do to the summaries: only a runtime that is *)
(* not in the slot yet is given a config; a stored summary was read by a      *)
(* reload, and a summary is read from the slot.                               *)
LEMMA SummaryMoves ==
  ASSUME ManagerInv, [Next]_vars
  PROVE  /\ \A r \in Reloads : reload'[r].pc \in Section \cup {"idle"} =>
              reload[r].pc \in Section \cup {"idle"}
         /\ \A i \in Runtimes : \/ proxy'[i].cfg = proxy[i].cfg
                                \/ i \in Reloads /\ reload[i].pc \in Section
         /\ SameSummary \/ \E r \in Reloads : /\ reload[r].pc = "snapshot"
                                              /\ snapshot'.active_runtime = reload[r].summary
         /\ \A r \in Reloads : reload'[r].pc = "snapshot" =>
              \/ reload[r].pc = "snapshot" /\ reload'[r].summary = reload[r].summary
              \/ active # Nobody /\ reload'[r].summary = proxy[active].cfg
<1>1. CASE StepsAside
  <2>1. reload' = reload /\ SameSummary /\ \A i \in Runtimes : proxy'[i].cfg = proxy[i].cfg
    BY <1>1 DEF StepsAside, SameConfigs
  <2>. QED
    BY <2>1
<1>2. ASSUME NEW r \in Reloads,
             Takes(r) \/ Fills(r) \/ ReadsSlot(r) \/ StoresSummary(r) \/ NotesError(r)
      PROVE  /\ SameConfigs /\ OthersStay(r)
             /\ reload'[r].pc \in Section \cup {"idle"} => reload[r].pc = "idle"
             /\ SameSummary \/ /\ reload[r].pc = "snapshot"
                               /\ snapshot'.active_runtime = reload[r].summary
             /\ reload'[r].pc = "snapshot" =>
                  active # Nobody /\ reload'[r].summary = proxy[active].cfg
  BY <1>2 DEF Takes, Fills, ReadsSlot, StoresSummary, NotesError, Section
<1>3. ASSUME NEW r \in Reloads, Replaces(r)
      PROVE  /\ OthersStay(r) /\ SameSummary /\ reload[r].pc \in Section
             /\ reload'[r].pc # "snapshot"
             /\ \A i \in Runtimes \ {r} : proxy'[i].cfg = proxy[i].cfg
  BY <1>3 DEF Replaces, Section
<1>4. CASE \E r \in Reloads :
             Takes(r) \/ Fills(r) \/ ReadsSlot(r) \/ StoresSummary(r) \/ NotesError(r)
  <2>1. PICK r \in Reloads :
          Takes(r) \/ Fills(r) \/ ReadsSlot(r) \/ StoresSummary(r) \/ NotesError(r)
    BY <1>4
  <2>. QED
    BY <1>2, <2>1 DEF OthersStay, SameConfigs
<1>5. CASE \E r \in Reloads : Replaces(r)
  <2>1. PICK r \in Reloads : Replaces(r)
    BY <1>5
  <2>. QED
    BY <1>3, <2>1 DEF OthersStay
<1>. QED
  BY <1>1, <1>4, <1>5, ManagerStepKinds

(* A step of the manager under a page that waits.                             *)
LEMMA MovesQueryAt ==
  ASSUME ManagerInv, SummaryInv, SummaryInv', QueryInv, ManagerMoves,
         NEW t \in Readers, query[t] # Nobody, ~ lagging[t]
  PROVE  QueryAt(t)'
<1>1. QueryAt(t) /\ Known(t) \subseteq Runtimes
  BY DEF QueryInv, Known
<1>2. query'[t] = query[t] /\ later'[t] = later[t] \cup ({active'} \ ({Nobody} \cup {active}))
  BY DEF ManagerMoves, QueryInv
<1>3. /\ Known(t) \subseteq Known(t)'
      /\ Known(t)' \subseteq Known(t) \cup {active'}
      /\ active' # Nobody => active' \in Known(t)'
  BY <1>1, <1>2 DEF Known, QueryAt
<1>4. [Next]_vars
  BY DEF ManagerMoves
<1>5. \A i \in Known(t) : proxy'[i].cfg = proxy[i].cfg
  BY <1>1, <1>4, SummaryMoves DEF QueryAt
<1>6. \A r \in Reloads : reload'[r].pc \in Section \cup {"idle"} => r \notin Known(t)'
  BY <1>1, <1>3, <1>4, SummaryMoves DEF QueryAt, SummaryInv, Unpublished
<1>7. \E i \in Known(t) : snapshot'.active_runtime = proxy[i].cfg
  BY <1>1, <1>4, SummaryMoves DEF QueryAt, SameSummary, Shown
<1>8. ASSUME NEW r \in Reloads, reload'[r].pc = "snapshot"
      PROVE  \E i \in Known(t) : reload'[r].summary = proxy[i].cfg
  BY <1>1, <1>4, <1>8, SummaryMoves DEF QueryAt
<1>9. (\E i \in Known(t) : Shown(i))'
  BY <1>3, <1>5, <1>7 DEF Shown
<1>10. \A r \in Reloads : reload'[r].pc = "snapshot" =>
         \E i \in Known(t)' : reload'[r].summary = proxy'[i].cfg
  BY <1>3, <1>5, <1>8
<1>. QED
  BY <1>3, <1>6, <1>9, <1>10 DEF QueryAt

(* A lookup that does not fall where the summary is behind finds what is shown. *)
LEMMA OpenQueryAt ==
  ASSUME ManagerInv, SummaryInv, QueryInv, NEW t \in Readers, ResultsOpen(t),
         ~ SummaryBehind
  PROVE  QueryAt(t)'
<1>1. Known(t)' = {active} /\ active # Nobody /\ UNCHANGED <<active, proxy, snapshot, reload>>
  BY DEF ResultsOpen, QueryInv, Known, vars
<1>2. Shown(active) /\ \A r \in Reloads : reload[r].pc # "snapshot"
  BY <1>1 DEF SummaryInv, CurrentInv, SummaryBehind, InTail
<1>3. \A r \in Reloads : reload[r].pc \in Section \cup {"idle"} => r # active
  BY DEF SummaryInv, Unpublished
<1>. QED
  BY <1>1, <1>2, <1>3 DEF QueryAt, Shown

(* Every step keeps the invariant of the pages.                               *)
LEMMA NextQueryInv ==
  ManagerInv /\ ManagerInv' /\ SummaryInv /\ SummaryInv' /\ QueryInv
    /\ [ResultsNext]_resultsVars => QueryInv'
<1>. SUFFICES ASSUME ManagerInv, ManagerInv', SummaryInv, SummaryInv', QueryInv,
                     [ResultsNext]_resultsVars
              PROVE  QueryInv'
  OBVIOUS
<1>1. active \in Runtimes \cup {Nobody} /\ active' \in Runtimes \cup {Nobody}
      /\ SummaryBehind \in BOOLEAN
  BY DEF ManagerInv, TypeOK, SummaryInv, SummaryBehind
<1>2. CASE ManagerMoves
  <2>1. /\ query' = query /\ lagging' = lagging
        /\ later' \in [Readers -> SUBSET Runtimes]
    BY <1>1, <1>2 DEF ManagerMoves, QueryInv
  <2>. QED
    BY <1>2, <2>1, MovesQueryAt DEF QueryInv
<1>3. ASSUME NEW t \in Readers, ResultsOpen(t) \/ ResultsRender(t) PROVE QueryInv'
  <2>1. /\ query' \in [Readers -> Runtimes \cup {Nobody}]
        /\ lagging' \in [Readers -> BOOLEAN]
        /\ later' \in [Readers -> SUBSET Runtimes]
    BY <1>1, <1>3 DEF ResultsOpen, ResultsRender, QueryInv
  <2>2. UNCHANGED <<active, proxy, snapshot, reload>>
    BY <1>3 DEF ResultsOpen, ResultsRender, vars
  <2>3. ASSUME NEW z \in Readers, z # t, query'[z] # Nobody, ~ lagging'[z] PROVE QueryAt(z)'
    <3>1. query'[z] = query[z] /\ lagging'[z] = lagging[z] /\ later'[z] = later[z]
      BY <1>3, <2>3 DEF ResultsOpen, ResultsRender, QueryInv
    <3>2. QueryAt(z)
      BY <2>3, <3>1 DEF QueryInv
    <3>. QED
      BY <2>2, <3>1, <3>2 DEF QueryAt, Known, Shown
  <2>4. query'[t] # Nobody /\ ~ lagging'[t] => QueryAt(t)'
    <3>1. CASE ResultsOpen(t)
      BY <3>1, OpenQueryAt DEF ResultsOpen, QueryInv
    <3>2. CASE ResultsRender(t)
      BY <3>2 DEF ResultsRender, QueryInv
    <3>. QED
      BY <1>3, <3>1, <3>2
  <2>. QED
    BY <2>1, <2>3, <2>4 DEF QueryInv
<1>4. CASE UNCHANGED resultsVars
  BY <1>4 DEF resultsVars, QueryInv, QueryAt, Known, Shown
<1>. QED
  BY <1>2, <1>3, <1>4 DEF ResultsNext

(* The invariant of the summary and of the pages holds, for any number of     *)
(* reloads, saves and readers.                                                *)
THEOREM ResultsInvariant == ResultsSpec => []ResultsInv
<1>1. ResultsInit => ResultsInv
  <2>. SUFFICES ASSUME ResultsInit PROVE ResultsInv
    OBVIOUS
  <2>1. Nobody \notin Runtimes /\ Boot \notin Reloads /\ Boot \in Runtimes
        /\ Reloads \subseteq Runtimes
    BY ManagerAssumption DEF Runtimes
  <2>2. SummaryInv
    <3>1. /\ overtaken = FALSE /\ active = Boot /\ Shown(Boot)
          /\ \A r \in Reloads : reload[r].pc = "idle" /\ reload[r].previous = Nobody
      BY <2>1 DEF ResultsInit, Init, Shown
    <3>2. Unpublished
      BY <2>1, <3>1 DEF Unpublished, Overtaken
    <3>3. TailInv
      BY <3>1 DEF TailInv, InTail
    <3>4. CurrentInv
      BY <3>1 DEF CurrentInv, Section
    <3>. QED
      BY <3>1, <3>2, <3>3, <3>4 DEF SummaryInv
  <2>3. QueryInv
    BY DEF ResultsInit, QueryInv
  <2>. QED
    BY <2>2, <2>3 DEF ResultsInv
<1>2. ResultsInv /\ ManagerInv /\ ManagerInv' /\ [ResultsNext]_resultsVars => ResultsInv'
  BY NextSummaryInv, NextQueryInv DEF ResultsInv
<1>. QED
  BY <1>1, <1>2, ResultsRunManager, ManagerInvariant, PTL DEF ResultsSpec

(* reload_inner keeps the sidebar's active runtime in step with the slot: the *)
(* summary is behind only while a reload is in its tail, or after one that    *)
(* another reload overtook there.                                             *)
THEOREM SummaryIsCurrentHolds == ResultsSpec => []SummaryIsCurrent
<1>1. ResultsInv => SummaryIsCurrent
  BY DEF ResultsInv, SummaryInv, CurrentInv, Shown, SummaryIsCurrent
<1>. QED
  BY <1>1, ResultsInvariant, PTL

(* results_page: the caption names the database that was asked, or that of a  *)
(* runtime a reload put in the slot while the query ran.                      *)
THEOREM CaptionNamesDatabaseHolds == ResultsSpec => []CaptionNamesDatabase
<1>1. ResultsInv => CaptionNamesDatabase
  BY DEF ResultsInv, QueryInv, QueryAt, Known, Shown, Caption, CaptionNamesDatabase
<1>. QED
  BY <1>1, ResultsInvariant, PTL
=============================================================================

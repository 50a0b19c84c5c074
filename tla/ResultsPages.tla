---------------------------- MODULE ResultsPages ----------------------------
(* src/src/admin.rs: browsing the captured events while the runtime manager   *)
(* replaces the runtime. A results page looks up the database of the runtime  *)
(* in the slot, awaits its query, and only then reads the snapshot for the    *)
(* caption: saves and reloads may run in between. The filter and the rows are *)
(* left out; the query is what takes time and may fail.                       *)
EXTENDS RuntimeManager

CONSTANTS Readers,     \* browser tabs on the results pages
          Paths,       \* database files
          SqlitePath   \* sqlite_path of each config

ASSUME ResultsAssumption == SqlitePath \in [Configs -> Paths]

VARIABLE query         \* each reader's handler, while it awaits its query

\* History variables, which no action reads.
VARIABLES overtaken,   \* the last reload to end its tail was overtaken: another
                       \* reload took its runtime before it stored its summary
          lagging,     \* of each page: the summary was behind at its lookup
          later        \* of each page whose lookup was not lagging: runtimes
                       \* that were put in the slot since

resultsVars == <<disk, active, proxy, snapshot, reload, save, main,
                 query, overtaken, lagging, later>>

ResultsInit ==
  /\ Init
  /\ query = [t \in Readers |-> Nobody]
  /\ overtaken = FALSE
  /\ lagging = [t \in Readers |-> FALSE]
  /\ later = [t \in Readers |-> {}]

-----------------------------------------------------------------------------
(* Reloads between the publishing of their runtime and the end of their tail. *)

InTail(r) == reload[r].pc \in {"summary", "snapshot"}
Overtaken(r) == \E q \in Reloads : reload[q].previous = r
SummaryBehind == overtaken \/ \E r \in Reloads : InTail(r)

Stores(r) == reload[r].pc = "snapshot" /\ reload'[r].pc = "ok"
StoresNothing(r) == reload[r].pc = "summary" /\ reload'[r].pc = "err"

-----------------------------------------------------------------------------
(* results_page and result_detail_page.                                      *)

\* active_database, whose connection the handler keeps: without a runtime in
\* the slot there is only an error page.
ResultsOpen(t) ==
  /\ main = "serving"
  /\ query[t] = Nobody
  /\ active # Nobody
  /\ query' = [query EXCEPT ![t] = active]
  /\ lagging' = [lagging EXCEPT ![t] = SummaryBehind]
  /\ later' = [later EXCEPT ![t] = {}]
  /\ UNCHANGED <<vars, overtaken>>

\* Mutant: the page names the database of the saved file.
SavedCaption == SqlitePath[snapshot.saved_config]

\* "Active SQLite database: {}"
Caption == SqlitePath[snapshot.active_runtime]

\* list_events or load_event_detail ended, and the page or an error page is
\* rendered.
ResultsRender(t) ==
  /\ query[t] # Nobody
  /\ query' = [query EXCEPT ![t] = Nobody]
  /\ lagging' = [lagging EXCEPT ![t] = FALSE]
  /\ later' = [later EXCEPT ![t] = {}]
  /\ UNCHANGED <<vars, overtaken>>

\* A step of the manager, which the pages only watch; but the admin server is
\* stopped gracefully, that is, after the handlers that are under way.
ManagerMoves ==
  /\ Next
  /\ main' # main => \A t \in Readers : query[t] = Nobody
  /\ overtaken' = \/ \E r \in Reloads : Stores(r) /\ Overtaken(r)
                  \/ \E r \in Reloads : StoresNothing(r)
                  \/ overtaken /\ \A r \in Reloads : ~ Stores(r)
  /\ later' = [t \in Readers |->
                 IF query[t] = Nobody \/ lagging[t] \/ active' = active THEN later[t]
                 ELSE later[t] \cup ({active'} \ {Nobody})]
  /\ UNCHANGED <<query, lagging>>

ResultsNext ==
  \/ ManagerMoves
  \/ \E t \in Readers : ResultsOpen(t) \/ ResultsRender(t)

ResultsSpec == ResultsInit /\ [][ResultsNext]_resultsVars
ResultsFairSpec == ResultsSpec /\ Fairness

-----------------------------------------------------------------------------
(* Properties.                                                               *)

(* The sidebar's "Active runtime" is the runtime in the slot, after any       *)
(* number of reloads and also after a failed start was rolled back. Two cases *)
(* are excepted: a reload has put its runtime in the slot and not yet stored  *)
(* its summary; or the last one to do so was overtaken, that is, another      *)
(* reload had taken its runtime by then.                                      *)
SummaryIsCurrent ==
  ~ SummaryBehind /\ active # Nobody => snapshot.active_runtime = proxy[active].cfg

(* Whenever a results page is rendered, it names the database its rows came   *)
(* from or that of a runtime which a reload put in the slot since the lookup: *)
(* never one that was given up before, nor one that was saved but not loaded. *)
(* Excepted is a page whose lookup fell where the summary was behind.         *)
CaptionNamesDatabase ==
  \A t \in Readers : query[t] # Nobody /\ ~ lagging[t] =>
    \E i \in {query[t]} \cup later[t] : Caption = SqlitePath[proxy[i].cfg]
=============================================================================

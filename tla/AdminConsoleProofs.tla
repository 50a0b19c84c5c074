------------------------- MODULE AdminConsoleProofs -------------------------
(* Proofs, for any number of tabs, saves, reloads, settings and rules, of the *)
(* safety properties of AdminConsole. The admin UI drives the manager as      *)
(* RuntimeManager specifies it, so the manager's theorems are used here.      *)
EXTENDS AdminConsole, RuntimeManagerProofs, ConfigFormProofs

-----------------------------------------------------------------------------
(* Drafts.                                                                   *)

(* A valid file is a file.                                                    *)
LEMMA ConfigFacts ==
  ASSUME NEW c \in Configs
  PROVE  /\ c \in Files
         /\ c.runtime \in Settings
         /\ c.transforms \in Seq(Rules) /\ Len(c.transforms) \in Nat
         /\ Len(c.transforms) <= MaxRules
<1>1. /\ c.runtime \in Settings
      /\ c.transforms \in BoundedSeq({ r \in Rules : ValidRule(r) }, MaxRules)
      /\ c = [runtime |-> c.runtime, transforms |-> c.transforms]
  BY ConsoleAssumption DEF ValidFiles
<1>2. /\ c.transforms \in Seq({ r \in Rules : ValidRule(r) })
      /\ Len(c.transforms) <= MaxRules
  BY <1>1, ListsAreSequences, FormAssumption
<1>3. c.transforms \in Seq(Rules) /\ Len(c.transforms) \in Nat
  BY <1>2
<1>4. c.transforms \in BoundedSeq(Rules, MaxRules)
  BY <1>2, <1>3, SequencesAreLists, FormAssumption
<1>. QED
  BY <1>1, <1>2, <1>3, <1>4 DEF Files

(* What to_runtime_config accepts in save_config, a reload accepts.           *)
LEMMA ValidDraft ==
  ASSUME NEW c \in Files, Valid(c) PROVE c \in Configs
<1>1. /\ c.runtime \in Settings /\ ValidSettings(c.runtime)
      /\ c.transforms \in BoundedSeq(Rules, MaxRules)
      /\ c = [runtime |-> c.runtime, transforms |-> c.transforms]
  BY DEF Files, Valid
<1>2. c.transforms \in Seq(Rules) /\ Len(c.transforms) <= MaxRules
  BY <1>1, ListsAreSequences, FormAssumption
<1>3. \A i \in 1..Len(c.transforms) : ValidRule(c.transforms[i]) /\ c.transforms[i] \in Rules
  BY <1>2 DEF Valid
<1>4. c.transforms \in Seq({ r \in Rules : ValidRule(r) })
  BY <1>2, <1>3
<1>5. c.transforms \in BoundedSeq({ r \in Rules : ValidRule(r) }, MaxRules)
  BY <1>2, <1>4, SequencesAreLists, FormAssumption
<1>. QED
  BY <1>1, <1>5, ConsoleAssumption DEF ValidFiles

(* The config page drafts settings and keeps the rules that were saved.       *)
LEMMA ConfigDraftFacts ==
  ASSUME snapshot.saved_config \in Configs, NEW shown \in Settings,
         NEW values \in SettingsPosts(shown)
  PROVE  /\ ConfigDraft(values) \in Files
         /\ ConfigDraft(values).transforms = snapshot.saved_config.transforms
<1>. DEFINE c == snapshot.saved_config
<1>1. c \in Files /\ c.runtime \in Settings
  BY ConfigFacts
<1>2. runtime_from_form(values, c.runtime) \in Settings
  BY <1>1, ConsoleAssumption DEF Closed
<1>. QED
  BY <1>1, <1>2 DEF ConfigDraft, Files

(* A posted rules form is made of articles.                                   *)
LEMMA RulesPostFacts ==
  ASSUME NEW rules \in BoundedSeq(Rules, MaxRules), NEW values \in RulesPosts(rules)
  PROVE  /\ values.articles \in Seq(Article)
         /\ \A i \in DOMAIN values.articles : RuleFromForm(values.articles[i]) \in Rules
         /\ values.counted \in BOOLEAN
         /\ Len(values.articles) <= MaxRules
<1>1. rules \in Seq(Rules) /\ Len(rules) <= MaxRules
  BY ListsAreSequences, FormAssumption
<1>2. /\ Rules \subseteq Article /\ TypedRules \subseteq Article
      /\ \A a \in TypedRules : RuleFromForm(a) \in Rules
      /\ \A r \in Rules : RuleFromForm(r) = r
  BY ConsoleAssumption, RuleRoundTrip DEF Closed, TransformRuleFile
<1>3. CASE values = TransformsPage(rules)
  BY <1>1, <1>2, <1>3 DEF TransformsPage
<1>4. CASE values = [articles |-> << >>, counted |-> FALSE]
  BY <1>4, FormAssumption
<1>5. ASSUME NEW i \in DOMAIN rules, NEW a \in TypedRules,
             values = [TransformsPage(rules) EXCEPT !.articles[i] = a]
      PROVE  /\ values.articles \in Seq(Article)
             /\ \A j \in DOMAIN values.articles : RuleFromForm(values.articles[j]) \in Rules
             /\ values.counted \in BOOLEAN
             /\ Len(values.articles) <= MaxRules
  <2>. DEFINE new == [rules EXCEPT ![i] = a]
  <2>1. values.articles = new /\ values.counted = TRUE
    BY <1>5 DEF TransformsPage
  <2>2. Len(rules) \in Nat /\ new \in [1..Len(rules) -> Article]
    BY <1>1, <1>2
  <2>3. \A j \in 1..Len(rules) : RuleFromForm(new[j]) \in Rules
    BY <1>1, <1>2
  <2>. HIDE DEF new
  <2>4. new \in Seq(Article) /\ Len(new) = Len(rules) /\ DOMAIN new = 1..Len(rules)
    BY <2>2
  <2>. QED
    BY <1>1, <2>1, <2>3, <2>4
<1>6. \/ values = TransformsPage(rules)
      \/ values = [articles |-> << >>, counted |-> FALSE]
      \/ \E i \in DOMAIN rules, a \in TypedRules :
           values = [TransformsPage(rules) EXCEPT !.articles[i] = a]
  <2>1. TransformsPage(rules).articles = rules
    BY DEF TransformsPage
  <2>. DEFINE Put(i, a) == [TransformsPage(rules) EXCEPT !.articles[i] = a]
  <2>2. values \in {TransformsPage(rules), [articles |-> << >>, counted |-> FALSE]}
                     \cup { Put(i, a) : i \in DOMAIN rules, a \in TypedRules }
    BY <2>1 DEF RulesPosts
  <2>. HIDE DEF Put
  <2>3. \/ values \in {TransformsPage(rules), [articles |-> << >>, counted |-> FALSE]}
        \/ \E i \in DOMAIN rules, a \in TypedRules : values = Put(i, a)
    BY <2>2
  <2>. QED
    BY <2>3 DEF Put
<1>. QED
  BY <1>3, <1>4, <1>5, <1>6

(* The transforms page drafts rules and keeps the settings that were saved.   *)
LEMMA TransformsDraftFacts ==
  ASSUME snapshot.saved_config \in Configs, NEW rules \in BoundedSeq(Rules, MaxRules),
         NEW values \in RulesPosts(rules), NEW button
  PROVE  /\ TransformsDraft(values, button).runtime = snapshot.saved_config.runtime
         /\ TransformsDraft(values, button).transforms \in Seq(Rules)
         /\ button = "save" \/ Len(TransformsDraft(values, button).transforms) <= MaxRules
              => TransformsDraft(values, button) \in Files
<1>. DEFINE c == snapshot.saved_config
            drafted == transforms_from_form(values, c.transforms)
            edited == apply_editor_action(drafted, button, editor_index(values))
<1>1. c \in Files /\ c.runtime \in Settings /\ Len(c.transforms) \in Nat
      /\ Len(c.transforms) <= MaxRules
  BY ConfigFacts
<1>2. blank_transform \in Rules
  BY ConsoleAssumption DEF Closed
<1>3. drafted \in Seq(Rules) /\ Len(drafted) <= MaxRules
  <2>1. /\ drafted \in Seq(Rules)
        /\ Len(drafted) = IF values.counted THEN Len(values.articles) ELSE Len(c.transforms)
    BY <1>1, <1>2, RulesPostFacts, RulesTyped
  <2>. QED
    BY <1>1, <2>1, RulesPostFacts
<1>4. edited \in Seq(Rules)
  BY <1>2, <1>3, RulesPostFacts, IndexTyped, EditTyped
<1>5. button = "save" => edited = drafted
  BY DEF apply_editor_action
<1>6. TransformsDraft(values, button) = [c EXCEPT !.transforms = edited]
  BY DEF TransformsDraft
<1>. HIDE DEF drafted, edited
<1>7. button = "save" \/ Len(edited) <= MaxRules => edited \in BoundedSeq(Rules, MaxRules)
  BY <1>3, <1>4, <1>5, SequencesAreLists, FormAssumption
<1>. QED
  BY <1>1, <1>4, <1>6, <1>7 DEF Files

-----------------------------------------------------------------------------
(* The invariant of pages and handlers.                                      *)

\* A save that was begun has a config that to_runtime_config accepted.
SavesKnown == \A s \in Saves : save[s].pc # "idle" => save[s].cfg \in Configs

\* A handler waits for a call of its own ...
TabsInv ==
  \A t \in Tabs :
    /\ tab[t].pc = "saving" =>
         /\ tab[t].call \in Saves /\ save[tab[t].call].pc # "idle"
         /\ tab[t].at \in {"config", "transforms"}
    /\ tab[t].pc = "reloading" =>
         tab[t].call \in Reloads /\ tab[t].at \in {"config", "transforms"}
    /\ Requests(t) /\ tab[t].at = "config" => tab[t].settings \in Settings

BaseInv == ManagerInv /\ ConsoleTypeOK /\ SavesKnown /\ TabsInv

(* The kinds of steps a browser makes: a page is shown, and nothing else ...   *)
PageTurn(t) ==
  /\ UNCHANGED <<vars, wanted>>
  /\ tab[t].pc = "saving" => save[tab[t].call].pc \in {"ok", "err"}
  /\ \E rec \in TabRecord :
       /\ rec.pc = "idle"
       /\ rec.at = "config" => rec.settings \in Settings
       /\ tab' = [tab EXCEPT ![t] = rec]

\* ... a save or a reload is begun, for a handler that waits for it.
Waiting(t, step, c) == [Showing(tab[t].at) EXCEPT !.pc = step, !.call = c]
SaveStarts(t, s, draft) ==
  /\ tab[t].pc = "idle" /\ tab[t].at \in {"config", "transforms"}
  /\ SaveBegin(s, draft)
  /\ tab[t].at = "config" => draft.transforms = snapshot.saved_config.transforms
  /\ tab[t].at = "transforms" => draft.runtime = snapshot.saved_config.runtime
  /\ tab' = [tab EXCEPT ![t] = Waiting(t, "saving", s)]
  /\ UNCHANGED wanted
ReloadStarts(t, r) ==
  /\ tab[t].pc = "idle" /\ tab[t].at \in {"config", "transforms"}
  /\ ReloadTake(r)
  /\ tab' = [tab EXCEPT ![t] = Waiting(t, "reloading", r)]
  /\ UNCHANGED wanted

(* A file may have no rules.                                                  *)
LEMMA EmptyList == << >> \in BoundedSeq(Rules, MaxRules)
<1>1. << >> \in Seq(Rules) /\ Len(<< >>) = 0 /\ 0 <= MaxRules /\ MaxRules \in Nat
  BY FormAssumption
<1>. QED
  BY <1>1, SequencesAreLists

(* A page without a form is a page.                                           *)
LEMMA ShowingFacts ==
  ASSUME NEW page \in {"nothing", "config", "transforms"}
  PROVE  /\ Showing(page) \in TabRecord
         /\ \A s \in Saves : [Showing(page) EXCEPT !.pc = "saving", !.call = s] \in TabRecord
         /\ \A r \in Reloads :
              [Showing(page) EXCEPT !.pc = "reloading", !.call = r] \in TabRecord
BY EmptyList DEF Showing, TabRecord

(* An editor page shows a section of a draft.                                 *)
LEMMA EditorFacts ==
  ASSUME NEW page \in {"config", "transforms"}, NEW c \in Files
  PROVE  /\ Editor(page, c) \in TabRecord
         /\ Editor(page, c).pc = "idle"
         /\ Editor(page, c).at = "config" => Editor(page, c).settings \in Settings
<1>1. /\ c.runtime \in Settings /\ c.transforms \in BoundedSeq(Rules, MaxRules)
  BY DEF Files
<1>. QED
  BY <1>1, EmptyList DEF Editor, Showing, TabRecord

(* A draft is saved if it is valid, and shown again if it is not.             *)
LEMMA SubmitKinds ==
  ASSUME BaseInv, NEW t \in Tabs, NEW draft \in Files, SubmitSave(t, draft),
         tab[t].pc = "idle", tab[t].at \in {"config", "transforms"}, UNCHANGED wanted,
         tab[t].at = "config" => draft.transforms = snapshot.saved_config.transforms,
         tab[t].at = "transforms" => draft.runtime = snapshot.saved_config.runtime
  PROVE  PageTurn(t) \/ \E s \in Saves, c \in Configs : SaveStarts(t, s, c)
<1>1. CASE Valid(draft)
  <2>1. draft \in Configs
    BY <1>1, ValidDraft
  <2>2. PICK s \in Saves :
          /\ SaveBegin(s, draft)
          /\ tab' = [tab EXCEPT ![t] = [Showing(tab[t].at) EXCEPT !.pc = "saving", !.call = s]]
    BY <1>1 DEF SubmitSave
  <2>3. SaveStarts(t, s, draft)
    BY <2>2 DEF SaveStarts, Waiting
  <2>. QED
    BY <2>1, <2>3
<1>2. CASE ~ Valid(draft)
  <2>1. tab' = [tab EXCEPT ![t] = Editor(tab[t].at, draft)] /\ UNCHANGED vars
    BY <1>2 DEF SubmitSave, managerVars
  <2>. QED
    BY <2>1, EditorFacts DEF PageTurn
<1>. QED
  BY <1>1, <1>2

(* Every step of the admin UI is one of these, or the manager's own.          *)
LEMMA StepKinds ==
  ASSUME BaseInv, ConsoleNext
  PROVE  \/ \E t \in Tabs : PageTurn(t)
         \/ \E t \in Tabs, s \in Saves, c \in Configs : SaveStarts(t, s, c)
         \/ \E t \in Tabs, r \in Reloads : ReloadStarts(t, r)
         \/ ManagerStep
<1>1. snapshot.saved_config \in Configs /\ snapshot.saved_config \in Files
  BY ConfigFacts DEF BaseInv, ManagerInv, TypeOK, RuntimeManagerState
<1>2. ASSUME NEW t \in Tabs
      PROVE  /\ tab[t].at \in {"nothing", "config", "transforms"}
             /\ tab[t].rules \in BoundedSeq(Rules, MaxRules)
             /\ tab[t].pc = "idle" /\ tab[t].at = "config" => tab[t].settings \in Settings
  BY DEF BaseInv, ConsoleTypeOK, TabRecord, TabsInv, Requests
<1>. USE DEF managerVars
<1>3. ASSUME NEW t \in Tabs, OpenEditor(t, "config") \/ OpenEditor(t, "transforms")
      PROVE  PageTurn(t)
  BY <1>1, <1>3, EditorFacts DEF OpenEditor, PageTurn, Requests
<1>4. ASSUME NEW t \in Tabs, ConfigSubmit(t)
      PROVE  PageTurn(t) \/ \E s \in Saves, c \in Configs : SaveStarts(t, s, c)
  <2>1. PICK values \in SettingsPosts(tab[t].settings) : SubmitSave(t, ConfigDraft(values))
    BY <1>4 DEF ConfigSubmit
  <2>2. tab[t].pc = "idle" /\ tab[t].at = "config" /\ UNCHANGED wanted
    BY <1>4 DEF ConfigSubmit, Requests
  <2>3. /\ ConfigDraft(values) \in Files
        /\ ConfigDraft(values).transforms = snapshot.saved_config.transforms
    BY <1>1, <1>2, <2>2, ConfigDraftFacts
  <2>. QED
    BY <2>1, <2>2, <2>3, SubmitKinds
<1>5. ASSUME NEW t \in Tabs, TransformsSubmit(t)
      PROVE  PageTurn(t) \/ \E s \in Saves, c \in Configs : SaveStarts(t, s, c)
  <2>1. PICK values \in RulesPosts(tab[t].rules) : SubmitSave(t, TransformsDraft(values, "save"))
    BY <1>5 DEF TransformsSubmit
  <2>2. tab[t].pc = "idle" /\ tab[t].at = "transforms" /\ UNCHANGED wanted
    BY <1>5 DEF TransformsSubmit, Requests
  <2>3. /\ TransformsDraft(values, "save") \in Files
        /\ TransformsDraft(values, "save").runtime = snapshot.saved_config.runtime
    BY <1>1, <1>2, TransformsDraftFacts
  <2>. QED
    BY <2>1, <2>2, <2>3, SubmitKinds
<1>6. ASSUME NEW t \in Tabs, TransformsEdit(t) PROVE PageTurn(t)
  <2>1. PICK values \in RulesPosts(tab[t].rules), button \in Buttons :
          /\ Len(TransformsDraft(values, button).transforms) <= MaxRules
          /\ tab' = [tab EXCEPT ![t] = Editor("transforms", TransformsDraft(values, button))]
    BY <1>6 DEF TransformsEdit
  <2>2. TransformsDraft(values, button) \in Files
    BY <1>1, <1>2, <2>1, TransformsDraftFacts
  <2>. QED
    BY <1>6, <2>1, <2>2, EditorFacts DEF TransformsEdit, PageTurn, Requests
<1>7. ASSUME NEW t \in Tabs, SaveRespond(t) PROVE PageTurn(t)
  <2>1. /\ tab[t].pc = "saving" /\ save[tab[t].call].pc \in {"ok", "err"}
        /\ tab' = [tab EXCEPT ![t] = Editor(tab[t].at, save[tab[t].call].cfg)]
        /\ UNCHANGED <<vars, wanted>>
    BY <1>7 DEF SaveRespond
  <2>2. tab[t].call \in Saves /\ tab[t].at \in {"config", "transforms"}
    BY <2>1 DEF BaseInv, TabsInv
  <2>3. save[tab[t].call].cfg \in Files
    BY <2>1, <2>2, ConfigFacts DEF BaseInv, SavesKnown
  <2>. QED
    BY <2>1, <2>2, <2>3, EditorFacts DEF PageTurn
<1>8. ASSUME NEW t \in Tabs, ReloadSubmit(t)
      PROVE  \E r \in Reloads : ReloadStarts(t, r)
  BY <1>8 DEF ReloadSubmit, ReloadStarts, Waiting, Requests
<1>9. ASSUME NEW t \in Tabs, ReloadRespond(t) PROVE PageTurn(t)
  <2>1. tab[t].at \in {"config", "transforms"}
    BY <1>9 DEF BaseInv, TabsInv, ReloadRespond
  <2>. QED
    BY <1>1, <1>9, <2>1, EditorFacts DEF ReloadRespond, PageTurn
<1>10. ASSUME NEW t \in Tabs, Leave(t) PROVE PageTurn(t)
  <2>1. /\ tab[t].pc # "saving" /\ UNCHANGED <<vars, wanted>>
        /\ tab' = [tab EXCEPT ![t] = Showing("nothing")]
    BY <1>10 DEF Leave
  <2>2. Showing("nothing").pc = "idle" /\ Showing("nothing").at = "nothing"
    BY DEF Showing
  <2>. QED
    BY <2>1, <2>2, ShowingFacts DEF PageTurn
<1>. QED
  BY <1>3, <1>4, <1>5, <1>6, <1>7, <1>8, <1>9, <1>10 DEF ConsoleNext

-----------------------------------------------------------------------------
(* The admin UI uses the manager as RuntimeManager says.                     *)

(* A step of the admin UI is a step of the manager, or leaves it alone.       *)
LEMMA StepsOfManager ==
  ASSUME BaseInv, [ConsoleNext]_consoleVars PROVE [Next]_vars
<1>1. CASE UNCHANGED consoleVars
  BY <1>1 DEF consoleVars, vars
<1>2. ASSUME NEW t \in Tabs, PageTurn(t) PROVE [Next]_vars
  BY <1>2 DEF PageTurn
<1>3. ASSUME NEW t \in Tabs, NEW s \in Saves, NEW c \in Configs, SaveStarts(t, s, c)
      PROVE  Next
  BY <1>3 DEF SaveStarts, Next
<1>4. ASSUME NEW t \in Tabs, NEW r \in Reloads, ReloadStarts(t, r) PROVE Next
  BY <1>4 DEF ReloadStarts, Next
<1>5. ASSUME ManagerStep PROVE Next
  BY <1>5 DEF ManagerStep, Next
<1>. QED
  BY <1>1, <1>2, <1>3, <1>4, <1>5, StepKinds

(* A save keeps the draft it was begun with, and never is begun again.        *)
LEMMA SavesGoOn ==
  ASSUME TypeOK, [Next]_vars, NEW s \in Saves
  PROVE  /\ save[s].pc # "idle" => save'[s].pc # "idle" /\ save'[s].cfg = save[s].cfg
         /\ save[s].pc = "idle" /\ save'[s].pc # "idle" => save'[s].cfg \in Configs
<1>. USE DEF TypeOK, SaveRecord
<1>1. CASE UNCHANGED save
  BY <1>1
<1>2. ASSUME NEW z \in Saves, SaveStep(z) \/ \E c \in Configs : SaveBegin(z, c)
      PROVE  /\ save[s].pc # "idle" => save'[s].pc # "idle" /\ save'[s].cfg = save[s].cfg
             /\ save[s].pc = "idle" /\ save'[s].pc # "idle" => save'[s].cfg \in Configs
  <2>1. CASE SaveCompare(z)
    BY <2>1 DEF SaveCompare
  <2>2. CASE SaveTruncate(z)
    BY <2>2 DEF SaveTruncate
  <2>3. CASE SaveWrite(z)
    BY <2>3 DEF SaveWrite
  <2>4. CASE SaveSnapshot(z)
    BY <2>4 DEF SaveSnapshot
  <2>5. CASE \E c \in Configs : SaveBegin(z, c)
    BY <2>5 DEF SaveBegin
  <2>. QED
    BY <1>2, <2>1, <2>2, <2>3, <2>4, <2>5 DEF SaveStep
<1>3. ASSUME NEW r \in Reloads, ReloadStep(r) PROVE UNCHANGED save
  BY <1>3 DEF ReloadStep, ReloadLoad, ReloadLoadFails, ReloadStop, ReloadJoin, ReloadReleased,
              ReloadNotReleased, ReloadStart, ReloadPublish, ReloadSummary, ReloadSnapshot,
              ReloadFallback, ReloadRestore, ReloadNote
<1>. QED
  BY <1>1, <1>2, <1>3 DEF Next, vars, Bind, TaskStops, ReloadTake, MainShutdown, Signal

(* A page that is shown in a tab, or a handler that waits there.              *)
LEMMA TabChange ==
  ASSUME BaseInv, [Next]_vars, NEW t \in Tabs, NEW rec \in TabRecord,
         tab' = [tab EXCEPT ![t] = rec],
         rec.pc = "saving" =>
           /\ rec.call \in Saves /\ save'[rec.call].pc # "idle"
           /\ rec.at \in {"config", "transforms"},
         rec.pc = "reloading" => rec.call \in Reloads /\ rec.at \in {"config", "transforms"},
         rec.pc = "idle" /\ rec.at = "config" => rec.settings \in Settings
  PROVE  TabsInv' /\ tab' \in [Tabs -> TabRecord]
<1>1. /\ tab \in [Tabs -> TabRecord] /\ TypeOK /\ TabsInv
  BY DEF BaseInv, ConsoleTypeOK
<1>2. tab' \in [Tabs -> TabRecord] /\ tab'[t] = rec
  BY <1>1
<1>3. ASSUME NEW u \in Tabs, u # t PROVE tab'[u] = tab[u]
  BY <1>1, <1>3
<1>4. \A s \in Saves : save[s].pc # "idle" => save'[s].pc # "idle"
  BY <1>1, SavesGoOn
<1>. QED
  BY <1>1, <1>2, <1>3, <1>4 DEF TabsInv, Requests

(* Every step of the admin UI keeps the invariant.                            *)
LEMMA NextBaseInv == BaseInv /\ [ConsoleNext]_consoleVars => BaseInv'
<1>. SUFFICES ASSUME BaseInv, [ConsoleNext]_consoleVars PROVE BaseInv'
  OBVIOUS
<1>1. [Next]_vars
  BY StepsOfManager
<1>2. /\ TypeOK /\ tab \in [Tabs -> TabRecord] /\ wanted \in Files /\ overlapped \in BOOLEAN
      /\ SavesKnown /\ TabsInv /\ ManagerInv
  BY DEF BaseInv, ConsoleTypeOK
<1>3. ManagerInv' /\ TypeOK'
  BY <1>1, <1>2, NextManagerInv DEF ManagerInv
<1>4. SavesKnown'
  BY <1>1, <1>2, SavesGoOn DEF SavesKnown
<1>5. overlapped' \in BOOLEAN
  <2>1. CASE ConsoleNext
    <3>1. (overlapped \/ Meet') \in BOOLEAN
      BY Zenon
    <3>. QED
      BY <2>1, <3>1 DEF ConsoleNext
  <2>2. CASE UNCHANGED consoleVars
    BY <1>2, <2>2 DEF consoleVars
  <2>. QED
    BY <2>1, <2>2
<1>6. ASSUME tab' \in [Tabs -> TabRecord], wanted' \in Files, TabsInv' PROVE BaseInv'
  BY <1>3, <1>4, <1>5, <1>6 DEF BaseInv, ConsoleTypeOK
<1>7. CASE UNCHANGED tab /\ wanted' \in Files
  <2>1. \A s \in Saves : save[s].pc # "idle" => save'[s].pc # "idle"
    BY <1>1, <1>2, SavesGoOn
  <2>2. TabsInv'
    BY <1>2, <1>7, <2>1 DEF TabsInv, Requests
  <2>. QED
    BY <1>2, <1>6, <1>7, <2>2
<1>8. ASSUME NEW t \in Tabs, PageTurn(t) PROVE BaseInv'
  <2>1. PICK rec \in TabRecord :
          /\ rec.pc = "idle"
          /\ rec.at = "config" => rec.settings \in Settings
          /\ tab' = [tab EXCEPT ![t] = rec]
    BY <1>8 DEF PageTurn
  <2>2. TabsInv' /\ tab' \in [Tabs -> TabRecord]
    BY <1>1, <2>1, TabChange
  <2>. QED
    BY <1>2, <1>6, <1>8, <2>2 DEF PageTurn
<1>9. ASSUME NEW t \in Tabs, NEW s \in Saves, NEW c \in Configs, SaveStarts(t, s, c)
      PROVE  BaseInv'
  <2>. DEFINE rec == Waiting(t, "saving", s)
  <2>1. /\ tab[t].at \in {"config", "transforms"} /\ SaveBegin(s, c) /\ UNCHANGED wanted
        /\ tab' = [tab EXCEPT ![t] = rec]
    BY <1>9 DEF SaveStarts
  <2>2. rec \in TabRecord
    BY <2>1, ShowingFacts DEF Waiting
  <2>3. rec.pc = "saving" /\ rec.call = s /\ rec.at = tab[t].at
    BY DEF Waiting, Showing
  <2>4. save'[s].pc # "idle"
    BY <1>2, <2>1 DEF SaveBegin, TypeOK, SaveRecord
  <2>. HIDE DEF rec
  <2>5. TabsInv' /\ tab' \in [Tabs -> TabRecord]
    BY <1>1, <2>1, <2>2, <2>3, <2>4, TabChange
  <2>. QED
    BY <1>2, <1>6, <2>1, <2>5
<1>10. ASSUME NEW t \in Tabs, NEW r \in Reloads, ReloadStarts(t, r) PROVE BaseInv'
  <2>. DEFINE rec == Waiting(t, "reloading", r)
  <2>1. /\ tab[t].at \in {"config", "transforms"} /\ UNCHANGED wanted
        /\ tab' = [tab EXCEPT ![t] = rec]
    BY <1>10 DEF ReloadStarts
  <2>2. rec \in TabRecord
    BY <2>1, ShowingFacts DEF Waiting
  <2>3. rec.pc = "reloading" /\ rec.call = r /\ rec.at = tab[t].at
    BY DEF Waiting, Showing
  <2>. HIDE DEF rec
  <2>4. TabsInv' /\ tab' \in [Tabs -> TabRecord]
    BY <1>1, <2>1, <2>2, <2>3, TabChange
  <2>. QED
    BY <1>2, <1>6, <2>1, <2>4
<1>11. CASE ManagerStep
  <2>1. ASSUME NEW t \in Tabs, Wrote(t)
        PROVE  save[tab[t].call].cfg \in Files
    BY <1>2, <2>1, ConfigFacts DEF Wrote, TabsInv, SavesKnown
  <2>2. wanted' \in Files
    BY <1>2, <1>11, <2>1 DEF ManagerStep, Files
  <2>. QED
    BY <1>7, <1>11, <2>2 DEF ManagerStep
<1>12. CASE UNCHANGED consoleVars
  BY <1>2, <1>7, <1>12 DEF consoleVars
<1>. QED
  BY <1>8, <1>9, <1>10, <1>11, <1>12, StepKinds

(* The program is started with a valid file and no page open.                 *)
LEMMA InitBaseInv == ConsoleInit => BaseInv
<1>. SUFFICES ASSUME ConsoleInit PROVE BaseInv
  OBVIOUS
<1>1. Init /\ ManagerInv /\ TypeOK
  BY InitManagerInv DEF ConsoleInit, ManagerInv
<1>2. wanted \in Files /\ overlapped \in BOOLEAN
  BY ConfigFacts, ConsoleAssumption DEF ConsoleInit
<1>3. tab = [t \in Tabs |-> Showing("nothing")]
  BY DEF ConsoleInit
<1>4. Showing("nothing").pc = "idle" /\ Showing("nothing").at = "nothing"
  BY DEF Showing
<1>5. tab \in [Tabs -> TabRecord]
  BY <1>3, ShowingFacts
<1>6. TabsInv
  BY <1>3, <1>4 DEF TabsInv
<1>7. SavesKnown
  BY <1>1 DEF Init, SavesKnown
<1>. QED
  BY <1>1, <1>2, <1>5, <1>6, <1>7 DEF BaseInv, ConsoleTypeOK

(* The invariant holds for any number of tabs and of overlapping calls.       *)
THEOREM ConsoleInvariant == ConsoleSpec => []BaseInv
BY InitBaseInv, NextBaseInv, PTL DEF ConsoleSpec

(* The handlers of admin.rs call RuntimeManager as it expects: whatever users *)
(* post, the program is one that RuntimeManager specifies, and every theorem  *)
(* about the manager is one about the program with its admin UI.              *)
THEOREM ConsoleRunsManager == ConsoleSpec => Spec
<1>1. ConsoleInit => Init
  BY DEF ConsoleInit
<1>2. BaseInv /\ [ConsoleNext]_consoleVars => [Next]_vars
  BY StepsOfManager
<1>. QED
  BY <1>1, <1>2, ConsoleInvariant, PTL DEF ConsoleSpec, Spec

(* What the tabs show and what the users saved stay files made of the         *)
(* settings and rules that forms can make; above all, only valid files reach  *)
(* the disk and the snapshot.                                                 *)
THEOREM ConsoleTypeCorrect == ConsoleSpec => []ConsoleTypeOK
<1>1. BaseInv => ConsoleTypeOK
  BY DEF BaseInv
<1>. QED
  BY <1>1, ConsoleInvariant, PTL

(* runtime_from_form and transforms_from_form undo the rendering of the page  *)
(* in every tab, however old, and whatever was saved since.                   *)
THEOREM SavedIsWhatWasShownHolds == ConsoleSpec => []SavedIsWhatWasShown
<1>1. ASSUME BaseInv, NEW t \in Tabs, Requests(t), tab[t].at = "config"
      PROVE  runtime_from_form(RuntimeConfigPage(tab[t].settings),
                               snapshot.saved_config.runtime) = tab[t].settings
  <2>1. tab[t].settings \in RuntimeSettingsFile
    BY <1>1, ConsoleAssumption DEF BaseInv, TabsInv, Closed
  <2>. QED
    BY <2>1, SettingsRoundTrip
<1>2. ASSUME BaseInv, NEW t \in Tabs
      PROVE  transforms_from_form(TransformsPage(tab[t].rules),
                                  snapshot.saved_config.transforms) = tab[t].rules
  <2>1. tab[t].rules \in BoundedSeq(Rules, MaxRules)
    BY <1>2 DEF BaseInv, ConsoleTypeOK, TabRecord
  <2>2. tab[t].rules \in Seq(Rules)
    BY <2>1, ListsAreSequences, FormAssumption
  <2>3. tab[t].rules \in Seq(TransformRuleFile)
    BY <2>2, ConsoleAssumption DEF Closed
  <2>. QED
    BY <2>3, RulesRoundTrip
<1>3. BaseInv => SavedIsWhatWasShown
  BY <1>1, <1>2 DEF SavedIsWhatWasShown
<1>. QED
  BY <1>3, ConsoleInvariant, PTL

-----------------------------------------------------------------------------
(* Saves and the handlers that wait for them.                                *)

\* No two handlers wait for the same save ...
OneCaller ==
  \A t, u \in Tabs :
    tab[t].pc = "saving" /\ tab[u].pc = "saving" /\ tab[t].call = tab[u].call => t = u
\* ... and a save that is under way has its handler: it cannot be dropped.
Called ==
  \A s \in Saves : Under(s) => \E t \in Tabs : tab[t].pc = "saving" /\ tab[t].call = s

(* What a step of a save does to the calls of save_config.                    *)
LEMMA SaveStepEffect ==
  ASSUME TypeOK, NEW s \in Saves, SaveStep(s)
  PROVE  /\ \A z \in Saves \ {s} : save'[z] = save[z]
         /\ save'[s].cfg = save[s].cfg
         /\ Under(s)
         /\ UNCHANGED <<active, proxy, reload, main>>
<1>. USE DEF TypeOK, SaveRecord, Under, Finished
<1>1. CASE SaveCompare(s)
  BY <1>1 DEF SaveCompare
<1>2. CASE SaveTruncate(s)
  BY <1>2 DEF SaveTruncate
<1>3. CASE SaveWrite(s)
  BY <1>3 DEF SaveWrite
<1>4. CASE SaveSnapshot(s)
  BY <1>4 DEF SaveSnapshot
<1>. QED
  BY <1>1, <1>2, <1>3, <1>4 DEF SaveStep

(* A reload and a server task leave saves and the file alone.                 *)
LEMMA OtherStepEffect ==
  ASSUME TypeOK,
         \/ \E i \in Runtimes : Bind(i) \/ TaskStops(i)
         \/ \E r \in Reloads : ReloadStep(r)
  PROVE  UNCHANGED <<disk, save, main>>
BY DEF ReloadStep, ReloadLoad, ReloadLoadFails, ReloadStop, ReloadJoin, ReloadReleased,
       ReloadNotReleased, ReloadStart, ReloadPublish, ReloadSummary, ReloadSnapshot,
       ReloadFallback, ReloadRestore, ReloadNote, Bind, TaskStops

(* Handlers and the saves they wait for stay paired.                          *)
LEMMA NextCalls ==
  ASSUME BaseInv, OneCaller, Called, [ConsoleNext]_consoleVars
  PROVE  OneCaller' /\ Called'
<1>1. TypeOK /\ TabsInv /\ tab \in [Tabs -> TabRecord] /\ save \in [Saves -> SaveRecord]
  BY DEF BaseInv, ConsoleTypeOK, TypeOK
<1>2. ASSUME NEW t \in Tabs, PageTurn(t) PROVE OneCaller' /\ Called'
  <2>1. /\ tab'[t].pc # "saving" /\ UNCHANGED save
        /\ \A u \in Tabs \ {t} : tab'[u] = tab[u]
    BY <1>1, <1>2 DEF PageTurn, vars
  <2>2. tab[t].pc = "saving" => ~ Under(tab[t].call)
    BY <1>2 DEF PageTurn, Under, Finished
  <2>. QED
    BY <2>1, <2>2 DEF OneCaller, Called, Under
<1>3. ASSUME NEW t \in Tabs, NEW s \in Saves, NEW c \in Configs, SaveStarts(t, s, c)
      PROVE  OneCaller' /\ Called'
  <2>1. /\ tab'[t].pc = "saving" /\ tab'[t].call = s /\ tab[t].pc = "idle"
        /\ \A u \in Tabs \ {t} : tab'[u] = tab[u]
    BY <1>1, <1>3 DEF SaveStarts, Waiting, Showing
  <2>2. save[s].pc = "idle" /\ \A z \in Saves \ {s} : save'[z] = save[z]
    BY <1>1, <1>3 DEF SaveStarts, SaveBegin
  <2>. QED
    BY <1>1, <2>1, <2>2 DEF OneCaller, Called, Under, TabsInv
<1>4. ASSUME NEW t \in Tabs, NEW r \in Reloads, ReloadStarts(t, r)
      PROVE  OneCaller' /\ Called'
  <2>1. /\ tab'[t].pc = "reloading" /\ tab[t].pc = "idle" /\ UNCHANGED save
        /\ \A u \in Tabs \ {t} : tab'[u] = tab[u]
    BY <1>1, <1>4 DEF ReloadStarts, Waiting, Showing, ReloadTake
  <2>. QED
    BY <2>1 DEF OneCaller, Called, Under
<1>5. CASE ManagerStep
  <2>1. UNCHANGED tab
    BY <1>5 DEF ManagerStep
  <2>2. CASE \E s \in Saves : SaveStep(s)
    BY <1>1, <2>1, <2>2, SaveStepEffect DEF OneCaller, Called, Under
  <2>3. CASE UNCHANGED save
    BY <2>1, <2>3 DEF OneCaller, Called, Under
  <2>. QED
    BY <1>1, <1>5, <2>2, <2>3, OtherStepEffect DEF ManagerStep
<1>6. CASE UNCHANGED consoleVars
  BY <1>6 DEF consoleVars, OneCaller, Called, Under
<1>. QED
  BY <1>2, <1>3, <1>4, <1>5, <1>6, StepKinds

-----------------------------------------------------------------------------
(* No lost update. As long as no calls met, what was saved last is where the  *)
(* next save will take the other page's section from.                        *)

\* The snapshot is behind the last save only between its write and its snapshot ...
SavedWanted ==
  (\A s \in Saves : save[s].pc # "snapshot") => snapshot.saved_config = wanted
\* ... and the file between its truncation and its write.
DiskWanted ==
  (\A s \in Saves : save[s].pc \notin {"write", "snapshot"}) /\ disk \in Configs
    => disk = wanted
WritesAlone ==
  \A s \in Saves :
    /\ save[s].pc = "write" => disk = NotJson
    /\ save[s].pc = "snapshot" => disk = wanted /\ save[s].cfg = wanted
\* A draft that is being saved has the other page's section as it was saved last.
Merged ==
  \A t \in Tabs :
    tab[t].pc = "saving" /\ save[tab[t].call].pc \in {"compare", "truncate", "write"} =>
      IF tab[t].at = "config" THEN save[tab[t].call].cfg.transforms = wanted.transforms
                              ELSE save[tab[t].call].cfg.runtime = wanted.runtime
\* A reload that has read the file will publish what was saved last.
AppliesWanted == \A r \in Reloads : Applying(r) => reload[r].loaded = wanted

UpToDate == SavedWanted /\ DiskWanted /\ WritesAlone /\ Merged /\ AppliesWanted

UpdateInv == ~ overlapped => ~ Meet /\ UpToDate

(* Steps that change nothing of a save or of the file.                        *)
LEMMA UpdateFrame ==
  ASSUME UpToDate, UNCHANGED <<disk, save, wanted>>,
         snapshot'.saved_config = snapshot.saved_config,
         \A t \in Tabs : tab'[t].pc = "saving" => tab'[t] = tab[t],
         \A r \in Reloads : Applying(r)' => Applying(r) /\ reload'[r].loaded = reload[r].loaded
  PROVE  UpToDate'
<1>. USE DEF UpToDate
<1>1. SavedWanted' /\ DiskWanted' /\ WritesAlone'
  BY DEF SavedWanted, DiskWanted, WritesAlone
<1>2. Merged'
  BY DEF Merged
<1>3. AppliesWanted'
  BY DEF AppliesWanted
<1>. QED
  BY <1>1, <1>2, <1>3

(* A save starts from the snapshot: no other save is about to change it.      *)
LEMMA SaveStartsUpdate ==
  ASSUME BaseInv, UpToDate, ~ Meet', NEW t \in Tabs, NEW s \in Saves, NEW c \in Configs,
         SaveStarts(t, s, c)
  PROVE  UpToDate'
<1>1. TypeOK /\ TabsInv /\ tab \in [Tabs -> TabRecord] /\ save \in [Saves -> SaveRecord]
  BY DEF BaseInv, ConsoleTypeOK, TypeOK
<1>2. /\ tab'[t].pc = "saving" /\ tab'[t].call = s /\ tab[t].pc = "idle"
      /\ tab'[t].at = tab[t].at /\ tab[t].at \in {"config", "transforms"}
      /\ \A u \in Tabs \ {t} : tab'[u] = tab[u]
  BY <1>1 DEF SaveStarts, Waiting, Showing
<1>3. /\ save[s].pc = "idle" /\ save'[s].pc = "compare" /\ save'[s].cfg = c
      /\ \A z \in Saves \ {s} : save'[z] = save[z]
      /\ UNCHANGED <<disk, snapshot, reload, wanted>>
  BY <1>1 DEF SaveStarts, SaveBegin, SaveRecord
<1>4. \A z \in Saves \ {s} : save[z].pc \in Finished
  BY <1>3 DEF Meet, Under, Finished
<1>5. snapshot.saved_config = wanted
  BY <1>3, <1>4 DEF UpToDate, SavedWanted, Finished
<1>6. SavedWanted' /\ DiskWanted' /\ WritesAlone'
  BY <1>3, <1>4, <1>5 DEF UpToDate, SavedWanted, DiskWanted, WritesAlone, Finished
<1>7. Merged'
  <2>. SUFFICES ASSUME NEW u \in Tabs, tab'[u].pc = "saving",
                       save'[tab'[u].call].pc \in {"compare", "truncate", "write"}
                PROVE  IF tab'[u].at = "config"
                       THEN save'[tab'[u].call].cfg.transforms = wanted'.transforms
                       ELSE save'[tab'[u].call].cfg.runtime = wanted'.runtime
    BY DEF Merged
  <2>1. CASE u = t
    BY <1>2, <1>3, <1>5, <2>1 DEF SaveStarts
  <2>2. CASE u # t
    <3>1. tab[u].pc = "saving" /\ tab[u].call \in Saves \ {s}
      BY <1>1, <1>2, <1>3, <2>2 DEF TabsInv
    <3>. QED
      BY <1>2, <1>3, <1>4, <2>2, <3>1 DEF Finished
  <2>. QED
    BY <2>1, <2>2
<1>8. AppliesWanted'
  BY <1>3 DEF UpToDate, AppliesWanted, Applying
<1>. QED
  BY <1>6, <1>7, <1>8 DEF UpToDate

(* wanted changes when a save has written the file, and only then.            *)
LEMMA NothingWritten ==
  ASSUME BaseInv, ManagerStep,
         \A s \in Saves : save[s].pc = "write" => save'[s].pc # "snapshot"
  PROVE  UNCHANGED wanted
BY DEF BaseInv, TabsInv, ManagerStep, Wrote

(* A save alone.                                                              *)
LEMMA AloneWhenSaving ==
  ASSUME ~ Meet, NEW s \in Saves, Under(s)
  PROVE  /\ \A z \in Saves \ {s} : save[z].pc \in Finished
         /\ \A r \in Reloads : ~ Applying(r)
BY DEF Meet, Under

(* A save that only moves on.                                                 *)
LEMMA SaveCompareUpdate ==
  ASSUME BaseInv, UpToDate, NEW s \in Saves, ManagerStep, SaveCompare(s)
  PROVE  UpToDate'
<1>1. /\ save[s].pc = "compare" /\ save'[s].pc = "truncate" /\ save'[s].cfg = save[s].cfg
      /\ \A z \in Saves \ {s} : save'[z] = save[z]
      /\ UNCHANGED <<disk, snapshot, reload>>
  BY DEF SaveCompare, BaseInv, ConsoleTypeOK, TypeOK, SaveRecord
<1>2. UNCHANGED wanted
  BY <1>1, NothingWritten
<1>3. SavedWanted' /\ DiskWanted' /\ WritesAlone'
  BY <1>1, <1>2 DEF UpToDate, SavedWanted, DiskWanted, WritesAlone
<1>4. Merged'
  BY <1>1, <1>2 DEF UpToDate, Merged, BaseInv, TabsInv, ManagerStep
<1>5. AppliesWanted'
  BY <1>1, <1>2 DEF UpToDate, AppliesWanted, Applying
<1>. QED
  BY <1>3, <1>4, <1>5 DEF UpToDate

(* The file is truncated, or cannot be opened.                                *)
LEMMA SaveTruncateUpdate ==
  ASSUME BaseInv, ~ Meet, UpToDate, NEW s \in Saves, ManagerStep, SaveTruncate(s)
  PROVE  UpToDate'
<1>1. /\ save[s].pc = "truncate" /\ save'[s].cfg = save[s].cfg
      /\ \A z \in Saves \ {s} : save'[z] = save[z]
      /\ UNCHANGED <<snapshot, reload>>
      /\ \/ save'[s].pc = "write" /\ disk' = NotJson
         \/ save'[s].pc = "err" /\ UNCHANGED disk
  BY DEF SaveTruncate, BaseInv, ConsoleTypeOK, TypeOK, SaveRecord
<1>2. UNCHANGED wanted
  BY <1>1, NothingWritten
<1>3. \A z \in Saves \ {s} : save[z].pc \in Finished
  BY <1>1, AloneWhenSaving DEF Under, Finished
<1>4. SavedWanted' /\ DiskWanted' /\ WritesAlone'
  BY <1>1, <1>2, <1>3 DEF UpToDate, SavedWanted, DiskWanted, WritesAlone, Finished
<1>5. Merged'
  BY <1>1, <1>2 DEF UpToDate, Merged, BaseInv, TabsInv, ManagerStep
<1>6. AppliesWanted'
  BY <1>1, <1>2 DEF UpToDate, AppliesWanted, Applying
<1>. QED
  BY <1>4, <1>5, <1>6 DEF UpToDate

(* The file is written: its user's section is the one saved last, and the     *)
(* other section already was.                                                 *)
LEMMA SaveWriteUpdate ==
  ASSUME BaseInv, OneCaller, Called, ~ Meet, UpToDate, NEW s \in Saves, ManagerStep,
         SaveWrite(s)
  PROVE  UpToDate'
<1>. DEFINE c == save[s].cfg
<1>1. /\ save[s].pc = "write" /\ save'[s].cfg = c
      /\ \A z \in Saves \ {s} : save'[z] = save[z]
      /\ UNCHANGED <<snapshot, reload, tab>>
  BY DEF SaveWrite, ManagerStep, BaseInv, ConsoleTypeOK, TypeOK, SaveRecord
<1>2. disk = NotJson /\ NotJson \notin Configs
  BY <1>1, ManagerAssumption DEF UpToDate, WritesAlone
<1>3. \/ save'[s].pc = "snapshot" /\ disk' = c
      \/ save'[s].pc = "err" /\ UNCHANGED disk
  BY <1>2 DEF SaveWrite, BaseInv, ConsoleTypeOK, TypeOK, SaveRecord
<1>4. /\ \A z \in Saves \ {s} : save[z].pc \in Finished
      /\ \A r \in Reloads : ~ Applying(r)
      /\ Under(s)
  BY <1>1, AloneWhenSaving DEF Under, Finished
<1>5. AppliesWanted'
  BY <1>1, <1>4 DEF AppliesWanted, Applying
<1>6. Merged'
  <2>1. ASSUME NEW u \in Tabs, tab[u].pc = "saving"
        PROVE  save'[tab[u].call].pc \notin {"compare", "truncate", "write"}
    <3>1. tab[u].call \in Saves
      BY <2>1 DEF BaseInv, TabsInv
    <3>. QED
      BY <1>1, <1>3, <1>4, <3>1 DEF Finished
  <2>. QED
    BY <1>1, <2>1 DEF Merged
<1>7. CASE save'[s].pc = "snapshot" /\ disk' = c
  <2>1. PICK t \in Tabs : tab[t].pc = "saving" /\ tab[t].call = s
    BY <1>4 DEF Called
  <2>2. ASSUME NEW u \in Tabs, Wrote(u) PROVE u = t
    <3>1. tab[u].pc = "saving" /\ tab[u].call \in Saves /\ save[tab[u].call].pc = "write"
      BY <2>2 DEF Wrote, BaseInv, TabsInv
    <3>2. tab[u].call = s
      BY <1>4, <3>1 DEF Finished
    <3>. QED
      BY <2>1, <3>1, <3>2 DEF OneCaller
  <2>3. Wrote(t)
    BY <1>1, <1>7, <2>1 DEF Wrote
  <2>4. wanted' = IF tab[t].at = "config" THEN [wanted EXCEPT !.runtime = c.runtime]
                  ELSE [wanted EXCEPT !.transforms = c.transforms]
    BY <2>1, <2>2, <2>3 DEF ManagerStep
  <2>5. /\ wanted \in Files /\ c \in Files
        /\ IF tab[t].at = "config" THEN c.transforms = wanted.transforms
                                   ELSE c.runtime = wanted.runtime
    BY <1>1, <2>1, ConfigFacts DEF BaseInv, ConsoleTypeOK, SavesKnown, UpToDate, Merged
  <2>6. wanted' = c
    BY <2>4, <2>5 DEF Files
  <2>7. SavedWanted' /\ DiskWanted' /\ WritesAlone'
    BY <1>1, <1>4, <1>7, <2>6 DEF SavedWanted, DiskWanted, WritesAlone, Finished
  <2>. QED
    BY <1>5, <1>6, <2>7 DEF UpToDate
<1>8. CASE save'[s].pc = "err" /\ UNCHANGED disk
  <2>1. UNCHANGED wanted
    BY <1>1, <1>8, NothingWritten
  <2>2. SavedWanted' /\ DiskWanted' /\ WritesAlone'
    BY <1>1, <1>2, <1>4, <1>8, <2>1
       DEF UpToDate, SavedWanted, DiskWanted, WritesAlone, Finished
  <2>. QED
    BY <1>5, <1>6, <2>2 DEF UpToDate
<1>. QED
  BY <1>3, <1>7, <1>8

(* The snapshot catches up with the file.                                     *)
LEMMA SaveSnapshotUpdate ==
  ASSUME BaseInv, ~ Meet, UpToDate, NEW s \in Saves, ManagerStep, SaveSnapshot(s)
  PROVE  UpToDate'
<1>1. /\ save[s].pc = "snapshot" /\ save'[s].pc = "ok" /\ save'[s].cfg = save[s].cfg
      /\ snapshot'.saved_config = save[s].cfg
      /\ \A z \in Saves \ {s} : save'[z] = save[z]
      /\ UNCHANGED <<disk, reload>>
  BY DEF SaveSnapshot, BaseInv, ConsoleTypeOK, TypeOK, SaveRecord, RuntimeManagerState
<1>2. UNCHANGED wanted
  BY <1>1, NothingWritten
<1>3. disk = wanted /\ save[s].cfg = wanted
  BY <1>1 DEF UpToDate, WritesAlone
<1>4. SavedWanted' /\ DiskWanted' /\ WritesAlone'
  BY <1>1, <1>2, <1>3 DEF UpToDate, SavedWanted, DiskWanted, WritesAlone
<1>5. Merged'
  BY <1>1, <1>2 DEF UpToDate, Merged, BaseInv, TabsInv, ManagerStep
<1>6. AppliesWanted'
  BY <1>1, <1>2 DEF UpToDate, AppliesWanted, Applying
<1>. QED
  BY <1>4, <1>5, <1>6 DEF UpToDate

(* A reload reads the file when no save is at work on it, and publishes what  *)
(* it read.                                                                   *)
LEMMA ReloadUpdate ==
  ASSUME BaseInv, UpToDate, ~ Meet', NEW r \in Reloads, ManagerStep, ReloadStep(r)
  PROVE  UpToDate'
<1>1. /\ TypeOK /\ reload \in [Reloads -> ReloadRecord] /\ snapshot \in RuntimeManagerState
      /\ UNCHANGED <<disk, save, tab>>
  BY OtherStepEffect DEF BaseInv, ConsoleTypeOK, TypeOK, ManagerStep
<1>2. UNCHANGED wanted
  BY <1>1, NothingWritten
<1>3. CASE ReloadLoad(r)
  <2>1. /\ reload'[r].loaded = disk /\ Applying(r)' /\ disk \in Configs /\ UNCHANGED snapshot
        /\ \A q \in Reloads \ {r} : reload'[q] = reload[q]
    BY <1>1, <1>3 DEF ReloadLoad, ReloadRecord, Applying, Finished
  <2>2. \A s \in Saves : save[s].pc \in Finished
    BY <1>1, <2>1 DEF Meet, Under
  <2>3. disk = wanted
    BY <2>1, <2>2 DEF UpToDate, DiskWanted, Finished
  <2>4. SavedWanted' /\ DiskWanted' /\ WritesAlone' /\ Merged'
    BY <1>1, <1>2, <2>1 DEF UpToDate, SavedWanted, DiskWanted, WritesAlone, Merged
  <2>5. AppliesWanted'
    BY <1>2, <2>1, <2>3 DEF UpToDate, AppliesWanted, Applying
  <2>. QED
    BY <2>4, <2>5 DEF UpToDate
<1>4. CASE ReloadSnapshot(r)
  <2>1. /\ snapshot'.saved_config = reload[r].loaded /\ Applying(r)
        /\ \A q \in Reloads : Applying(q)' => q # r /\ reload'[q] = reload[q]
    BY <1>1, <1>4 DEF ReloadSnapshot, Goto, ReloadRecord, Applying, Finished
  <2>2. snapshot'.saved_config = wanted
    BY <2>1 DEF UpToDate, AppliesWanted
  <2>3. SavedWanted' /\ DiskWanted' /\ WritesAlone' /\ Merged'
    BY <1>1, <1>2, <2>2 DEF UpToDate, SavedWanted, DiskWanted, WritesAlone, Merged
  <2>4. AppliesWanted'
    BY <1>2, <2>1 DEF UpToDate, AppliesWanted, Applying
  <2>. QED
    BY <2>3, <2>4 DEF UpToDate
<1>5. CASE \/ ReloadLoadFails(r) \/ ReloadStop(r) \/ ReloadJoin(r) \/ ReloadReleased(r)
           \/ ReloadNotReleased(r) \/ ReloadStart(r) \/ ReloadPublish(r)
           \/ ReloadSummary(r) \/ ReloadFallback(r) \/ ReloadRestore(r) \/ ReloadNote(r)
  <2>1. snapshot'.saved_config = snapshot.saved_config
    BY <1>1, <1>5 DEF ReloadLoadFails, ReloadStop, ReloadJoin, ReloadReleased,
          ReloadNotReleased, ReloadStart, ReloadPublish, ReloadSummary, ReloadFallback,
          ReloadRestore, ReloadNote, RuntimeManagerState
  <2>2. ASSUME NEW q \in Reloads, Applying(q)'
        PROVE  Applying(q) /\ reload'[q].loaded = reload[q].loaded
    <3>1. CASE \E l : Goto(r, l) /\ (l = "err" \/ Applying(r))
      BY <1>1, <2>2, <3>1, GotoEffect DEF Applying, Finished
    <3>2. CASE ReloadSummary(r)
      BY <1>1, <2>2, <3>2 DEF ReloadSummary, Goto, ReloadRecord, Applying, Finished
    <3>. QED
      BY <1>5, <3>1, <3>2 DEF ReloadLoadFails, ReloadStop, ReloadJoin, ReloadReleased,
            ReloadNotReleased, ReloadStart, ReloadPublish, ReloadFallback, ReloadRestore,
            ReloadNote, Applying, Finished
  <2>. QED
    BY <1>1, <1>2, <2>1, <2>2, UpdateFrame
<1>. QED
  BY <1>3, <1>4, <1>5 DEF ReloadStep

(* Every step keeps what was saved last in step with the file and the         *)
(* snapshot, as long as calls do not meet.                                    *)
LEMMA NextUpdateInv ==
  ASSUME BaseInv, OneCaller, Called, UpdateInv, [ConsoleNext]_consoleVars PROVE UpdateInv'
<1>1. CASE UNCHANGED consoleVars
  <2>1. UpToDate => UpToDate'
    BY <1>1, UpdateFrame DEF consoleVars, Applying
  <2>2. overlapped' = overlapped /\ Meet' = Meet
    BY <1>1 DEF consoleVars, Meet, Under, Applying
  <2>. QED
    BY <2>1, <2>2 DEF UpdateInv
<1>2. CASE ConsoleNext
  <2>. SUFFICES ASSUME ~ overlapped' PROVE ~ Meet' /\ UpToDate'
    BY DEF UpdateInv
  <2>1. ~ overlapped /\ ~ Meet'
    BY <1>2 DEF ConsoleNext
  <2>2. ~ Meet /\ UpToDate
    BY <2>1 DEF UpdateInv
  <2>3. tab \in [Tabs -> TabRecord] /\ TypeOK /\ reload \in [Reloads -> ReloadRecord]
    BY DEF BaseInv, ConsoleTypeOK, TypeOK
  <2>4. ASSUME NEW t \in Tabs, PageTurn(t) PROVE UpToDate'
    <3>1. /\ UNCHANGED <<disk, save, wanted, snapshot, reload>>
          /\ \A u \in Tabs : tab'[u].pc = "saving" => tab'[u] = tab[u]
      BY <2>3, <2>4 DEF PageTurn, vars
    <3>. QED
      BY <2>2, <3>1, UpdateFrame DEF Applying
  <2>5. ASSUME NEW t \in Tabs, NEW r \in Reloads, ReloadStarts(t, r) PROVE UpToDate'
    <3>1. /\ UNCHANGED <<disk, save, wanted, snapshot>>
          /\ \A u \in Tabs : tab'[u].pc = "saving" => tab'[u] = tab[u]
      BY <2>3, <2>5 DEF ReloadStarts, Waiting, Showing, ReloadTake
    <3>2. \A q \in Reloads : Applying(q)' => reload'[q] = reload[q]
      BY <2>3, <2>5 DEF ReloadStarts, ReloadTake, Goto, ReloadRecord, Applying, Finished
    <3>. QED
      BY <2>2, <3>1, <3>2, UpdateFrame DEF Applying
  <2>6. ASSUME ManagerStep, NEW i \in Runtimes, Bind(i) \/ TaskStops(i) PROVE UpToDate'
    <3>1. UNCHANGED <<disk, save, snapshot, reload, tab>>
      BY <2>6 DEF Bind, TaskStops, ManagerStep
    <3>2. UNCHANGED wanted
      BY <2>6, <3>1, NothingWritten
    <3>. QED
      BY <2>2, <3>1, <3>2, UpdateFrame DEF Applying
  <2>7. ASSUME ManagerStep PROVE UpToDate'
    BY <2>1, <2>2, <2>6, <2>7, ReloadUpdate, SaveCompareUpdate, SaveTruncateUpdate,
       SaveWriteUpdate, SaveSnapshotUpdate DEF ManagerStep, SaveStep
  <2>. QED
    BY <1>2, <2>1, <2>2, <2>4, <2>5, <2>7, SaveStartsUpdate, StepKinds
<1>. QED
  BY <1>1, <1>2

(* At the start the file is what the user saved last.                         *)
LEMMA InitUpdateInv == ConsoleInit => OneCaller /\ Called /\ UpdateInv
<1>. SUFFICES ASSUME ConsoleInit PROVE OneCaller /\ Called /\ UpdateInv
  OBVIOUS
<1>1. /\ \A s \in Saves : save[s].pc = "idle"
      /\ \A r \in Reloads : reload[r].pc = "idle"
      /\ \A t \in Tabs : tab[t].pc = "idle"
      /\ snapshot.saved_config = disk /\ wanted = disk
  BY DEF ConsoleInit, Init, Showing
<1>. QED
  BY <1>1 DEF OneCaller, Called, UpdateInv, UpToDate, Meet, Under, Applying, Finished,
              SavedWanted, DiskWanted, WritesAlone, Merged, AppliesWanted

(* Both pages save whole files, from drafts that may be old; yet, as long as  *)
(* no save met another one or a reload that had read the file, the file has   *)
(* what each of them saved last. For any number of tabs, saves and reloads.   *)
THEOREM NoLostUpdateHolds == ConsoleSpec => []NoLostUpdate
<1>1. UpdateInv => NoLostUpdate
  BY DEF UpdateInv, UpToDate, DiskWanted, NoLostUpdate, Under, Finished
<1>2. BaseInv /\ OneCaller /\ Called /\ UpdateInv /\ [ConsoleNext]_consoleVars
        => OneCaller' /\ Called' /\ UpdateInv'
  BY NextCalls, NextUpdateInv
<1>. QED
  BY <1>1, <1>2, InitUpdateInv, ConsoleInvariant, PTL DEF ConsoleSpec

-----------------------------------------------------------------------------
(* "The running proxy already matches this file."                            *)

\* The runtime in the slot, the one a reload took out of it, or the one it
\* started again in its place.
Current(i) ==
  \/ active = i
  \/ \E r \in Reloads : \/ reload[r].pc \in Section /\ reload[r].previous = i
                        \/ reload[r].pc = "restore" /\ r = i
Runs(c) == \A i \in Runtimes : Current(i) => proxy[i].cfg = c

\* If no reload is pending, the proxy runs the saved file; a save that found a
\* match is right until it is over; a reload runs what it read, or will.
NothingPending == ~ snapshot.pending_reload => Runs(snapshot.saved_config)
MatchFound ==
  \A s \in Saves :
    save[s].pc \in {"truncate", "write", "snapshot"} /\ save[s].active_matches
      => Runs(save[s].cfg)
ReloadRuns ==
  \A r \in Reloads :
    /\ reload[r].pc \in {"summary", "snapshot"} => Runs(reload[r].loaded)
    /\ reload[r].pc = "publish" => proxy[r].cfg = reload[r].loaded

MatchInv == ~ overlapped => NothingPending /\ MatchFound /\ ReloadRuns

(* No runtime becomes current, and none gets another config.                  *)
LEMMA RunsFrame ==
  ASSUME NEW c, Runs(c),
         \A i \in Runtimes : Current(i)' => Current(i) /\ proxy'[i].cfg = proxy[i].cfg
  PROVE  Runs(c)'
BY DEF Runs

(* A step of a reload, before and after its runtime is published.             *)
LEMMA ReloadKeepsRuns ==
  ASSUME ManagerInv, NEW r \in Reloads, ReloadStep(r), ~ ReloadPublish(r), NEW c, Runs(c)
  PROVE  Runs(c)'
<1>1. /\ TypeOK /\ SlotInv /\ reload \in [Reloads -> ReloadRecord] /\ r \in Runtimes
  BY DEF ManagerInv, Control, TypeOK, Runtimes
<1>2. CASE ReloadLoad(r)
  <2>1. /\ UNCHANGED <<active, proxy>> /\ reload[r].pc = "load" /\ reload'[r].pc = "stop"
        /\ reload'[r].previous = reload[r].previous
        /\ \A q \in Reloads \ {r} : reload'[q] = reload[q]
    BY <1>1, <1>2 DEF ReloadLoad, ReloadRecord
  <2>2. \A i \in Runtimes : Current(i)' => Current(i)
    BY <2>1 DEF Current, Section
  <2>. QED
    BY <2>1, <2>2, RunsFrame
<1>3. CASE ReloadSummary(r)
  <2>1. /\ UNCHANGED <<active, proxy>> /\ reload'[r].pc \in {"snapshot", "err"}
        /\ \A q \in Reloads \ {r} : reload'[q] = reload[q]
    BY <1>1, <1>3 DEF ReloadSummary, ReloadRecord, Goto
  <2>2. \A i \in Runtimes : Current(i)' => Current(i)
    BY <2>1 DEF Current, Section
  <2>. QED
    BY <2>1, <2>2, RunsFrame
<1>4. ASSUME NEW l, Goto(r, l), UNCHANGED active,
             \A i \in Runtimes : proxy'[i].cfg = proxy[i].cfg,
             l \in Section => reload[r].pc \in Section, l # "restore"
      PROVE  Runs(c)'
  <2>1. \A i \in Runtimes : Current(i)' => Current(i)
    BY <1>1, <1>4, GotoEffect DEF Current
  <2>. QED
    BY <1>4, <2>1, RunsFrame
<1>5. CASE \/ ReloadLoadFails(r) \/ ReloadStop(r) \/ ReloadJoin(r) \/ ReloadReleased(r)
           \/ ReloadNotReleased(r)
  <2>1. reload[r].pc \in Section
    BY <1>5 DEF Section, ReloadLoadFails, ReloadStop, ReloadJoin, ReloadReleased,
                ReloadNotReleased
  <2>2. reload[r].previous \in Runtimes
    BY <1>1, <2>1, InSection
  <2>3. \A i \in Runtimes : proxy'[i].cfg = proxy[i].cfg
    BY <1>1, <1>5, <2>2, StopEffect, StateEffect
       DEF ReloadLoadFails, ReloadStop, ReloadJoin, ReloadReleased, ReloadNotReleased
  <2>4. \E l \in {"err", "join", "release", "start"} : Goto(r, l)
    BY <1>5 DEF ReloadLoadFails, ReloadStop, ReloadJoin, ReloadReleased, ReloadNotReleased
  <2>5. UNCHANGED active
    BY <1>5 DEF ReloadLoadFails, ReloadStop, ReloadJoin, ReloadReleased, ReloadNotReleased
  <2>. QED
    BY <1>4, <2>1, <2>3, <2>4, <2>5
<1>6. CASE ReloadSnapshot(r) \/ ReloadNote(r)
  <2>1. UNCHANGED <<active, proxy>> /\ \E l \in {"ok", "err"} : Goto(r, l)
    BY <1>6 DEF ReloadSnapshot, ReloadNote
  <2>. QED
    BY <1>4, <2>1 DEF Section
<1>7. CASE ReloadStart(r) \/ ReloadFallback(r)
  <2>1. UNCHANGED active /\ reload[r].pc \in {"start", "fallback"}
    BY <1>7 DEF ReloadStart, ReloadFallback
  <2>2. /\ reload[r].pc \in Section /\ active = Nobody /\ reload[r].previous \in Runtimes
        /\ \A q \in Reloads \ {r} : reload[q].pc \notin Section
    BY <1>1, <2>1, InSection DEF Section
  <2>3. reload[r].previous # r
    BY <1>1, <2>1, <2>2 DEF SlotInv, NotBornYet, PreviousBorn, Section
  <2>4. CASE UNCHANGED proxy /\ \E l \in {"fallback", "note_failure"} : Goto(r, l)
    BY <1>4, <2>1, <2>2, <2>4
  <2>5. CASE Goto(r, "publish") /\ Started(r, reload[r].loaded)
    <3>1. \A i \in Runtimes : Current(i)' => Current(i) /\ i = reload[r].previous
      BY <1>1, <2>1, <2>2, <2>5, GotoEffect, ManagerAssumption DEF Current, Section
    <3>2. \A i \in Runtimes \ {r} : proxy'[i] = proxy[i]
      BY <1>1, <2>5, StartEffect
    <3>. QED
      BY <2>3, <3>1, <3>2, RunsFrame
  <2>6. CASE Goto(r, "restore") /\ Started(r, proxy[reload[r].previous].cfg)
    <3>1. Current(reload[r].previous)
      BY <2>2 DEF Current
    <3>2. \A i \in Runtimes : Current(i)' => i = r \/ i = reload[r].previous
      BY <1>1, <2>1, <2>2, <2>6, GotoEffect, ManagerAssumption DEF Current, Section
    <3>3. proxy'[r].cfg = c /\ proxy'[reload[r].previous].cfg = c
      BY <1>1, <2>2, <2>3, <2>6, <3>1, StartEffect DEF Runs
    <3>. QED
      BY <3>2, <3>3 DEF Runs
  <2>. QED
    BY <1>7, <2>4, <2>5, <2>6 DEF ReloadStart, ReloadFallback
<1>8. CASE ReloadRestore(r)
  <2>1. reload[r].pc = "restore" /\ active' = r /\ UNCHANGED proxy /\ Goto(r, "note_restore")
    BY <1>8 DEF ReloadRestore
  <2>2. \A i \in Runtimes : Current(i)' => Current(i)
    BY <1>1, <2>1, GotoEffect DEF Current, Section
  <2>. QED
    BY <2>1, <2>2, RunsFrame
<1>. QED
  BY <1>2, <1>3, <1>5, <1>6, <1>7, <1>8 DEF ReloadStep

(* So no step but that of publishing makes another runtime the current one.   *)
LEMMA StepKeepsRuns ==
  ASSUME ManagerInv, [Next]_vars, \A r \in Reloads : ~ ReloadPublish(r), NEW c, Runs(c)
  PROVE  Runs(c)'
<1>1. TypeOK /\ reload \in [Reloads -> ReloadRecord] /\ active \in Runtimes \cup {Nobody}
  BY DEF ManagerInv, TypeOK
<1>2. CASE UNCHANGED <<active, proxy, reload>>
  BY <1>2, RunsFrame DEF Current
<1>3. ASSUME UNCHANGED reload, active' \in {active, Nobody},
             \A j \in Runtimes : proxy'[j].cfg = proxy[j].cfg
      PROVE  Runs(c)'
  <2>1. \A j \in Runtimes : Current(j)' => Current(j)
    BY <1>3, ManagerAssumption DEF Current
  <2>. QED
    BY <1>3, <2>1, RunsFrame
<1>4. ASSUME NEW i \in Runtimes, Bind(i) \/ TaskStops(i) PROVE Runs(c)'
  <2>1. \A j \in Runtimes : proxy'[j].cfg = proxy[j].cfg
    BY <1>1, <1>4, StateEffect DEF Bind, TaskStops
  <2>. QED
    BY <1>3, <1>4, <2>1 DEF Bind, TaskStops
<1>5. CASE Signal
  <2>1. \A j \in Runtimes : proxy'[j].cfg = proxy[j].cfg
    BY <1>1, <1>5 DEF Signal, TypeOK, ProxyRecord
  <2>. QED
    BY <1>3, <1>5, <2>1 DEF Signal
<1>6. CASE MainShutdown
  <2>1. \A j \in Runtimes : proxy'[j].cfg = proxy[j].cfg
    BY <1>1, <1>6, StopEffect DEF MainShutdown
  <2>. QED
    BY <1>3, <1>6, <2>1 DEF MainShutdown
<1>7. ASSUME NEW r \in Reloads, ReloadTake(r) PROVE Runs(c)'
  <2>1. CASE active = Nobody
    <3>1. Goto(r, "err") /\ UNCHANGED <<active, proxy>>
      BY <1>7, <2>1 DEF ReloadTake
    <3>2. \A j \in Runtimes : Current(j)' => Current(j)
      BY <1>1, <3>1, GotoEffect DEF Current, Section
    <3>. QED
      BY <3>1, <3>2, RunsFrame
  <2>2. CASE active # Nobody
    <3>1. /\ active' = Nobody /\ UNCHANGED proxy
          /\ reload'[r].previous = active /\ reload'[r].pc = "load"
          /\ \A q \in Reloads \ {r} : reload'[q] = reload[q]
      BY <1>1, <1>7, <2>2 DEF ReloadTake, ReloadRecord
    <3>2. \A j \in Runtimes : Current(j)' => Current(j)
      BY <3>1, ManagerAssumption DEF Current
    <3>. QED
      BY <3>1, <3>2, RunsFrame
  <2>. QED
    BY <2>1, <2>2
<1>8. ASSUME NEW s \in Saves, SaveStep(s) \/ \E d \in Configs : SaveBegin(s, d)
      PROVE  UNCHANGED <<active, proxy, reload>>
  BY <1>1, <1>8, SaveStepEffect DEF SaveBegin
<1>. QED
  BY <1>2, <1>4, <1>5, <1>6, <1>7, <1>8, ReloadKeepsRuns DEF Next, vars

(* Who changes what the snapshot says of the saved file.                      *)
LEMMA SnapshotWriters ==
  ASSUME TypeOK, [Next]_vars
  PROVE  \/ /\ snapshot'.saved_config = snapshot.saved_config
            /\ snapshot'.pending_reload \in {snapshot.pending_reload, TRUE}
         \/ \E s \in Saves : SaveSnapshot(s)
         \/ \E r \in Reloads : ReloadSnapshot(r)
<1>1. snapshot \in RuntimeManagerState
  BY DEF TypeOK
<1>2. ASSUME NEW r \in Reloads, ReloadStep(r)
      PROVE  UNCHANGED snapshot \/ ReloadSnapshot(r) \/ ReloadNote(r)
  BY <1>2 DEF ReloadStep, ReloadLoad, ReloadLoadFails, ReloadStop, ReloadJoin, ReloadReleased,
              ReloadNotReleased, ReloadStart, ReloadPublish, ReloadSummary, ReloadFallback,
              ReloadRestore
<1>3. ASSUME NEW r \in Reloads, ReloadNote(r)
      PROVE  /\ snapshot'.saved_config = snapshot.saved_config
             /\ snapshot'.pending_reload \in {snapshot.pending_reload, TRUE}
  BY <1>1, <1>3 DEF ReloadNote, RuntimeManagerState
<1>4. ASSUME NEW s \in Saves, SaveStep(s) PROVE UNCHANGED snapshot \/ SaveSnapshot(s)
  BY <1>4 DEF SaveStep, SaveCompare, SaveTruncate, SaveWrite
<1>5. ASSUME NEW s \in Saves, NEW c \in Configs, SaveBegin(s, c) PROVE UNCHANGED snapshot
  BY <1>5 DEF SaveBegin
<1>. QED
  BY <1>2, <1>3, <1>4, <1>5 DEF Next, vars, Bind, TaskStops, ReloadTake, MainShutdown, Signal

(* A save looks for a match once, at SaveCompare.                             *)
LEMMA MatchesKept ==
  ASSUME TypeOK, [Next]_vars, NEW s \in Saves,
         save'[s].pc \in {"truncate", "write", "snapshot"}, save'[s].active_matches
  PROVE  \/ SaveCompare(s)
         \/ /\ save[s].pc \in {"truncate", "write", "snapshot"} /\ save[s].active_matches
            /\ save'[s].cfg = save[s].cfg
<1>. USE DEF TypeOK, SaveRecord
<1>1. CASE UNCHANGED save
  BY <1>1
<1>2. ASSUME NEW z \in Saves, SaveStep(z) \/ \E c \in Configs : SaveBegin(z, c), z # s
      PROVE  save'[s] = save[s]
  BY <1>2, SaveStepEffect DEF SaveBegin
<1>3. CASE SaveTruncate(s)
  BY <1>3 DEF SaveTruncate
<1>4. CASE SaveWrite(s)
  BY <1>4 DEF SaveWrite
<1>5. ASSUME SaveSnapshot(s) \/ \E c \in Configs : SaveBegin(s, c) PROVE FALSE
  BY <1>5 DEF SaveSnapshot, SaveBegin
<1>6. ASSUME NEW r \in Reloads, ReloadStep(r) PROVE UNCHANGED save
  BY <1>6, OtherStepEffect
<1>. QED
  BY <1>1, <1>2, <1>3, <1>4, <1>5, <1>6
     DEF Next, vars, SaveStep, Bind, TaskStops, ReloadTake, MainShutdown, Signal

(* A reload that is behind its start keeps what it read.                      *)
LEMMA ReloadKept ==
  ASSUME TypeOK, [Next]_vars, NEW r \in Reloads,
         reload'[r].pc \in {"publish", "summary", "snapshot"}
  PROVE  /\ reload'[r].loaded = reload[r].loaded
         /\ reload'[r].pc = "publish" => reload[r].pc = "publish" \/ ReloadStart(r)
         /\ reload'[r].pc \in {"summary", "snapshot"} =>
              reload[r].pc \in {"summary", "snapshot"} \/ ReloadPublish(r)
<1>1. reload \in [Reloads -> ReloadRecord]
  BY DEF TypeOK
<1>2. CASE reload'[r] = reload[r]
  BY <1>2
<1>3. ASSUME NEW q \in Reloads, ReloadTake(q) \/ ReloadStep(q), q # r
      PROVE  reload'[r] = reload[r]
  <2>1. CASE \E l : Goto(q, l)
    BY <1>1, <1>3, <2>1 DEF Goto
  <2>2. CASE ReloadTake(q)
    BY <1>1, <1>3, <2>2 DEF ReloadTake, Goto
  <2>3. CASE ReloadLoad(q) \/ ReloadSummary(q)
    BY <1>1, <1>3, <2>3 DEF ReloadLoad, ReloadSummary, Goto
  <2>. QED
    BY <1>3, <2>1, <2>2, <2>3
       DEF ReloadStep, ReloadLoadFails, ReloadStop, ReloadJoin, ReloadReleased,
           ReloadNotReleased, ReloadStart, ReloadPublish, ReloadSnapshot, ReloadFallback,
           ReloadRestore, ReloadNote
<1>4. CASE ReloadStart(r) \/ ReloadPublish(r)
  <2>1. \/ ReloadStart(r) /\ \E l \in {"publish", "fallback"} : Goto(r, l)
        \/ ReloadPublish(r) /\ Goto(r, "summary")
    BY <1>4 DEF ReloadStart, ReloadPublish
  <2>. QED
    BY <2>1, GotoEffect
<1>5. CASE ReloadSummary(r)
  BY <1>1, <1>5 DEF ReloadSummary, Goto, ReloadRecord
<1>6. ASSUME \/ ReloadTake(r) \/ ReloadLoad(r) \/ ReloadLoadFails(r) \/ ReloadStop(r)
             \/ ReloadJoin(r) \/ ReloadReleased(r) \/ ReloadNotReleased(r)
             \/ ReloadSnapshot(r) \/ ReloadFallback(r) \/ ReloadRestore(r) \/ ReloadNote(r)
      PROVE  FALSE
  BY <1>1, <1>6 DEF ReloadTake, ReloadLoad, ReloadLoadFails, ReloadStop, ReloadJoin,
         ReloadReleased, ReloadNotReleased, ReloadSnapshot, ReloadFallback, ReloadRestore,
         ReloadNote, Goto, ReloadRecord
<1>7. ASSUME NEW s \in Saves, SaveStep(s) \/ \E c \in Configs : SaveBegin(s, c)
      PROVE  UNCHANGED reload
  BY <1>7, SaveStepEffect DEF SaveBegin
<1>. QED
  BY <1>2, <1>3, <1>4, <1>5, <1>6, <1>7
     DEF Next, vars, ReloadStep, Bind, TaskStops, MainShutdown, Signal

(* A runtime gets its config when it is started, and never another one.       *)
LEMMA ConfigKept ==
  ASSUME ManagerInv, [Next]_vars, NEW r \in Reloads
  PROVE  proxy'[r].cfg = proxy[r].cfg \/ ReloadStart(r) \/ ReloadFallback(r)
<1>1. /\ TypeOK /\ SlotInv /\ r \in Runtimes /\ active \in Runtimes \cup {Nobody}
  BY DEF ManagerInv, Control, Runtimes, TypeOK
<1>2. CASE UNCHANGED proxy
  BY <1>2
<1>3. ASSUME NEW i \in Runtimes, Bind(i) \/ TaskStops(i) PROVE proxy'[r].cfg = proxy[r].cfg
  BY <1>1, <1>3, StateEffect DEF Bind, TaskStops
<1>4. ASSUME Signal PROVE proxy'[r].cfg = proxy[r].cfg
  BY <1>1, <1>4 DEF Signal, TypeOK, ProxyRecord
<1>5. ASSUME MainShutdown PROVE proxy'[r].cfg = proxy[r].cfg
  BY <1>1, <1>5, StopEffect DEF MainShutdown
<1>6. ASSUME NEW q \in Reloads, ReloadLoadFails(q) \/ ReloadStop(q) \/ ReloadJoin(q)
      PROVE  proxy'[r].cfg = proxy[r].cfg
  <2>1. reload[q].previous \in Runtimes
    BY <1>1, <1>6, InSection DEF ReloadLoadFails, ReloadStop, ReloadJoin, Section
  <2>. QED
    BY <1>1, <1>6, <2>1, StopEffect, StateEffect DEF ReloadLoadFails, ReloadStop, ReloadJoin
<1>7. ASSUME NEW q \in Reloads, ReloadStart(q) \/ ReloadFallback(q), q # r
      PROVE  proxy'[r].cfg = proxy[r].cfg
  <2>1. UNCHANGED proxy \/ \E c : Started(q, c)
    BY <1>7 DEF ReloadStart, ReloadFallback
  <2>. QED
    BY <1>1, <1>7, <2>1, StartEffect DEF Runtimes
<1>8. ASSUME NEW q \in Reloads,
             \/ ReloadTake(q) \/ ReloadLoad(q) \/ ReloadReleased(q) \/ ReloadNotReleased(q)
             \/ ReloadPublish(q) \/ ReloadSummary(q) \/ ReloadSnapshot(q)
             \/ ReloadRestore(q) \/ ReloadNote(q)
      PROVE  UNCHANGED proxy
  BY <1>8 DEF ReloadTake, ReloadLoad, ReloadReleased, ReloadNotReleased, ReloadPublish,
              ReloadSummary, ReloadSnapshot, ReloadRestore, ReloadNote
<1>9. ASSUME NEW s \in Saves, SaveStep(s) \/ \E c \in Configs : SaveBegin(s, c)
      PROVE  UNCHANGED proxy
  BY <1>1, <1>9, SaveStepEffect DEF SaveBegin
<1>. QED
  BY <1>2, <1>3, <1>4, <1>5, <1>6, <1>7, <1>8, <1>9 DEF Next, ReloadStep, vars

(* A publishing reload: what it read is what was saved last, and it is alone. *)
LEMMA PublishMatches ==
  ASSUME BaseInv, ~ Meet, UpToDate, ReloadRuns, NEW r \in Reloads, ReloadPublish(r)
  PROVE  NothingPending' /\ MatchFound' /\ ReloadRuns'
<1>1. /\ TypeOK /\ SlotInv /\ r \in Runtimes
  BY DEF BaseInv, ManagerInv, Control, Runtimes
<1>2. /\ reload[r].pc = "publish" /\ active' = r /\ Goto(r, "summary")
      /\ UNCHANGED <<proxy, snapshot, save>>
  BY DEF ReloadPublish
<1>3. /\ Applying(r) /\ \A s \in Saves : save[s].pc \in Finished
      /\ \A q \in Reloads \ {r} : reload[q].pc \notin Section
  BY <1>1, <1>2, InSection DEF Applying, Finished, Meet, Under, Section
<1>4. snapshot.saved_config = wanted /\ proxy[r].cfg = wanted
  BY <1>2, <1>3 DEF UpToDate, SavedWanted, AppliesWanted, ReloadRuns, Finished
<1>5. \A i \in Runtimes : Current(i)' => proxy'[i].cfg = wanted
  <2>1. \A i \in Runtimes : active' = i \/ (\E q \in Reloads : reload'[q].pc \in Section)
                           => i = r
    BY <1>1, <1>2, <1>3, GotoEffect DEF Section
  <2>2. \A i \in Runtimes : Current(i)' => i = r
    BY <2>1 DEF Current, Section
  <2>. QED
    BY <1>2, <1>4, <2>2
<1>6. NothingPending'
  BY <1>2, <1>4, <1>5 DEF NothingPending, Runs
<1>7. MatchFound'
  BY <1>2, <1>3 DEF MatchFound, Finished
<1>8. ReloadRuns'
  <2>1. ASSUME NEW q \in Reloads, reload'[q].pc \in {"publish", "summary", "snapshot"}
        PROVE  reload'[q].pc # "publish" /\ reload'[q].loaded = wanted
    <3>1. /\ reload'[q].loaded = reload[q].loaded
          /\ q # r => reload'[q].pc = reload[q].pc
          /\ q = r => reload'[q].pc = "summary"
      BY <1>1, <1>2, GotoEffect
    <3>2. Applying(q) /\ reload'[q].pc # "publish"
      BY <1>3, <2>1, <3>1 DEF Applying, Finished, Section
    <3>. QED
      BY <3>1, <3>2 DEF UpToDate, AppliesWanted
  <2>. QED
    BY <1>5, <2>1 DEF ReloadRuns, Runs
<1>. QED
  BY <1>6, <1>7, <1>8

(* Every step keeps the answer true, as long as calls do not meet.            *)
LEMMA NextMatchInv ==
  ASSUME BaseInv, UpdateInv, MatchInv, [ConsoleNext]_consoleVars PROVE MatchInv'
<1>1. /\ TypeOK /\ SlotInv /\ ManagerInv /\ [Next]_vars
      /\ reload \in [Reloads -> ReloadRecord] /\ save \in [Saves -> SaveRecord]
  BY StepsOfManager DEF BaseInv, ManagerInv, Control, TypeOK
<1>. SUFFICES ASSUME ~ overlapped' PROVE NothingPending' /\ MatchFound' /\ ReloadRuns'
  BY DEF MatchInv
<1>2. ~ overlapped
  BY DEF ConsoleNext, consoleVars
<1>3. ~ Meet /\ UpToDate /\ NothingPending /\ MatchFound /\ ReloadRuns
  BY <1>2 DEF UpdateInv, MatchInv
<1>4. CASE \E r \in Reloads : ReloadPublish(r)
  BY <1>3, <1>4, PublishMatches
<1>5. CASE \A r \in Reloads : ~ ReloadPublish(r)
  <2>1. ASSUME NEW c, Runs(c) PROVE Runs(c)'
    BY <1>1, <1>5, <2>1, StepKeepsRuns
  <2>2. ASSUME NEW c, Runs(c), NEW i \in Runtimes, Current(i)' PROVE proxy'[i].cfg = c
    BY <2>1, <2>2 DEF Runs
  <2>3. NothingPending'
    <3>1. ASSUME NEW s \in Saves, SaveSnapshot(s) PROVE NothingPending'
      <4>1. /\ save[s].pc = "snapshot" /\ snapshot'.saved_config = save[s].cfg
            /\ ~ snapshot'.pending_reload => save[s].active_matches
        BY <1>1, <3>1 DEF SaveSnapshot, TypeOK, RuntimeManagerState
      <4>. QED
        BY <1>3, <2>2, <4>1 DEF NothingPending, MatchFound, Runs
    <3>2. ASSUME NEW r \in Reloads, ReloadSnapshot(r) PROVE NothingPending'
      <4>1. reload[r].pc = "snapshot" /\ snapshot'.saved_config = reload[r].loaded
        BY <3>2 DEF ReloadSnapshot
      <4>. QED
        BY <1>3, <2>2, <4>1 DEF NothingPending, ReloadRuns, Runs
    <3>3. CASE /\ snapshot'.saved_config = snapshot.saved_config
               /\ snapshot'.pending_reload \in {snapshot.pending_reload, TRUE}
      BY <1>3, <2>2, <3>3 DEF NothingPending, Runs
    <3>. QED
      BY <1>1, <3>1, <3>2, <3>3, SnapshotWriters
  <2>4. MatchFound'
    <3>. SUFFICES ASSUME NEW s \in Saves,
                         save'[s].pc \in {"truncate", "write", "snapshot"},
                         save'[s].active_matches, NEW i \in Runtimes, Current(i)'
                  PROVE  proxy'[i].cfg = save'[s].cfg
      BY DEF MatchFound, Runs
    <3>1. CASE SaveCompare(s)
      <4>1. /\ active # Nobody /\ proxy[active].cfg = save[s].cfg /\ save'[s].cfg = save[s].cfg
        BY <1>1, <3>1 DEF SaveCompare, SaveRecord
      <4>2. \A j \in Runtimes : Current(j) => j = active
        BY <1>1, <4>1 DEF Current, SlotInv, OneReloadAtATime, Section
      <4>3. Runs(save[s].cfg)
        BY <4>1, <4>2 DEF Runs
      <4>. QED
        BY <2>2, <4>1, <4>3
    <3>2. CASE /\ save[s].pc \in {"truncate", "write", "snapshot"} /\ save[s].active_matches
               /\ save'[s].cfg = save[s].cfg
      BY <1>3, <2>2, <3>2 DEF MatchFound
    <3>. QED
      BY <1>1, <3>1, <3>2, MatchesKept
  <2>5. ReloadRuns'
    <3>1. ASSUME NEW r \in Reloads, reload'[r].pc \in {"summary", "snapshot"}
          PROVE  Runs(reload[r].loaded) /\ reload'[r].loaded = reload[r].loaded
      BY <1>1, <1>3, <1>5, <3>1, ReloadKept DEF ReloadRuns
    <3>2. ASSUME NEW r \in Reloads, reload'[r].pc = "publish"
          PROVE  proxy'[r].cfg = reload'[r].loaded
      <4>1. r \in Runtimes /\ reload'[r].loaded = reload[r].loaded
        BY <1>1, <3>2, ReloadKept DEF Runtimes
      <4>2. CASE ReloadStart(r)
        <5>1. \/ Started(r, reload[r].loaded)
              \/ Goto(r, "fallback")
          BY <4>2 DEF ReloadStart
        <5>. QED
          BY <1>1, <3>2, <4>1, <5>1, StartEffect, GotoEffect
      <4>3. CASE reload[r].pc = "publish" /\ ~ ReloadStart(r)
        <5>1. proxy'[r].cfg = proxy[r].cfg
          BY <1>1, <4>3, ConfigKept DEF ReloadFallback
        <5>. QED
          BY <1>3, <4>1, <4>3, <5>1 DEF ReloadRuns
      <4>. QED
        BY <1>1, <3>2, <4>2, <4>3, ReloadKept
    <3>. QED
      BY <2>2, <3>1, <3>2 DEF ReloadRuns, Runs
  <2>. QED
    BY <2>3, <2>4, <2>5
<1>. QED
  BY <1>4, <1>5

(* "Config saved. The running proxy already matches this file." is true when  *)
(* it is shown: the comparison is made before the file is written, and the    *)
(* page is rendered after other calls may have run, but as long as none met   *)
(* another the runtime in the slot has the config that is in the file.        *)
THEOREM MatchesIsTrueHolds == ConsoleSpec => MatchesIsTrue
<1>1. ConsoleInit => OneCaller /\ Called /\ UpdateInv /\ MatchInv
  <2>. SUFFICES ASSUME ConsoleInit PROVE MatchInv
    BY InitUpdateInv
  <2>1. /\ \A s \in Saves : save[s].pc = "idle"
        /\ \A r \in Reloads : reload[r].pc = "idle"
        /\ active = Boot /\ proxy[Boot].cfg = snapshot.saved_config
    BY DEF ConsoleInit, Init, Runtimes
  <2>2. Runs(snapshot.saved_config)
    BY <2>1 DEF Runs, Current, Section
  <2>. QED
    BY <2>1, <2>2 DEF MatchInv, NothingPending, MatchFound, ReloadRuns
<1>2. /\ BaseInv /\ OneCaller /\ Called /\ UpdateInv /\ MatchInv
      /\ [ConsoleNext]_consoleVars
      => OneCaller' /\ Called' /\ UpdateInv' /\ MatchInv'
  BY NextCalls, NextUpdateInv, NextMatchInv
<1>3. ASSUME BaseInv, UpdateInv, MatchInv, NEW t \in Tabs,
             SaveNotice(tab[t].call) = "The running proxy already matches this file.",
             ~ overlapped, \A s \in Saves : ~ Under(s), active # Nobody, disk # NotJson
      PROVE  proxy[active].cfg = disk
  <2>1. /\ disk \in Configs /\ active \in Runtimes /\ ~ snapshot.pending_reload
    BY <1>3 DEF BaseInv, ConsoleTypeOK, TypeOK, SaveNotice
  <2>2. snapshot.saved_config = wanted /\ disk = wanted
    BY <1>3, <2>1 DEF UpdateInv, UpToDate, SavedWanted, DiskWanted, Under, Finished
  <2>3. Runs(snapshot.saved_config)
    BY <1>3, <2>1 DEF MatchInv, NothingPending
  <2>. QED
    BY <2>1, <2>2, <2>3 DEF Runs, Current
<1>4. BaseInv /\ UpdateInv /\ MatchInv =>
        \A t \in Tabs :
          /\ tab[t].pc = "saving" /\ tab'[t].pc = "idle"
          /\ SaveNotice(tab[t].call) = "The running proxy already matches this file."
          /\ ~ overlapped /\ \A s \in Saves : ~ Under(s)
          => active = Nobody \/ disk = NotJson \/ proxy[active].cfg = disk
  BY <1>3
<1>. QED
  BY <1>1, <1>2, <1>4, ConsoleInvariant, PTL DEF ConsoleSpec, MatchesIsTrue
=============================================================================

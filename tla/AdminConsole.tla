---------------------------- MODULE AdminConsole ----------------------------
(* src/src/admin.rs: the config editor, composed with the runtime manager it  *)
(* drives. Browser tabs open its pages and post their forms; the handlers run *)
(* at the same time as each other and as a reload.                            *)
(*                                                                           *)
(* Between reading the snapshot and the first lock of save_config a handler   *)
(* only computes, so both are one step; the steps of save_config and reload   *)
(* are those of RuntimeManager. Nothing in the save path awaits: a handler    *)
(* that saves cannot be dropped, one that reloads leaves the reload running.  *)
EXTENDS RuntimeManager, ConfigForm, TLC

CONSTANTS Tabs,           \* browser tabs
          Visits,         \* bound: the pages that each tab is used for
          Starts,         \* files the program may be started with
          TypedSettings,  \* what a user may type, a form with the typed fields
          TypedRules,     \* what a user may make of a TransformEditor article
          Settings,       \* the settings and the rules that can come of that,
          Rules           \* valid or not; see Closed

VARIABLES tab,            \* each tab: what it shows, and its handler if it waits
          wanted,         \* history: the sections users saved last
          overlapped      \* history: calls of the manager that got in each
                          \* other's way

managerVars == vars
consoleVars == <<disk, active, proxy, snapshot, reload, save, main, tab, wanted, overlapped>>

\* The buttons of the rules form that do not save; all but the first are in the
\* article of a rule.
Buttons == {"add_transform", "move_transform_up", "move_transform_down",
            "remove_transform"}
TabRecord ==
  [at : {"nothing", "config", "transforms"},        \* "nothing": a page without a form
   pc : {"idle", "saving", "reloading"},
   settings : Settings \cup {NoConfig},       \* the section of the draft that an
   rules : BoundedSeq(Rules, MaxRules),      \* editor page shows
   call : Saves \cup Reloads \cup {Nobody}]

\* The files made of them, and those a reload accepts.
Files == [runtime : Settings, transforms : BoundedSeq(Rules, MaxRules)]
ValidFiles ==
  [runtime : { s \in Settings : ValidSettings(s) },
   transforms : BoundedSeq({ r \in Rules : ValidRule(r) }, MaxRules)]

\* The form as shown, or with fields typed over, or with the checkbox cleared;
\* or a script that posts the typed fields alone.
SettingsPosts(settings) ==
  LET form == RuntimeConfigPage(settings)
  IN {form} \cup TypedSettings \cup { typed @@ form : typed \in TypedSettings }
            \cup { [key \in DOMAIN form \ {"trust_proxy_headers"} |-> form[key]] }

RulesPosts(rules) ==
  LET form == TransformsPage(rules)
  IN {form, [articles |-> <<>>, counted |-> FALSE]}
     \cup { [form EXCEPT !.articles[i] = a] : i \in DOMAIN form.articles, a \in TypedRules }

\* No form leads out of Settings and Rules, as none leads out of the types.
Closed ==
  /\ Settings \subseteq RuntimeSettingsFile
  /\ Rules \subseteq TransformRuleFile
  /\ \A shown, fallback \in Settings : \A values \in SettingsPosts(shown) :
       runtime_from_form(values, fallback) \in Settings
  /\ TypedRules \subseteq Article
  /\ \A a \in TypedRules : RuleFromForm(a) \in Rules
  /\ blank_transform \in Rules

ASSUME ConsoleAssumption ==
  /\ Closed
  /\ Configs = ValidFiles
  /\ Starts \subseteq Configs
  /\ Visits \in [Tabs -> SUBSET {"config", "transforms"}]
  /\ \A c \in Configs : ListenAddr[c] = c.runtime.listen_addr

ConsoleTypeOK ==
  /\ TypeOK
  /\ tab \in [Tabs -> TabRecord]
  /\ wanted \in Files
  /\ overlapped \in BOOLEAN

Showing(page) ==
  [at |-> page, pc |-> "idle", settings |-> NoConfig, rules |-> <<>>,
   call |-> Nobody]

ConsoleInit ==
  /\ Init
  /\ disk \in Starts
  /\ tab = [t \in Tabs |-> Showing("nothing")]
  /\ wanted = disk
  /\ overlapped = FALSE

-----------------------------------------------------------------------------
(* Editor pages. Editor(page, c) is render_runtime_config or                  *)
(* render_transforms of draft c, each of which shows one section of it.      *)

Editor(page, c) ==
  IF page = "config" THEN [Showing(page) EXCEPT !.settings = c.runtime]
  ELSE [Showing(page) EXCEPT !.rules = c.transforms]
Requests(t) == tab[t].pc = "idle"

\* config_page and transforms_page.
OpenEditor(t, page) ==
  /\ Requests(t) /\ page \in Visits[t]
  /\ tab' = [tab EXCEPT ![t] = Editor(page, snapshot.saved_config)]
  /\ UNCHANGED <<managerVars, wanted>>

\* Any draft goes to save_config, whose to_runtime_config refuses it before
\* anything is changed if it is not valid.
SubmitSave(t, draft) ==
  \/ /\ Valid(draft)
     /\ \E s \in Saves :
          /\ SaveBegin(s, draft)
          /\ tab' = [tab EXCEPT ![t] = [Showing(tab[t].at) EXCEPT !.pc = "saving", !.call = s]]
  \/ /\ ~ Valid(draft)
     /\ tab' = [tab EXCEPT ![t] = Editor(tab[t].at, draft)]
     /\ UNCHANGED managerVars

ConfigDraft(values) ==
  [snapshot.saved_config EXCEPT
     !.runtime = runtime_from_form(values, snapshot.saved_config.runtime)]

\* config_submit, "Save config".
ConfigSubmit(t) ==
  /\ Requests(t)
  /\ tab[t].at = "config"
  /\ \E values \in SettingsPosts(tab[t].settings) : SubmitSave(t, ConfigDraft(values))
  /\ UNCHANGED wanted

TransformsDraft(values, button) ==
  [snapshot.saved_config EXCEPT
     !.transforms = apply_editor_action(transforms_from_form(values, @), button,
                                        editor_index(values))]

\* transforms_submit, "Save config".
TransformsSubmit(t) ==
  /\ Requests(t)
  /\ tab[t].at = "transforms"
  /\ \E values \in RulesPosts(tab[t].rules) : SubmitSave(t, TransformsDraft(values, "save"))
  /\ UNCHANGED wanted

\* transforms_submit, a button that does not save: the draft is shown again.
TransformsEdit(t) ==
  /\ Requests(t)
  /\ tab[t].at = "transforms"
  /\ \E values \in RulesPosts(tab[t].rules), button \in Buttons :
       LET draft == TransformsDraft(values, button)
       IN /\ Len(draft.transforms) <= MaxRules
          /\ tab' = [tab EXCEPT ![t] = Editor("transforms", draft)]
  /\ UNCHANGED <<managerVars, wanted>>

\* What the page says of a save, from the snapshot as it is by then.
SaveNotice(s) ==
  IF save[s].pc = "err" THEN "Config did not save."
  ELSE IF snapshot.pending_reload THEN "Reload is required to apply it."
  ELSE "The running proxy already matches this file."

\* save_config returned.
SaveRespond(t) ==
  /\ tab[t].pc = "saving"
  /\ save[tab[t].call].pc \in {"ok", "err"}
  /\ tab' = [tab EXCEPT ![t] = Editor(tab[t].at, save[tab[t].call].cfg)]
  /\ UNCHANGED <<managerVars, wanted>>

\* "Reload proxy", on either page.
ReloadSubmit(t) ==
  /\ Requests(t)
  /\ tab[t].at \in {"config", "transforms"}
  /\ \E r \in Reloads :
       /\ ReloadTake(r)
       /\ tab' = [tab EXCEPT ![t] = [Showing(tab[t].at) EXCEPT !.pc = "reloading", !.call = r]]
  /\ UNCHANGED wanted

ReloadRespond(t) ==
  /\ tab[t].pc = "reloading"
  /\ reload[tab[t].call].pc \in {"ok", "err"}
  /\ tab' = [tab EXCEPT ![t] = Editor(tab[t].at, snapshot.saved_config)]
  /\ UNCHANGED <<managerVars, wanted>>

\* The browser goes away while it waits; the reload goes on by itself.
Leave(t) ==
  /\ tab[t].pc = "reloading"
  /\ tab' = [tab EXCEPT ![t] = Showing("nothing")]
  /\ UNCHANGED <<managerVars, wanted>>

-----------------------------------------------------------------------------

Under(s) == save[s].pc \notin Finished
Applying(r) == reload[r].pc \notin Finished \cup {"load"}
Wrote(t) == /\ tab[t].pc = "saving"
            /\ save[tab[t].call].pc = "write" /\ save'[tab[t].call].pc = "snapshot"

\* What the manager does on its own; a save that wrote the file makes its
\* tab's section the one that was saved last.
ManagerStep ==
  /\ \/ \E i \in Runtimes : Bind(i) \/ TaskStops(i)
     \/ \E r \in Reloads : ReloadStep(r)
     \/ \E s \in Saves : SaveStep(s)
  /\ UNCHANGED tab
  /\ \/ \E t \in Tabs :
          /\ Wrote(t)
          /\ LET saved == save[tab[t].call].cfg
             IN wanted' = IF tab[t].at = "config"
                          THEN [wanted EXCEPT !.runtime = saved.runtime]
                          ELSE [wanted EXCEPT !.transforms = saved.transforms]
     \/ (\A t \in Tabs : ~ Wrote(t)) /\ UNCHANGED wanted

Meet ==
  \/ \E s \in Saves : Under(s) /\ \E z \in Saves \ {s} : Under(z)
  \/ \E r \in Reloads, s \in Saves : Applying(r) /\ Under(s)

ConsoleNext ==
  /\ \/ \E t \in Tabs :
          \/ OpenEditor(t, "config") \/ OpenEditor(t, "transforms")
          \/ ConfigSubmit(t) \/ TransformsSubmit(t) \/ SaveRespond(t)
          \/ TransformsEdit(t) \/ ReloadSubmit(t) \/ ReloadRespond(t) \/ Leave(t)
     \/ ManagerStep
  /\ overlapped' = (overlapped \/ Meet')

ConsoleSpec == ConsoleInit /\ [][ConsoleNext]_consoleVars

-----------------------------------------------------------------------------
(* Properties.                                                               *)

(* No update is lost: what the config page saved and what the transforms page *)
(* saved are both in the file, although every save writes a whole file and    *)
(* tabs may be old; unless a save met another one, or met a reload between    *)
(* its reading the file and its publishing of what it read.                   *)
NoLostUpdate ==
  /\ ~ overlapped
  /\ \A s \in Saves : ~ Under(s)
  /\ disk \in Configs
  => disk = wanted

(* A form that is posted as it was shown stands for the section that was      *)
(* shown, whatever was saved since: no field falls back to another value.     *)
SavedIsWhatWasShown ==
  \A t \in Tabs : Requests(t) =>
    /\ tab[t].at = "config" =>
         runtime_from_form(RuntimeConfigPage(tab[t].settings),
                           snapshot.saved_config.runtime) = tab[t].settings
    /\ tab[t].at = "transforms" =>
         transforms_from_form(TransformsPage(tab[t].rules),
                              snapshot.saved_config.transforms) = tab[t].rules

(* "Config saved. The running proxy already matches this file.": the answer   *)
(* may come late, after other saves and a reload; if these did not meet, it   *)
(* is still true then: the runtime in the slot was started from the file.     *)
MatchesIsTrue ==
  [][\A t \in Tabs :
       /\ tab[t].pc = "saving" /\ tab'[t].pc = "idle"
       /\ SaveNotice(tab[t].call) = "The running proxy already matches this file."
       /\ ~ overlapped /\ \A s \in Saves : ~ Under(s)
       => active = Nobody \/ disk = NotJson \/ proxy[active].cfg = disk]_consoleVars

-----------------------------------------------------------------------------
(* A claim of the admin UI that the code does not keep.                      *)

(* admin.rs, TransformEditor: "Rule {}" heads an article with the buttons     *)
(* "Up", "Down" and "Remove", which act on the rule of their article.         *)
ButtonActsOnItsRule ==
  \A t \in Tabs : Requests(t) /\ tab[t].at = "transforms" =>
    \A i \in DOMAIN tab[t].rules, button \in Buttons \ {"add_transform"} :
      apply_editor_action(tab[t].rules, button, editor_index(TransformsPage(tab[t].rules)))
        = apply_editor_action(tab[t].rules, button, i - 1)
=============================================================================
